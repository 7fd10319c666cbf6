SPECIFICATION SpecAll
CONSTANTS
    Plans <- SomePlans
    Places <- PlacesIn
    Height <- HeightOf
    MaxJoins = 3
    MaxFrames = 10
INVARIANTS SourcesAreLexical SourcesAreEmptied QueryComesBack
    OnlyNestedCTEsFail LoadsMatchSaves
PROPERTIES TranslationEnds
CHECK_DEADLOCK FALSE
