SPECIFICATION Spec
CONSTANTS
  Declarations <- SomeDeclarations
  AllTypes = {"date", "bool"}
  Placeholders = {"any1"}
  Kinds = {"date", "bool"}
  Canonical <- CanonicalTypes
  Calls <- SomeCalls
  MaxCalls = 3
INVARIANTS
  OverloadsAreMostSpecific
  CallsResolve
  StrictIsExact
  NamesComeBack
CHECK_DEADLOCK FALSE
