SPECIFICATION Spec
CONSTANTS
    c1 = c1
    c2 = c2
    a = a
    b = b
    Clients = {c1, c2}
    Callers = {c1}
    Names = {a, b}
    Schemas <- MCSchemas
    Plans <- MCPlans
INVARIANTS TypeOK ReadsAreTheCallers ColumnsAreThoseNamed ReadsSucceed
    WritesAreDoneOnce WritesStay
PROPERTIES CallsEnd
