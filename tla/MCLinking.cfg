SPECIFICATION Spec
CONSTANTS
    Cases <- MCCases
    ProjectOf <- MCProjectOf
    PreludeTypes <- MCPreludeTypes
    PreludePrivate <- MCPreludePrivate
    ReservedNames <- MCReserved
    InvalidNamespaces = {"my-file"}
INVARIANTS LoadedExactly NamesDenote
CHECK_DEADLOCK FALSE
