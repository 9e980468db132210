SPECIFICATION Spec
CONSTANTS
    CaseKeys <- MCCaseKeys
    CaseOf <- MCCaseOf
    ByteLength <- MCByteLength
    CharCount <- MCCharCount
    InvalidTexts = {"bad"}
    MaxDepth = 3
    NativeDepth = 2
    SmallInts <- MCSmallInts
    Types <- MCTypes
    Traits <- MCTraits
    MaxInt = 800000
    Decimal <- MCDecimal
INVARIANTS HostSeesValue LimitsAgree ProgramSeesValue BoundConforms RustRoundTrip
CHECK_DEADLOCK FALSE
