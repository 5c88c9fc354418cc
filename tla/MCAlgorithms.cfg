CONSTANTS
    Endpoints <- MCEndpoints
    RawStrings <- MCStrings
    Known <- MCText
    RawLists <- MCLists
    JSONValues <- MCJSONValues
    MaxInt = 7
    Exact = 4
    URIs <- TwoURIs
    KeyStrings <- FewStrings
    KeyLists <- FewLists
    Ints <- FewInts
    IntLists <- FewIntLists
    Optional = FALSE
    MaxParams = 2
    LimbsHold <- LimbsClaim
    NumbersHold <- NumbersClaim
    UnicodeHold <- UnicodeClaim
    StringsHold <- StringsClaim
    JsonHold <- JsonClaim
    ArraysHold <- ArraysClaim
    DatesHold <- DatesClaim
    OperatorsHold <- OperatorsClaim
SPECIFICATION AlgorithmsSpec
INVARIANTS ParamsAsPromised   NumbersRound  StringsExact JsonExact ArraysExact DatesExact OperatorsExact
CHECK_DEADLOCK FALSE
