SPECIFICATION IndexSpec
CONSTANTS
    code = code
    access = access
    r1 = r1
    r2 = r2
    Tokens <- TwoTokens
    Consumable <- OnlyCode
    Lifetimes <- ShortAndLong
    Coded <- OnlyCode
    Calls <- TwoCalls
    MaxTrip = 1
    EndOfTime = 3
SYMMETRY Symmetry
INVARIANTS
    IndexTypeOK
    LiveTokensAreListed
    KeysFollowTokens
PROPERTIES
    RevocationsComplete
    ImplementsTokenStore
