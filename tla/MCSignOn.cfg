SPECIFICATION SignOnSpec
CONSTANTS
    left = left
    right = right
    home = home
    work = work
    foo = foo
    other = other
    Tabs <- TwoTabs
    Accounts <- TwoAccounts
    NoCookie = NoCookie
    Nobody = Nobody
    Typo = Typo
    LastStep = 1
    MaxWrong = 4
    FirstParty <- OneFirst
    ThirdParty <- OneThird
    Asks <- ThreeAsks
CHECK_DEADLOCK FALSE
SYMMETRY Symmetry
INVARIANTS
    SignOnTypeOK
    SignedInWasTexted
    GivenUpAfterThree
    RetriesAreCounted
    ConsentIsForThirdParties

    
