SPECIFICATION Spec
CONSTANTS
    left = left
    right = right
    home = home
    work = work
    Tabs <- OneTab
    Accounts <- TwoAccounts
    NoCookie = NoCookie
    Nobody = Nobody
    Typo = Typo
    LastStep = 1
    MaxWrong = 3
CHECK_DEADLOCK FALSE
INVARIANTS
    CodePageMeansTexted
