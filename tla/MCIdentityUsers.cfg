SPECIFICATION Spec
CONSTANTS
    ann = ann
    bob = bob
    p = p
    q = q
    r1 = r1
    r2 = r2
    Users <- TwoUsers
    Emails <- TwoEmails
    Phones <- OnePhone
    Names <- OneName
    Blank = Blank
    Calls <- TwoCalls
SYMMETRY Symmetry
INVARIANTS
    TypeOK
    AnswersAreStored
PROPERTIES
    OnlyGivenFieldsChange
