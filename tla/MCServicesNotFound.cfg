SPECIFICATION Spec
CONSTANTS
    user = user
    stranger = stranger
    Logins <- TwoLogins
    Known <- OneKnown
    Plain <- OnePlain
    UrlParams <- UrlEndings
    RateLimit = 1
CHECK_DEADLOCK FALSE
INVARIANTS
    NotFoundMeansUnknown
