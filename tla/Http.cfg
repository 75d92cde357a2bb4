SPECIFICATION FairSpec
CONSTANTS
    c1 = c1
    c2 = c2
    Conns <- MCConns
    None = None
    HexDigits <- MCHexDigits
    Codes <- MCCodes
    FieldName <- MCFieldName
    CookieName <- MCCookieName
    PasswordMax = 4
    Requests <- MCRequests
    LaterRequests <- MCLaterRequests
    Password <- MCPassword
    Token <- MCToken
    PageSize <- MCPageSize
    BodyMax = 11
    CookieMax = 12
    WriteMax = 2
INVARIANTS
    
    LoginExact
    NothingCarriedOver
    WholeAnswers
PROPERTIES
    RequestsEnd
