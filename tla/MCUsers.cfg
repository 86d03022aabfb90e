SPECIFICATION UsersSpec
CONSTANTS
    ea = ea
    eb = eb
    g = g
    h1 = h1
    h2 = h2
    Emails = {ea, eb}
    AdminEmails = {ea}
    Residents <- MCResidents
    Subs = {g}
    SubEmail <- MCSubEmail
    Handlers = {h1, h2}
    MaxAccounts = 3
    MaxCodes = 2
    MaxRequests = 5
    MaxRestarts = 1
SYMMETRY HandlerSymmetry
PROPERTIES
    BarredStaysOut
    CodeSpent
CHECK_DEADLOCK FALSE
