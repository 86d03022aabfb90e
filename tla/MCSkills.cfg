SPECIFICATION Spec
CONSTANTS
    ea = ea
    eb = eb
    g = g
    h1 = h1
    h2 = h2
    creator = creator
    own = own
    helper = helper
    ghost = ghost
    Emails = {ea, eb}
    AdminEmails = {ea}
    Residents <- MCResidents
    Subs = {g}
    SubEmail <- MCSubEmail
    Handlers = {h1, h2}
    MaxAccounts = 2
    MaxCodes = 0
    MaxRequests = 3
    MaxRestarts = 1
    Names = {creator, own}
    Builtin = creator
    Scripts = {helper, ghost}
    Unkept = {ghost}
    Helper = helper
    Uploads <- MCUploads
    Drafts <- MCDrafts
    MaxScripts = 1
    MaxSkills = 2
SYMMETRY HandlerSymmetry
INVARIANTS
    GeneratedIsWhole
    PromptsAreChosen
CHECK_DEADLOCK FALSE
