SPECIFICATION Spec
CONSTANTS
    u1 = u1
    u2 = u2
    r1 = r1
    r2 = r2
    c1 = c1
    c2 = c2
    t1 = t1
    upBasic = upBasic
    upPro = upPro
    top2 = top2
    Users = {u1}
    Runs = {r1, r2}
    Owner <- OneOwner
    Quotes <- MCQuotes
    ToolQuotes = {1}
    Calls = {c1}
    MediaCalls = {c1}
    CallPoints = {2}
    Turns = {t1}
    TokenCounts = {3}
    TokensPerPoint = 2
    Invites = {}
    InvitePlan <- NoInvites
    InviteTopup <- NoInvites
    Adjustments = {}
    DailyQuota <- MCDailyQuota
    MonthlyQuota <- MCMonthlyQuota
    DayLength = 1
    MonthLength = 2
    PlanLength = 1
    TTL = 1
    MaxTime = 2
    MaxPermanent = 2
    StalePreview = TRUE
PROPERTIES
    StaleHoldsReturned
