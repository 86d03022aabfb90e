SPECIFICATION FairSpec
CONSTANTS
    sh = sh
    video = video
    image = image
    file = file
    mail = mail
    Shell = {sh}
    Media = {video, image}
    Plain = {file, mail}
    Forbidden = {mail}
    Paid = {video, image}
    Funds = 1
    MaxTurns = 1
    MaxAttempts = 3
    MaxMishaps = 1
    Events = {"lost", "timeout", "unreachable", "settled"}
INVARIANTS
    SucceedsOnce
    ProofIsReal
    UsageIsCovered
PROPERTIES
    CallsEnd
CHECK_DEADLOCK FALSE
