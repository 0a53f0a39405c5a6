\* Two users, one request at a time, an admin list that changes once.
SPECIFICATION Spec
CONSTANTS
    u = u
    v = v
    Logins = {u, v}
    Configs <- ThreeConfigs
    MaxEdits = 1
    Requests = {r1}
    None = None
    Missing = Missing
    Unreadable = Unreadable
    Idents = {a, b}
    Hyphenated = {h}
    Others = {x}
INVARIANTS
    TypeOK
    VerbsByAdmins
    ArgumentsAccepted
    ListIsWhole
PROPERTIES
    HupObeyed
    ServeReturns
CHECK_DEADLOCK FALSE
