\* As Server.cfg, for the shutdown alone: the admin list does not change.
SPECIFICATION Spec
CONSTANTS
    u = u
    v = v
    Logins = {u, v}
    Configs <- ThreeConfigs
    MaxEdits = 0
    Requests = {r1}
    None = None
    Missing = Missing
    Unreadable = Unreadable
    Idents = {a, b}
    Hyphenated = {h}
    Others = {x}
INVARIANTS
    DrainsInFlight
CHECK_DEADLOCK FALSE
