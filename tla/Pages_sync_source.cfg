\* The instance of Pages.cfg: a source chosen in capitals is synced in lower case.
SPECIFICATION Spec
CONSTANTS
    a = a
    b = b
    h = h
    A = A
    Idents = {a, b}
    Hyphenated = {h}
    Others = {A}
    Tabs = {t1}
    Clusters = {p, q}
    Default = p
    AllowedOrigins = {"proxy"}
    Lower <- ToLower
INVARIANTS
    SyncsChosenSource
