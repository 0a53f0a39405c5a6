\* One tab, two clusters, two identifiers, one hyphenated name and one in capitals.
SPECIFICATION Spec
CONSTANTS
    a = a
    b = b
    h = h
    A = A
    Idents = {a, b}
    Hyphenated = {h}
    Others = {A}
    Tabs = {t1}
    Clusters = {p, q}
    Default = p
    AllowedOrigins = {"proxy"}
    Lower <- ToLower
INVARIANTS
    VerbOnPage
    LifecycleManaged
    OffersWork
PROPERTIES
    ClusterKept
    CredentialsToAdmins
