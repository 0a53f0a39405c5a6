\* One verb at a time on one tenant, each call of which may be its last, with
\* commits and controllers between any two calls.
SPECIFICATION GSpec
CONSTANTS
    a = a
    na = na
    Tenants = {a}
    Procs = {p1}
    SecretNames = {na}
    SecretNameOf <- OneTenantName
    MaxGen <- OneTenantGen
    Legacy = {a}
    None = None
    Empty = Empty
    Torn = Torn
INVARIANTS
    ManifestUpdated
    ListedHasFile
PROPERTIES
    Converges
    DropSettles
