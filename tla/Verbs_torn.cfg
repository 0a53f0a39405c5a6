\* One verb at a time on either of two tenants, any of them failing anywhere.
SPECIFICATION Spec
CONSTANTS
    a = a
    b = b
    na = na
    nb = nb
    Tenants = {a, b}
    Procs = {p1}
    SecretNames = {na, nb}
    SecretNameOf <- DistinctSecretName
    MaxGen <- UnevenGen
    Legacy = {b}
    None = None
    Empty = Empty
    Torn = Torn
INVARIANTS
    ManifestReadable
