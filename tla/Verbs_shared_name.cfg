\* a_b and a__b: IdentSafe accepts both, dns1123Basename makes them one name.
SPECIFICATION Spec
CONSTANTS
    a = a
    b = b
    na = na
    nb = nb
    Tenants <- UnderscoreTenants
    Procs = {p1}
    SecretNames <- UnderscoreSecretNames
    SecretNameOf <- UnderscoreSecretName
    MaxGen <- UnderscoreGen
    Legacy = {}
    None = None
    Empty = Empty
    Torn = Torn
INVARIANTS
    OneSecretPerTenant
