\* Two processes, any verb on either of two tenants, every interleaving.  The
\* second tenant never gets a password of its own: it is there for what verbs on
\* the first must leave alone, or must not hand over to it.
SPECIFICATION Spec
CONSTANTS
    a = a
    b = b
    na = na
    nb = nb
    Tenants = {a, b}
    Procs = {p1, p2}
    SecretNames = {na, nb}
    SecretNameOf <- DistinctSecretName
    MaxGen <- LopsidedGen
    Legacy = {a, b}
    None = None
    Empty = Empty
    Torn = Torn
SYMMETRY ProcSymmetry
INVARIANTS
    TypeOK
    PasswordIsolation
    ProvisionCompletes
    RotateCompletes
    DropCompletes
PROPERTIES
    LedgerImplemented
