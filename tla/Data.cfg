\* Two processes, every verb on two tenants: a name nothing has yet, and a legacy
\* database that is not managed yet.
SPECIFICATION Spec
CONSTANTS
    Tenants = {a, b}
    Procs = {p1, p2}
    Managed = {}
    Legacy = {b}
    Upload = Upload
    Parts = {1}
    None = None
SYMMETRY ProcSymmetry
INVARIANTS
    TypeOK
    CopiesWhole
    CopiesUsable
PROPERTIES
    SourcesKept
