\* Two processes that restore one tenant, from a backup that may have it or not,
\* or take a backup.  One name for recovery clusters: all of them collide.
SPECIFICATION Spec
CONSTANTS
    Tenants = {t}
    Procs = {p1, p2}
    Names = {n1}
    Backups = {b1}
    Chunks = 2
    None = None
INVARIANTS
    TypeOK
    NoOrphans
    StreamJoined
PROPERTIES
    DeletesOwn
    DropNeedsCopy
    Ends
    BackupReported
