\* One restore; the context is never over unless somebody ends it.
SPECIFICATION Spec
CONSTANTS
    Tenants = {t}
    Procs = {p1}
    Names = {n1}
    Backups = {b1}
    Chunks = 1
    None = None
PROPERTIES
    StreamReturnsAfterLoad
