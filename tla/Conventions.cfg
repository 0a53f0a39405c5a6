\* Two workspaces with prefixes of up to four characters, and every pair of tenant
\* names of up to six, where six stands for 63; one marker in the current directory
\* and one above it, each of which --workspace or the environment may name; passwords
\* of up to four characters.
SPECIFICATION MCSpec
CONSTANTS
    Letters = {"a"}
    Digits = {}
    NameLimit = 6
    MaxApp = 6
    MaxPrefix = 4
    id1 = "p"
    id2 = "default"
    odd = "Odd"
    Labels = {"p", "default", "unknown"}
    OddIds = {"Odd"}
    Root = "root"
    Here = "here"
    Markers <- HereMarkers
    RootMarkers <- AboveMarkers
    None = None
    MaxPassword = 4
INVARIANTS
    NamesValid
    SecretsSeparate
    BranchDefaultAccepted
    ServerStarts
    CommandsAgree
    TargetsUsable
    StringsRead
    FileReachesRole
