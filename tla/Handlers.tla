------------------------------- MODULE Handlers -------------------------------
(***************************************************************************)
(* The checks the HTTP handlers make of a request before they run a verb   *)
(* (internal/web/handlers.go), and those the verbs make of their arguments *)
(* (internal/tenant, internal/cnpg).  A form value is here what the        *)
(* handler's trimming and lower-casing have made of it.                    *)
(***************************************************************************)
CONSTANTS
    Idents,         \* names that pg.IdentSafe accepts
    Hyphenated,     \* further names that pg.DatabaseNameSafe accepts
    Others          \* names neither accepts

Names == Idents \cup Hyphenated \cup Others
IdentSafe(n) == n \in Idents
DatabaseNameSafe(n) == n \in Idents \cup Hyphenated

Deps == {"K8s", "PG", "Workspace"}

\* name is the {name} of the path, the others are fields of the form; wellFormed
\* says that the form can be parsed.  Only the fields a route looks at vary.
Typical == CHOOSE n \in Idents : TRUE
InputsOf(fields) ==
    LET Of(f, all, one) == IF f \in fields THEN all ELSE {one}
    IN  [name : Of("name", Names, Typical), app : Of("app", Names, Typical),
         dst : Of("dst", Names, Typical), src : Of("src", Names, Typical),
         wellFormed : BOOLEAN, confirm : Of("confirm", Names, Typical),
         backup : Of("backup", {"", "valid", "invalid"}, ""),
         targetTime : Of("targetTime", {"", "valid", "invalid"}, ""),
         dump : Of("dump", {"missing", "plain", "custom"}, "missing"),
         pid : Of("pid", {"positive", "other"}, "positive"),
         deps : {{}, {"PG"}, Deps}]

-----------------------------------------------------------------------------
(* Which requests reach the verb *)

NewTenantSubmit(r) == r.wellFormed /\ IdentSafe(r.app) /\ r.deps = Deps

\* The upload must begin with PGDMP.
ImportDumpSubmit(r) ==
    r.wellFormed /\ IdentSafe(r.app) /\ r.deps = Deps /\ r.dump = "custom"

\* Mutant of BranchTenantSubmit: the source has to be an identifier, too.
BranchTenantSubmitIdent(r) ==
    IdentSafe(r.name) /\ r.wellFormed /\ r.dst # r.name /\ IdentSafe(r.dst) /\ r.deps = Deps

BranchTenantSubmit(r) ==
    /\ DatabaseNameSafe(r.name)
    /\ r.wellFormed
    /\ r.dst # r.name
    /\ IdentSafe(r.dst)
    /\ r.deps = Deps

\* Mutant of SyncTenantSubmit: the user is asked for the name of the source.
SyncTenantSubmitSource(r) ==
    /\ IdentSafe(r.name)
    /\ r.wellFormed
    /\ DatabaseNameSafe(r.src)
    /\ r.src # r.name
    /\ r.confirm = r.src
    /\ r.deps = Deps

\* The {name} of the path is the destination.
SyncTenantSubmit(r) ==
    /\ IdentSafe(r.name)
    /\ r.wellFormed
    /\ DatabaseNameSafe(r.src)
    /\ r.src # r.name
    /\ r.confirm = r.name
    /\ r.deps = Deps

DropTenantSubmit(r) ==
    IdentSafe(r.name) /\ r.wellFormed /\ r.confirm = r.name /\ r.deps = Deps

RotateTenantSubmit(r) ==
    IdentSafe(r.name) /\ r.wellFormed /\ r.confirm = r.name /\ r.deps = Deps

RestoreTenantSubmit(r) ==
    /\ IdentSafe(r.name)
    /\ r.wellFormed
    /\ r.confirm = r.name
    /\ r.backup = "valid"
    /\ r.targetTime \in {"", "valid"}
    /\ r.deps = Deps

TerminateTenantConnection(r) ==
    DatabaseNameSafe(r.name) /\ r.pid = "positive" /\ "PG" \in r.deps

TenantConnections(r) == DatabaseNameSafe(r.name) /\ "PG" \in r.deps
DumpTenant(r) == DatabaseNameSafe(r.name) /\ "PG" \in r.deps
TriggerBackup(r) == {"K8s", "Workspace"} \subseteq r.deps
ListTenants(r) == "PG" \in r.deps
TenantDetail(r) == DatabaseNameSafe(r.name) /\ "PG" \in r.deps

-----------------------------------------------------------------------------
(* Which arguments the verb accepts, and what its caller has to have asked *)

\* Confirmed: "the UI sets it after the user types the tenant name".
Confirmed(r) == r.confirm = r.name

Provision(app, deps) == IdentSafe(app) /\ deps = Deps

Branch(r) ==
    /\ DatabaseNameSafe(r.name)
    /\ r.dst # r.name
    /\ "PG" \in r.deps
    /\ Provision(r.dst, r.deps)

Sync(r) ==
    /\ DatabaseNameSafe(r.src)
    /\ IdentSafe(r.name)
    /\ r.src # r.name
    /\ Confirmed(r)
    /\ "PG" \in r.deps

Drop(r) == IdentSafe(r.name) /\ Confirmed(r) /\ r.deps = Deps
Rotate(r) == IdentSafe(r.name) /\ Confirmed(r) /\ r.deps = Deps
RestoreFromBackup(r) ==
    IdentSafe(r.name) /\ Confirmed(r) /\ r.backup = "valid" /\ r.deps = Deps
TerminateConnection(r) ==
    "PG" \in r.deps /\ DatabaseNameSafe(r.name) /\ r.pid = "positive"
OfDatabase(r) == "PG" \in r.deps /\ DatabaseNameSafe(r.name)

-----------------------------------------------------------------------------
(* The routes *)

\* Registered outside the group of RequireAdmin.
ViewRoutes == {"list", "detail"}

AdminRoutes == {"new", "import", "branch", "sync", "drop", "rotate", "restore",
                "terminate", "conns", "dump", "backup"}

\* The fields a route's handler reads.
FieldsOf == [new |-> {"app"}, import |-> {"app", "dump"}, branch |-> {"name", "dst"},
             sync |-> {"name", "src", "confirm"}, drop |-> {"name", "confirm"},
             rotate |-> {"name", "confirm"},
             restore |-> {"name", "confirm", "backup", "targetTime"},
             terminate |-> {"name", "pid"}, conns |-> {"name"}, dump |-> {"name"},
             backup |-> {}, list |-> {}, detail |-> {"name"}]

\* The handler calls its verb.
Calls(route, r) ==
    \/ route = "new" /\ NewTenantSubmit(r)
    \/ route = "import" /\ ImportDumpSubmit(r)
    \/ route = "branch" /\ BranchTenantSubmit(r)
    \/ route = "sync" /\ SyncTenantSubmit(r)
    \/ route = "drop" /\ DropTenantSubmit(r)
    \/ route = "rotate" /\ RotateTenantSubmit(r)
    \/ route = "restore" /\ RestoreTenantSubmit(r)
    \/ route = "terminate" /\ TerminateTenantConnection(r)
    \/ route = "conns" /\ TenantConnections(r)
    \/ route = "dump" /\ DumpTenant(r)
    \/ route = "backup" /\ TriggerBackup(r)
    \/ route = "list" /\ ListTenants(r)
    \/ route = "detail" /\ TenantDetail(r)

\* The verb accepts what it is given.
VerbAccepts(route, r) ==
    \/ route \in {"new", "import"} /\ Provision(r.app, r.deps)
    \/ route = "branch" /\ Branch(r)
    \/ route = "sync" /\ Sync(r)
    \/ route = "drop" /\ Drop(r)
    \/ route = "rotate" /\ Rotate(r)
    \/ route = "restore" /\ RestoreFromBackup(r)
    \/ route = "terminate" /\ TerminateConnection(r)
    \/ route \in {"conns", "dump", "detail"} /\ OfDatabase(r)
    \/ route = "backup"
    \/ route = "list" /\ "PG" \in r.deps

Reaching(route) == {r \in InputsOf(FieldsOf[route]) : Calls(route, r)}

\* What requests that reach a verb come to.
Dispatched ==
    UNION {{[route |-> route, accepted |-> VerbAccepts(route, r)] : r \in Reaching(route)} :
             route \in ViewRoutes \cup AdminRoutes}
=============================================================================
