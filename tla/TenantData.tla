------------------------------ MODULE TenantData ------------------------------
(***************************************************************************)
(* What the verbs do to the contents of databases: Branch, Sync, the two   *)
(* imports, RestoreFromBackup and Drop (internal/tenant).  All but Drop    *)
(* end in pg_dump | pg_restore, which commits object by object, and all    *)
(* but Drop can stop anywhere, before, within or after it.                 *)
(*                                                                         *)
(* The end of a request's connection ends the verb, but not what runs in   *)
(* the pod: a statement, the pipeline of Branch and Sync, or a pg_restore  *)
(* or psql that is fed over the connection, with what it has been sent.    *)
(* Here a verb stands where the last of it is, though its caller may have  *)
(* had the error long before; it fails when that has ended.                *)
(*                                                                         *)
(* The calls of Provision that Branch and import share with it are kept    *)
(* only where they touch role or database; TenantVerbs has all of them.    *)
(* Imports run pg_restore on an archive, or psql on a script (importSQL),  *)
(* which runs as postgres: in its database it is taken to create the       *)
(* objects it was dumped from, but it may reach other databases (Stray).   *)
(***************************************************************************)
EXTENDS Naturals

CONSTANTS
    Tenants,    \* names of tenants and of their databases
    Procs,      \* web requests and CLI invocations that run verbs
    Managed,    \* tenants that exist at first, with role and database
    Legacy,     \* databases at first that postgres owns, with no role
    Upload,     \* where an uploaded or remote dump comes from
    Parts,      \* a database is dumped as this many objects
    None        \* no database, no tenant

ASSUME ExistingAssumption ==
    Managed \subseteq Tenants /\ Legacy \subseteq Tenants /\ Managed \cap Legacy = {}
ASSUME UploadAssumption == Upload \notin Tenants

\* An object is named after the database it was first created in.
Objects == (Tenants \cup {Upload}) \X Parts
Verbs == {"branch", "sync", "import", "importSQL", "restore", "drop"}

\* granted: the role has its grants, and its privileges on what postgres creates
\* from then on.  usable: the objects it owns or has privileges on.
Database == [owned : BOOLEAN, granted : BOOLEAN, objects : SUBSET Objects,
             usable : SUBSET Objects]

ASSUME NoneAssumption ==
    /\ None \notin Tenants
    /\ None \notin Verbs
    /\ None \notin Database
    /\ \A objects \in SUBSET Objects : objects # None

VARIABLES
    db,         \* the databases of the live cluster
    roles,      \* tenants that have a role
    pc, verb, src, dst,
    snap,       \* what pg_dump reads: the source when the dump began
    left,       \* what of it pg_restore has not come to yet
    clean,      \* pg_restore has met no object that exists already
    alone       \* no other verb or script was at the verb's destination meanwhile,
                \* and its own script stayed there

shared == <<db, roles>>
job == <<verb, src, dst, alone>>
load == <<snap, left, clean>>
vars == <<db, roles, pc, verb, src, dst, snap, left, clean, alone>>

Steps == {"checkSource", "checkTarget", "dropForce", "create", "ensureRole", "query",
          "alter", "grantFirst", "terminate", "drop", "dropRole",
          "dump", "connect", "loading", "killed", "grant"}

Original(t) == {t} \X Parts

Init ==
    /\ db = [t \in Tenants |->
               IF t \in Managed \cup Legacy
                 THEN [owned |-> t \in Managed, granted |-> t \in Managed,
                       objects |-> Original(t),
                       usable |-> IF t \in Managed THEN Original(t) ELSE {}]
                 ELSE None]
    /\ roles = Managed
    /\ pc = [p \in Procs |-> "idle"]
    /\ verb = [p \in Procs |-> None]
    /\ src = [p \in Procs |-> None]
    /\ dst = [p \in Procs |-> None]
    /\ snap = [p \in Procs |-> {}]
    /\ left = [p \in Procs |-> {}]
    /\ clean = [p \in Procs |-> TRUE]
    /\ alone = [p \in Procs |-> FALSE]

Goto(p, l) == pc' = [pc EXCEPT ![p] = l]

-----------------------------------------------------------------------------
(* Start and end of a verb *)

Provisioning == {"branch", "import", "importSQL"}

FirstStep(v) == CASE v = "sync" -> "checkSource"
                  [] v \in Provisioning -> "ensureRole"
                  [] v \in {"restore", "drop"} -> "terminate"

\* Branch and Sync refuse src = dst.  Restore has found the backup and
\* seen the tenant's database answer in the recovery cluster.
Start(p, v, s, d) ==
    /\ pc[p] = "idle"
    /\ v \in {"branch", "sync"} => s # d
    /\ v \notin {"branch", "sync"} => s = d
    /\ v = "restore" => d \in Managed \cup Legacy
    /\ Goto(p, FirstStep(v))
    /\ verb' = [verb EXCEPT ![p] = v]
    /\ src' = [src EXCEPT ![p] = s]
    /\ dst' = [dst EXCEPT ![p] = d]
    /\ alone' = [q \in Procs |-> IF q = p THEN \A r \in Procs : dst[r] # d
                                          ELSE alone[q] /\ dst[q] # d]
    /\ UNCHANGED <<shared, load>>

Leave(p) ==
    /\ Goto(p, "idle")
    /\ verb' = [verb EXCEPT ![p] = None]
    /\ src' = [src EXCEPT ![p] = None]
    /\ dst' = [dst EXCEPT ![p] = None]
    /\ snap' = [snap EXCEPT ![p] = {}]
    /\ left' = [left EXCEPT ![p] = {}]
    /\ clean' = [clean EXCEPT ![p] = TRUE]
    /\ alone' = [alone EXCEPT ![p] = FALSE]
    /\ UNCHANGED shared

Finish(p) == pc[p] = "done" /\ Leave(p)

\* After an error, a cancelled context or the death of the process, what was left of the
\* verb in the pod has ended: at once, or as far as it came.
Fail(p) == pc[p] \in Steps \cup {"refused"} /\ Leave(p)

-----------------------------------------------------------------------------
(* Sessions *)

\* pg_restore is connected to its target all the time, pg_dump to its source
\* at most as long.
OnTarget(q, t) == pc[q] = "loading" /\ dst[q] = t
OnSource(q, t) ==
    pc[q] \in {"connect", "loading"} /\ verb[q] \in {"branch", "sync"} /\ src[q] = t

\* p ends every session on t and goes on to step l.
Kill(p, t, l) ==
    \E ended \in SUBSET {q \in Procs : OnSource(q, t)} :
        pc' = [q \in Procs |-> CASE q = p -> l
                                 [] q # p /\ (OnTarget(q, t) \/ q \in ended) -> "killed"
                                 [] OTHER -> pc[q]]

\* pg_terminate_backend, whose failure is ignored.
Terminate(p) ==
    /\ pc[p] = "terminate"
    /\ Kill(p, dst[p], "drop") \/ Goto(p, "drop")
    /\ UNCHANGED <<shared, job, load>>

-----------------------------------------------------------------------------
(* The calls to Postgres before and after the load *)

\* Sync's two pre-flight look-ups.
CheckSource(p) ==
    /\ pc[p] = "checkSource"
    /\ Goto(p, IF db[src[p]] = None THEN "refused" ELSE "checkTarget")
    /\ UNCHANGED <<shared, job, load>>

CheckTarget(p) ==
    /\ pc[p] = "checkTarget"
    /\ Goto(p, IF db[dst[p]] = None THEN "refused" ELSE "dropForce")
    /\ UNCHANGED <<shared, job, load>>

\* Mutant of DropForce: the arguments of Sync are swapped at the DROP.
DropForceSource(p) ==
    /\ pc[p] = "dropForce"
    /\ db' = [db EXCEPT ![src[p]] = None]
    /\ Kill(p, src[p], "create")
    /\ UNCHANGED <<roles, job, load>>

\* DROP DATABASE ... WITH (FORCE)
DropForce(p) ==
    /\ pc[p] = "dropForce"
    /\ db' = [db EXCEPT ![dst[p]] = None]
    /\ Kill(p, dst[p], "create")
    /\ UNCHANGED <<roles, job, load>>

\* Mutant of Drop: it does not wait for sessions, nor end them.
DropUnderSessions(p) ==
    /\ pc[p] = "drop"
    /\ db' = [db EXCEPT ![dst[p]] = None]
    /\ Goto(p, IF verb[p] = "drop" THEN "dropRole" ELSE "query")
    /\ UNCHANGED <<roles, job, load>>

\* Drop's and Restore's DROP DATABASE: refused while a session is open.
Drop(p) ==
    /\ pc[p] = "drop"
    /\ \A q \in Procs : ~OnTarget(q, dst[p])
    /\ db' = [db EXCEPT ![dst[p]] = None]
    /\ Goto(p, IF verb[p] = "drop" THEN "dropRole" ELSE "query")
    /\ UNCHANGED <<roles, job, load>>

DropRole(p) ==
    /\ pc[p] = "dropRole"
    /\ db[dst[p]] # None => ~(db[dst[p]].owned \/ db[dst[p]].granted)
    /\ roles' = roles \ {dst[p]}
    /\ Goto(p, "done")
    /\ UNCHANGED <<db, job, load>>

EnsureRole(p) ==
    /\ pc[p] = "ensureRole"
    /\ roles' = roles \cup {dst[p]}
    /\ Goto(p, "query")
    /\ UNCHANGED <<db, job, load>>

Query(p) ==
    /\ pc[p] = "query"
    /\ Goto(p, IF db[dst[p]] = None THEN "create" ELSE "alter")
    /\ UNCHANGED <<shared, job, load>>

\* Mutant of AfterEnsured: the grants wait for the load in all verbs.
AfterEnsuredLoad(p) == "dump"

\* Branch and import grant before the load, as part of Provision, and again
\* after it; Sync and Restore only after it.
AfterEnsured(p) == IF verb[p] \in Provisioning THEN "grantFirst" ELSE "dump"

Create(p) ==
    /\ pc[p] = "create"
    /\ db[dst[p]] = None /\ dst[p] \in roles
    /\ db' = [db EXCEPT ![dst[p]] = [owned |-> TRUE, granted |-> FALSE,
                                     objects |-> {}, usable |-> {}]]
    /\ Goto(p, AfterEnsured(p))
    /\ UNCHANGED <<roles, job, load>>

Alter(p) ==
    /\ pc[p] = "alter"
    /\ db[dst[p]] # None /\ dst[p] \in roles
    /\ db' = [db EXCEPT ![dst[p]].owned = TRUE]
    /\ Goto(p, AfterEnsured(p))
    /\ UNCHANGED <<roles, job, load>>

Grant(p) ==
    /\ pc[p] \in {"grantFirst", "grant"}
    /\ db[dst[p]] # None /\ dst[p] \in roles
    /\ db' = [db EXCEPT ![dst[p]].granted = TRUE]
    /\ Goto(p, IF pc[p] = "grantFirst" THEN "dump" ELSE "done")
    /\ UNCHANGED <<roles, job, load>>

-----------------------------------------------------------------------------
(* pg_dump | pg_restore *)

\* What there is to dump: a live database, the recovered one, or an upload.
\* The backup is of the initial state.
Source(p) ==
    CASE verb[p] \in {"branch", "sync"} ->
             IF db[src[p]] = None THEN None ELSE db[src[p]].objects
      [] verb[p] = "restore" -> Original(dst[p])
      [] verb[p] \in {"import", "importSQL"} -> Original(Upload)

\* One consistent snapshot, of whatever is committed.
Dump(p) ==
    /\ pc[p] = "dump"
    /\ Source(p) # None
    /\ snap' = [snap EXCEPT ![p] = Source(p)]
    /\ left' = [left EXCEPT ![p] = Source(p)]
    /\ Goto(p, "connect")
    /\ UNCHANGED <<shared, job, clean>>

\* pg_restore reads the head of the archive, connects, and sets its role; psql
\* connects.
Connect(p) ==
    /\ pc[p] = "connect"
    /\ db[dst[p]] # None
    /\ verb[p] # "importSQL" => dst[p] \in roles
    /\ Goto(p, "loading")
    /\ UNCHANGED <<shared, job, load>>

\* pg_restore creates objects as the tenant's role, psql as postgres.  What a script may
\* do in other databases is Stray.
Load(p, o) ==
    db' = [db EXCEPT ![dst[p]].objects = @ \cup {o},
                     ![dst[p]].usable = IF verb[p] # "importSQL" \/ db[dst[p]].granted
                                          THEN @ \cup {o} ELSE @]

\* An object that exists already is an error pg_restore counts and passes over; psql
\* stops (ON_ERROR_STOP).
LoadObject(p, o) ==
    /\ pc[p] = "loading"
    /\ o \in left[p]
    /\ left' = [left EXCEPT ![p] = @ \ {o}]
    /\ IF o \in db[dst[p]].objects
         THEN clean' = [clean EXCEPT ![p] = FALSE] /\ UNCHANGED db
         ELSE Load(p, o) /\ UNCHANGED clean
    /\ Goto(p, IF verb[p] = "importSQL" /\ o \in db[dst[p]].objects THEN "killed"
                                                                 ELSE "loading")
    /\ UNCHANGED <<roles, job, snap>>

RunsScript(p) == pc[p] = "loading" /\ verb[p] = "importSQL"

\* An uploaded script, which psql runs as postgres, is not confined to its database: it
\* connects to t for an object, creating t where there is none, or drops it.
Stray(p, t) ==
    /\ RunsScript(p) /\ t # dst[p]
    /\ \/ \E o \in left[p] :
              /\ db' = [db EXCEPT ![t] =
                     IF db[t] = None
                       THEN [owned |-> FALSE, granted |-> FALSE, objects |-> {o}, usable |-> {}]
                       ELSE [db[t] EXCEPT
                               !.objects = @ \cup {o},
                               !.usable = IF db[t].granted THEN @ \cup {o} ELSE @]]
              /\ left' = [left EXCEPT ![p] = @ \ {o}]
              /\ UNCHANGED pc
       \/ db' = [db EXCEPT ![t] = None] /\ Kill(p, t, "loading") /\ UNCHANGED left
    /\ alone' = [q \in Procs |-> alone[q] /\ q # p /\ dst[q] # t]
    /\ UNCHANGED <<roles, verb, src, dst, snap, clean>>

\* Mutant of ExitedCleanly: the exit status is not looked at.
ExitIgnored(p) == pc[p] = "killed" \/ left[p] = {}

\* pg_restore exits with 0: it read the whole archive and counted no error.
ExitedCleanly(p) == pc[p] = "loading" /\ left[p] = {} /\ clean[p]

Loaded(p) ==
    /\ pc[p] \in {"loading", "killed"}
    /\ ExitedCleanly(p)
    /\ Goto(p, "grant")
    /\ UNCHANGED <<shared, job, load>>

-----------------------------------------------------------------------------

Step(p) ==
    \/ CheckSource(p) \/ CheckTarget(p) \/ DropForce(p)
    \/ Terminate(p) \/ Drop(p) \/ DropRole(p)
    \/ EnsureRole(p) \/ Query(p) \/ Create(p) \/ Alter(p) \/ Grant(p)
    \/ Dump(p) \/ Connect(p) \/ Loaded(p)
    \/ \E o \in Objects : LoadObject(p, o)

Next ==
    \E p \in Procs :
        \/ \E v \in Verbs, s, d \in Tenants : Start(p, v, s, d)
        \/ Step(p)
        \/ \E t \in Tenants : Stray(p, t)
        \/ Finish(p)
        \/ Fail(p)

Spec == Init /\ [][Next]_vars

-----------------------------------------------------------------------------
(* Properties *)

\* The type invariant: pg_restore never loads into a database that is gone, and
\* still has to load only what it was given.
TypeOK ==
    /\ db \in [Tenants -> Database \cup {None}]
    /\ roles \subseteq Tenants
    /\ pc \in [Procs -> Steps \cup {"idle", "refused", "done"}]
    /\ verb \in [Procs -> Verbs \cup {None}]
    /\ src \in [Procs -> Tenants \cup {None}]
    /\ dst \in [Procs -> Tenants \cup {None}]
    /\ snap \in [Procs -> SUBSET Objects]
    /\ left \in [Procs -> SUBSET Objects]
    /\ clean \in [Procs -> BOOLEAN]
    /\ alone \in [Procs -> BOOLEAN]
    /\ \A p \in Procs :
           /\ pc[p] # "idle" => dst[p] \in Tenants /\ src[p] \in Tenants /\ verb[p] \in Verbs
           /\ left[p] \subseteq snap[p]
           /\ pc[p] = "loading" => db[dst[p]] # None

Succeeded(p, verbs) == pc[p] = "done" /\ verb[p] \in verbs /\ alone[p]

\* What a copying verb that returned nil says is there, is there, unless another verb, or
\* what is left of one, had the same destination, or an uploaded script left its own
\* database or reached into this one.  Sync and Restore replace the database by exactly
\* what pg_dump read; Branch and the imports add it to what there was.  The tenant owns
\* it and may use it.  Verbs on the source may cut in, drop it, or replace it meanwhile.
CopiesWhole ==
    \A p \in Procs :
        LET copy == db[dst[p]] IN
        Succeeded(p, Verbs \ {"drop"}) =>
            /\ copy # None
            /\ copy.owned /\ copy.granted
            /\ snap[p] \subseteq copy.objects
            /\ verb[p] \in {"sync", "restore"} => copy.objects = snap[p]

\* The tenant can use what a copying verb that returned nil has loaded.  What psql
\* loads from a script belongs to postgres: only privileges granted beforehand, in
\* Provision, let the tenant in, for those ensureGrants sets after the load hold for
\* later objects.
CopiesUsable ==
    \A p \in Procs :
        Succeeded(p, Verbs \ {"drop"}) => snap[p] \subseteq db[dst[p]].usable

\* The verbs change no database but their destinations: copying from a tenant, or
\* failing to, costs that tenant nothing.  Uploaded scripts are excepted: while psql
\* runs one as postgres, any database may change.
SourcesKept ==
    [][\A t \in Tenants :
           (\A p \in Procs : dst[p] # t /\ ~RunsScript(p)) => db'[t] = db[t]]_vars

=============================================================================
