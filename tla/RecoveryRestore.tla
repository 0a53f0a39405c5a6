---------------------------- MODULE RecoveryRestore ----------------------------
(***************************************************************************)
(* RestoreFromBackup (internal/tenant/restore.go) around its temporary     *)
(* cluster, and the on-demand backup (internal/cnpg/backup.go, with the    *)
(* handler TriggerBackup and cnpgctl backup).  Both wait for the CNPG      *)
(* operator; a restore also streams pg_dump into pg_restore through an     *)
(* io.Pipe between two goroutines (internal/pg/stream.go).                 *)
(*                                                                         *)
(* A call to Kubernetes or Postgres succeeds, fails, or succeeds while its *)
(* answer is lost.  Under a context that is over no call succeeds.  An     *)
(* exec that was cut off has returned, but pg_restore may go on in the pod *)
(* with what it has been sent.  What a load leaves in the tenant's         *)
(* database is in TenantData.                                              *)
(***************************************************************************)
EXTENDS Naturals

CONSTANTS
    Tenants,    \* names of tenants and of their databases
    Procs,      \* web requests and CLI invocations
    Names,      \* what RecoveryClusterName may come up with
    Backups,    \* names of Backup resources
    Chunks,     \* a dump is this many writes to the pipe
    None        \* no backup, no cluster, no name

ASSUME ChunksAssumption == Chunks \in Nat \ {0}
Phases == {"new", "running", "completed", "failed"}
Terminal == {"completed", "failed"}

\* usable: of this cluster, and with a backupId
Backup == [phase : Phases, usable : BOOLEAN, has : SUBSET Tenants]

\* orphan: its restore is gone for a reason no code can help
Cluster == [owner : Procs, from : Backups, up : BOOLEAN, orphan : BOOLEAN]

ASSUME NoneAssumption ==
    /\ None \notin Tenants \cup Names \cup Backups
    /\ None \notin Backup /\ None \notin Cluster

VARIABLES
    live,       \* tenants whose database is not dropped or half loaded
    backups,    \* the Backup resources
    clusters,   \* the recovery clusters
    pc, app, bk,
    rec,        \* recName
    over,       \* ctx is done: deadline, closed connection or signal
    made,       \* CreateRecoveryCluster has created a cluster
    dump, load, \* the goroutines of CrossPodDumpRestore
    moved,      \* chunks pg_restore has read
    adrift      \* its exec has returned or died, pg_restore still runs in the pod

world == <<live, backups, clusters>>
args == <<app, bk, rec, made>>
stream == <<dump, load, moved, adrift>>
vars == <<live, backups, clusters, pc, app, bk, rec, made, over, dump, load, moved, adrift>>

\* From here on the deferred DeleteCluster is registered.
Owned == {"waitPod", "probe", "drop", "ensure", "stream", "grant", "delete"}
\* Steps that are one call, whose error ends the verb.
Calls == {"list", "getBase", "create", "drop", "ensure", "grant", "delete",
          "trigger", "wait"}
Labels == Owned \cup Calls \cup {"idle", "cleanup", "done", "failed"}

Running == {"running", "blocked"}
Ended == {"ok", "error"}

TypeOK ==
    /\ live \subseteq Tenants
    /\ backups \in [Backups -> Backup \cup {None}]
    /\ clusters \in [Names -> Cluster \cup {None}]
    /\ pc \in [Procs -> Labels]
    /\ app \in [Procs -> Tenants \cup {None}]
    /\ bk \in [Procs -> Backups \cup {None}]
    /\ rec \in [Procs -> Names \cup {None}]
    /\ made \in [Procs -> BOOLEAN]
    /\ over \in [Procs -> BOOLEAN]
    /\ dump \in [Procs -> {"off"} \cup Running \cup Ended]
    /\ load \in [Procs -> {"off", "running"} \cup Ended]
    /\ moved \in [Procs -> 0 .. Chunks]
    /\ adrift \in [Procs -> BOOLEAN]
    /\ \A p \in Procs : pc[p] \in Owned \cup {"create", "cleanup"} => rec[p] \in Names

Init ==
    /\ live = Tenants
    /\ backups \in [Backups -> [phase : {"completed"}, usable : BOOLEAN,
                                has : SUBSET Tenants] \cup {None}]
    /\ clusters = [n \in Names |-> None]
    /\ pc = [p \in Procs |-> "idle"]
    /\ app = [p \in Procs |-> None]
    /\ bk = [p \in Procs |-> None]
    /\ rec = [p \in Procs |-> None]
    /\ made = [p \in Procs |-> FALSE]
    /\ over = [p \in Procs |-> FALSE]
    /\ dump = [p \in Procs |-> "off"]
    /\ load = [p \in Procs |-> "off"]
    /\ moved = [p \in Procs |-> 0]
    /\ adrift = [p \in Procs |-> FALSE]

Goto(p, l) == pc' = [pc EXCEPT ![p] = l]

-----------------------------------------------------------------------------
(* Start and end of a verb *)

\* A process whose pg_restore is adrift still counts as one: another takes its place
\* when that has ended.
StartRestore(p, t, b) ==
    /\ pc[p] = "idle" /\ ~adrift[p]
    /\ Goto(p, "list")
    /\ app' = [app EXCEPT ![p] = t]
    /\ bk' = [bk EXCEPT ![p] = b]
    /\ UNCHANGED <<world, rec, made, over, stream>>

StartBackup(p) ==
    /\ pc[p] = "idle" /\ ~adrift[p]
    /\ Goto(p, "trigger")
    /\ UNCHANGED <<world, args, over, stream>>

Forget(p) ==
    /\ Goto(p, "idle")
    /\ app' = [app EXCEPT ![p] = None]
    /\ bk' = [bk EXCEPT ![p] = None]
    /\ rec' = [rec EXCEPT ![p] = None]
    /\ made' = [made EXCEPT ![p] = FALSE]
    /\ over' = [over EXCEPT ![p] = FALSE]
    /\ moved' = [moved EXCEPT ![p] = 0]
    /\ UNCHANGED <<live, backups>>

Return(p) ==
    /\ pc[p] \in {"done", "failed"}
    /\ Forget(p)
    /\ UNCHANGED <<clusters, dump, load, adrift>>

\* p gives up its cluster, if it has one, for a reason no code can help.
Orphaned(p) ==
    [n \in Names |-> IF clusters[n] # None /\ n = rec[p] /\ clusters[n].owner = p
                       THEN [clusters[n] EXCEPT !.orphan = TRUE] ELSE clusters[n]]

\* The process dies, and with it both ends of the stream; pg_restore need not.
Crash(p) ==
    /\ pc[p] # "idle"
    /\ Forget(p)
    /\ clusters' = Orphaned(p)
    /\ dump' = [dump EXCEPT ![p] = "off"]
    /\ load' = [load EXCEPT ![p] = "off"]
    /\ \E left \in {adrift[p], load[p] = "running"} : adrift' = [adrift EXCEPT ![p] = left]

ContextOver(p) ==
    /\ pc[p] # "idle"
    /\ ~over[p]
    /\ over' = [over EXCEPT ![p] = TRUE]
    /\ UNCHANGED <<world, pc, args, stream>>

\* Mutant of OnError: the deletion is deferred at the start of the verb.
OnErrorDeferAtOnce(l) == IF l \in Owned \cup Calls THEN "cleanup" ELSE "failed"

\* Mutant of OnError: the deletion is deferred before the cluster is created.
OnErrorDeferFirst(l) == IF l \in Owned \cup {"create"} THEN "cleanup" ELSE "failed"

OnError(l) == IF l \in Owned THEN "cleanup" ELSE "failed"

\* A call fails and has done nothing.
Fail(p) ==
    /\ pc[p] \in Calls
    /\ Goto(p, OnError(pc[p]))
    /\ UNCHANGED <<world, args, over, stream>>

-----------------------------------------------------------------------------
(* Up to the first answer of the recovery cluster *)

Restorable(b) ==
    backups[b] # None /\ backups[b].phase = "completed" /\ backups[b].usable

\* ListBackups, and the checks of the one that was asked for.
CheckBackup(p) ==
    /\ pc[p] = "list"
    /\ ~over[p]
    /\ Goto(p, IF Restorable(bk[p]) THEN "getBase" ELSE "failed")
    /\ UNCHANGED <<world, args, over, stream>>

GetBase(p) ==
    /\ pc[p] = "getBase"
    /\ ~over[p]
    /\ \E n \in Names : rec' = [rec EXCEPT ![p] = n]
    /\ Goto(p, "create")
    /\ UNCHANGED <<world, app, bk, made, over, stream>>

\* Of a name in use Kubernetes says AlreadyExists: that is a Fail.  When the
\* answer is lost the verb ends and the cluster stays.
CreateRecoveryCluster(p) ==
    /\ pc[p] = "create"
    /\ ~over[p]
    /\ clusters[rec[p]] = None
    /\ \E lost \in BOOLEAN :
          /\ clusters' = [clusters EXCEPT ![rec[p]] =
                            [owner |-> p, from |-> bk[p], up |-> FALSE, orphan |-> lost]]
          /\ Goto(p, IF lost THEN "failed" ELSE "waitPod")
    /\ made' = [made EXCEPT ![p] = TRUE]
    /\ UNCHANGED <<live, backups, app, bk, rec, over, stream>>

Up(n) == clusters[n] # None /\ clusters[n].up

\* Mutant of WaitPrimaryPod: it polls on when the context is over.
WaitPrimaryPodForever(p) ==
    /\ pc[p] = "waitPod"
    /\ Up(rec[p])
    /\ Goto(p, "probe")
    /\ UNCHANGED <<world, args, over, stream>>

\* Errors of the poll are passed over; only the context ends it.
WaitPrimaryPod(p) ==
    /\ pc[p] = "waitPod"
    /\ over[p] \/ Up(rec[p])
    /\ Goto(p, IF over[p] THEN "cleanup" ELSE "probe")
    /\ UNCHANGED <<world, args, over, stream>>

\* Mutant of Answers: the probe connects to the database postgres.
AnswersAsPostgres(p) == ~over[p] /\ Up(rec[p])

\* The recovery cluster has the tenant's database, and lets one connect to it.
Answers(p) == ~over[p] /\ Up(rec[p]) /\ app[p] \in backups[clusters[rec[p]].from].has

Probe(p) ==
    /\ pc[p] = "probe"
    /\ Answers(p)
    /\ Goto(p, "drop")
    /\ UNCHANGED <<world, args, over, stream>>

\* Five minutes have passed, or the context is over.
GiveUpProbing(p) ==
    /\ pc[p] = "probe"
    /\ Goto(p, "cleanup")
    /\ UNCHANGED <<world, args, over, stream>>

-----------------------------------------------------------------------------
(* The live database is replaced *)

\* pg_terminate_backend, best effort, and DROP DATABASE IF EXISTS.
DropLive(p) ==
    /\ pc[p] = "drop"
    /\ ~over[p]
    /\ live' = live \ {app[p]}
    /\ Goto(p, "ensure") \/ Goto(p, "cleanup")
    /\ UNCHANGED <<backups, clusters, args, over, stream>>

EnsureDatabase(p) ==
    /\ pc[p] = "ensure"
    /\ ~over[p]
    /\ Goto(p, "stream")
    /\ dump' = [dump EXCEPT ![p] = "running"]
    /\ load' = [load EXCEPT ![p] = "running"]
    /\ UNCHANGED <<world, args, over, moved, adrift>>

\* A write of pg_dump's goroutine returns when pg_restore's has read it.
Move(p) ==
    /\ dump[p] = "running"
    /\ load[p] = "running"
    /\ moved[p] < Chunks
    /\ moved' = [moved EXCEPT ![p] = @ + 1]
    /\ UNCHANGED <<world, pc, args, over, dump, load, adrift>>

\* Nobody closes the reading end before pg_dump's goroutine has ended.
Block(p) ==
    /\ dump[p] = "running"
    /\ load[p] \in Ended
    /\ moved[p] < Chunks
    /\ dump' = [dump EXCEPT ![p] = "blocked"]
    /\ UNCHANGED <<world, pc, args, over, load, moved, adrift>>

\* pg_dump's goroutine ends: all is written, pg_dump or its connection failed,
\* or the context is over, which also ends a write that blocks.
DumpEnds(p) ==
    /\ dump[p] \in Running
    /\ \E result \in Ended :
          /\ result = "ok" => dump[p] = "running" /\ moved[p] = Chunks
          /\ result = "error" => dump[p] = "running" \/ over[p]
          /\ dump' = [dump EXCEPT ![p] = result]
    /\ UNCHANGED <<world, pc, args, over, load, moved, adrift>>

\* pg_restore's goroutine ends: pg_restore has exited, at the end of the archive or
\* for an error of its own at any time, or its exec was cut off, which need not end it.
LoadEnds(p) ==
    /\ load[p] = "running"
    /\ \E result \in Ended :
          /\ result = "ok" => dump[p] \in Ended /\ moved[p] = Chunks
          /\ load' = [load EXCEPT ![p] = result]
          /\ \E left \in {FALSE, result = "error"} : adrift' = [adrift EXCEPT ![p] = left]
    /\ UNCHANGED <<world, pc, args, over, dump, moved>>

\* pg_restore ends in the pod: out of input, of an error, or with its session.
PodExits(p) ==
    /\ adrift[p]
    /\ adrift' = [adrift EXCEPT ![p] = FALSE]
    /\ UNCHANGED <<world, pc, args, over, dump, load, moved>>

\* Mutant of AfterStream: pg_restore's error is dropped.
AfterStreamDumpOnly(p) ==
    IF dump[p] = "ok"
      THEN Goto(p, "grant") /\ live' = live \cup {app[p]}
      ELSE Goto(p, "cleanup") /\ UNCHANGED live

AfterStream(p) ==
    IF dump[p] = "ok" /\ load[p] = "ok"
      THEN Goto(p, "grant") /\ live' = live \cup {app[p]}
      ELSE Goto(p, "cleanup") /\ UNCHANGED live

\* Mutant of StreamReturns: pg_dump's error is returned at once.
StreamReturnsEarly(p) ==
    /\ pc[p] = "stream"
    /\ dump[p] \in Ended
    /\ dump[p] = "ok" => load[p] \in Ended
    /\ AfterStream(p)
    /\ UNCHANGED <<backups, clusters, args, over, stream>>

StreamReturns(p) ==
    /\ pc[p] = "stream"
    /\ dump[p] \in Ended
    /\ load[p] \in Ended
    /\ AfterStream(p)
    /\ dump' = [dump EXCEPT ![p] = "off"]
    /\ load' = [load EXCEPT ![p] = "off"]
    /\ UNCHANGED <<backups, clusters, args, over, moved, adrift>>

EnsureGrants(p) ==
    /\ pc[p] = "grant"
    /\ ~over[p]
    /\ Goto(p, "delete")
    /\ UNCHANGED <<world, args, over, stream>>

Remove(p) ==
    /\ clusters[rec[p]] # None
    /\ clusters' = [clusters EXCEPT ![rec[p]] = None]

\* The last step; after an error the deferred call tries again.
DeleteCluster(p) ==
    /\ pc[p] = "delete"
    /\ ~over[p]
    /\ Remove(p)
    /\ Goto(p, "done") \/ Goto(p, "cleanup")
    /\ UNCHANGED <<live, backups, args, over, stream>>

\* Mutant of Cleanup: the deferred deletion uses the verb's own context.
CleanupInContext(p) ==
    /\ pc[p] = "cleanup"
    /\ Goto(p, "failed")
    /\ IF over[p] THEN UNCHANGED clusters ELSE Remove(p) \/ clusters' = Orphaned(p)
    /\ UNCHANGED <<live, backups, args, over, stream>>

\* The deferred deletion has three minutes of its own.  Its error is logged.
Cleanup(p) ==
    /\ pc[p] = "cleanup"
    /\ Goto(p, "failed")
    /\ Remove(p) \/ clusters' = Orphaned(p)
    /\ UNCHANGED <<live, backups, args, over, stream>>

-----------------------------------------------------------------------------
(* The on-demand backup *)

\* The name is unique up to the second: of one in use Kubernetes says
\* AlreadyExists.
Trigger(p) ==
    /\ pc[p] = "trigger"
    /\ ~over[p]
    /\ \E b \in Backups :
          /\ backups[b] = None
          /\ backups' = [backups EXCEPT ![b] = [phase |-> "new", usable |-> FALSE, has |-> {}]]
          /\ \/ Goto(p, "wait") /\ bk' = [bk EXCEPT ![p] = b]
             \/ Goto(p, "failed") /\ UNCHANGED bk
    /\ UNCHANGED <<live, clusters, app, rec, made, over, stream>>

\* Mutant of Wait: it waits for success only.
WaitCompleted(p) ==
    /\ pc[p] = "wait"
    /\ over[p] \/ backups[bk[p]].phase = "completed"
    /\ Goto(p, IF backups[bk[p]].phase = "completed" THEN "done" ELSE "failed")
    /\ UNCHANGED <<world, args, over, stream>>

\* One poll that ends the loop; the phase is looked at before the context.
Wait(p) ==
    /\ pc[p] = "wait"
    /\ over[p] \/ backups[bk[p]].phase \in Terminal
    /\ Goto(p, IF backups[bk[p]].phase = "completed" THEN "done" ELSE "failed")
    /\ UNCHANGED <<world, args, over, stream>>

-----------------------------------------------------------------------------
(* The CNPG operator *)

BackupProceeds(b) ==
    /\ backups[b] # None
    /\ \/ /\ backups[b].phase = "new"
          /\ backups' = [backups EXCEPT ![b].phase = "running"]
       \/ /\ backups[b].phase \in {"new", "running"}
          /\ backups' = [backups EXCEPT ![b].phase = "failed"]
       \/ /\ backups[b].phase = "running"
          /\ \E has \in SUBSET Tenants :
                backups' = [backups EXCEPT ![b] =
                              [phase |-> "completed", usable |-> TRUE, has |-> has]]
    /\ UNCHANGED <<live, clusters, pc, args, over, stream>>

\* The primary pod of a recovery cluster becomes ready, or fails.
PodChanges(n) ==
    /\ clusters[n] # None
    /\ clusters' = [clusters EXCEPT ![n].up = ~@]
    /\ UNCHANGED <<live, backups, pc, args, over, stream>>

-----------------------------------------------------------------------------
Restore(p) ==
    \/ CheckBackup(p) \/ GetBase(p) \/ CreateRecoveryCluster(p)
    \/ WaitPrimaryPod(p) \/ Probe(p) \/ GiveUpProbing(p)
    \/ DropLive(p) \/ EnsureDatabase(p)
    \/ Move(p) \/ Block(p) \/ DumpEnds(p) \/ LoadEnds(p) \/ StreamReturns(p)
    \/ EnsureGrants(p) \/ DeleteCluster(p) \/ Cleanup(p)

\* What a process that has begun does sooner or later.  Every call is answered,
\* but polling a backup need never meet an error while its context lasts.
Proceed(p) ==
    \/ Restore(p) \/ Trigger(p) \/ Wait(p) \/ Return(p)
    \/ Fail(p) /\ (pc[p] = "wait" => over[p])

Next ==
    \/ \E p \in Procs :
          \/ \E t \in Tenants, b \in Backups : StartRestore(p, t, b)
          \/ StartBackup(p)
          \/ Restore(p) \/ Trigger(p) \/ Wait(p) \/ Return(p) \/ Fail(p)
          \/ ContextOver(p)
          \/ Crash(p)
          \/ PodExits(p)
    \/ \E b \in Backups : BackupProceeds(b)
    \/ \E n \in Names : PodChanges(n)

\* A running process goes on; nobody obliges the operator or a pg_restore adrift to,
\* nor a deadline to be set: cnpgctl has none.
Spec == Init /\ [][Next]_vars /\ \A p \in Procs : WF_vars(Proceed(p))

-----------------------------------------------------------------------------
(* Properties *)

\* A restore deletes a cluster only under a name under which it has created one
\* itself: whose name is taken leaves the cluster that has it alone.  (A deletion
\* repeated because its answer was lost goes by name too, and may meet a
\* namesake that has been created meanwhile.)
DeletesOwn ==
    [][\A n \in Names : clusters[n] # None /\ clusters'[n] = None =>
          \E p \in Procs : rec[p] = n /\ made[p] /\ pc[p] \in {"delete", "cleanup"}]_vars

Own(p) == clusters[rec[p]] # None /\ clusters[rec[p]].owner = p

\* A live database is dropped only when a recovery cluster has shown the tenant's
\* own: that a backup is from before the tenant was created comes out in time.
\* It is the backup that was asked for, unless p's cluster has been deleted.
DropNeedsCopy ==
    [][\A t \in live \ live' :
          \E p \in Procs, b \in Backups :
             /\ pc[p] = "drop" /\ app[p] = t
             /\ backups[b] # None /\ t \in backups[b].has
             /\ Own(p) => b = bk[p]]_vars

\* "Then deletes the temp Cluster" (restore.go): every recovery cluster is its
\* restore's to delete, unless the process died, the answer to its creation was
\* lost or the deferred deletion itself failed.
NoOrphans ==
    \A n \in Names : clusters[n] # None /\ ~clusters[n].orphan =>
        /\ rec[clusters[n].owner] = n
        /\ pc[clusters[n].owner] \in Owned \cup {"cleanup"}

\* CrossPodDumpRestore waits for both goroutines: neither uses the pipe or its exec
\* when the verb goes on, cleans up or has returned.  In the pod pg_restore may still
\* write to the live database then, but not after a restore that goes on to its grants
\* or reports success.
StreamJoined ==
    \A p \in Procs :
        /\ pc[p] # "stream" => dump[p] = "off" /\ load[p] = "off"
        /\ pc[p] \in {"grant", "delete", "done"} => ~adrift[p]

\* Once its context is over a verb ends, wherever it waits: for the operator,
\* for an answer of the recovery cluster, or in a write that nobody reads.
Ends == \A p \in Procs : (pc[p] # "idle" /\ over[p]) ~> pc[p] = "idle"

\* A backup that has completed or failed is reported without a deadline.
BackupReported ==
    \A p \in Procs :
        (pc[p] = "wait" /\ backups[bk[p]].phase \in Terminal) ~> pc[p] # "wait"

\* RestoreFromBackup "streams pg_dump | pg_restore into the live primary, then
\* deletes the temp Cluster": when pg_restore has failed, the stream returns.
StreamReturnsAfterLoad ==
    \A p \in Procs : (pc[p] = "stream" /\ load[p] = "error") ~> pc[p] # "stream"
=============================================================================
