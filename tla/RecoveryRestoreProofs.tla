------------------------- MODULE RecoveryRestoreProofs -------------------------
(***************************************************************************)
(* Theorems of RecoveryRestore, for every set of tenants, processes, names *)
(* and backups, and dumps of every length.                                 *)
(***************************************************************************)
EXTENDS RecoveryRestore, TLAPS

-----------------------------------------------------------------------------
(* Types *)

\* From the start of a restore to its end.
Restoring == {"list", "getBase", "create"} \cup Owned

\* A restore knows its tenant, and up to its creation the backup, which exists
\* once it has been looked at.
ArgsKnown ==
    \A p \in Procs :
        /\ pc[p] \in Restoring => app[p] \in Tenants
        /\ pc[p] \in {"list", "getBase", "create"} => bk[p] \in Backups
        /\ pc[p] \in {"getBase", "create"} => backups[bk[p]] # None

\* A backup has nothing before it is completed.
UnfinishedEmpty ==
    \A b \in Backups :
        backups[b] # None /\ backups[b].phase \in {"new", "running"} => backups[b].has = {}

Typed == TypeOK /\ ArgsKnown /\ UnfinishedEmpty

\* Giving a cluster up keeps its type, its owner and its backup.
LEMMA OrphanedCluster ==
  ASSUME TypeOK, NEW p \in Procs
  PROVE  /\ Orphaned(p) \in [Names -> Cluster \cup {None}]
         /\ \A n \in Names :
               /\ Orphaned(p)[n] = None <=> clusters[n] = None
               /\ clusters[n] # None =>
                     /\ Orphaned(p)[n].owner = clusters[n].owner
                     /\ Orphaned(p)[n].from = clusters[n].from
                     /\ Orphaned(p)[n].up = clusters[n].up
               /\ clusters[n] # None /\ n = rec[p] /\ clusters[n].owner = p =>
                     Orphaned(p)[n].orphan
               /\ ~(clusters[n] # None /\ n = rec[p] /\ clusters[n].owner = p) =>
                     Orphaned(p)[n] = clusters[n]
<1>1. ASSUME NEW n \in Names, clusters[n] # None
      PROVE  [clusters[n] EXCEPT !.orphan = TRUE] \in Cluster
  <2>1. clusters[n] \in Cluster
    BY <1>1 DEF TypeOK
  <2> QED
    BY <2>1 DEF Cluster
<1>2. Orphaned(p) \in [Names -> Cluster \cup {None}]
  BY <1>1 DEF Orphaned, TypeOK
<1>3. ASSUME NEW n \in Names
      PROVE  /\ Orphaned(p)[n] = None <=> clusters[n] = None
             /\ clusters[n] # None =>
                   /\ Orphaned(p)[n].owner = clusters[n].owner
                   /\ Orphaned(p)[n].from = clusters[n].from
                   /\ Orphaned(p)[n].up = clusters[n].up
             /\ clusters[n] # None /\ n = rec[p] /\ clusters[n].owner = p =>
                   Orphaned(p)[n].orphan
             /\ ~(clusters[n] # None /\ n = rec[p] /\ clusters[n].owner = p) =>
                   Orphaned(p)[n] = clusters[n]
  BY <1>1, NoneAssumption DEF Orphaned, TypeOK, Cluster
<1> QED
  BY <1>2, <1>3

\* A pod that changes concerns the readiness of its cluster only.
LEMMA ChangedPod ==
  ASSUME TypeOK, NEW n \in Names, PodChanges(n)
  PROVE  /\ clusters' \in [Names -> Cluster \cup {None}]
         /\ \A m \in Names :
               /\ clusters'[m] = None <=> clusters[m] = None
               /\ clusters[m] # None =>
                     /\ clusters'[m].owner = clusters[m].owner
                     /\ clusters'[m].from = clusters[m].from
                     /\ clusters'[m].orphan = clusters[m].orphan
<1> DEFINE changed == [clusters[n] EXCEPT !.up = ~@]
<1>1. clusters[n] \in Cluster
  BY DEF PodChanges, TypeOK
<1>2. /\ changed \in Cluster
      /\ changed.owner = clusters[n].owner
      /\ changed.from = clusters[n].from
      /\ changed.orphan = clusters[n].orphan
  BY <1>1 DEF Cluster
<1>3. clusters' = [clusters EXCEPT ![n] = changed]
  BY DEF PodChanges
<1> HIDE DEF changed
<1> QED
  BY <1>1, <1>2, <1>3, NoneAssumption DEF TypeOK

\* No backup disappears, and what one has when it has ended it keeps.
LEMMA ProceededBackup ==
  ASSUME TypeOK, UnfinishedEmpty, NEW b \in Backups, BackupProceeds(b)
  PROVE  /\ backups' \in [Backups -> Backup \cup {None}]
         /\ UnfinishedEmpty'
         /\ \A c \in Backups : backups[c] # None =>
               backups'[c] # None /\ backups[c].has \subseteq backups'[c].has
<1>1. backups[b] \in Backup
  BY DEF BackupProceeds, TypeOK
<1>2. PICK next \in Backup :
        /\ backups' = [backups EXCEPT ![b] = next]
        /\ next.phase \in {"new", "running"} => next.has = {}
        /\ backups[b].has \subseteq next.has
  <2>1. CASE /\ backups[b].phase = "new"
             /\ backups' = [backups EXCEPT ![b].phase = "running"]
    <3> DEFINE next == [backups[b] EXCEPT !.phase = "running"]
    <3>1. next \in Backup /\ next.has = backups[b].has /\ next.has = {}
      BY <1>1, <2>1 DEF Backup, Phases, UnfinishedEmpty, BackupProceeds
    <3> QED
      BY <2>1, <3>1
  <2>2. CASE /\ backups[b].phase \in {"new", "running"}
             /\ backups' = [backups EXCEPT ![b].phase = "failed"]
    <3> DEFINE next == [backups[b] EXCEPT !.phase = "failed"]
    <3>1. next \in Backup /\ next.has = backups[b].has /\ next.has = {}
      BY <1>1, <2>2 DEF Backup, Phases, UnfinishedEmpty, BackupProceeds
    <3> QED
      BY <2>2, <3>1
  <2>3. ASSUME backups[b].phase = "running",
               NEW has \in SUBSET Tenants,
               backups' = [backups EXCEPT ![b] =
                             [phase |-> "completed", usable |-> TRUE, has |-> has]]
        PROVE  \E next \in Backup :
                 /\ backups' = [backups EXCEPT ![b] = next]
                 /\ next.phase \in {"new", "running"} => next.has = {}
                 /\ backups[b].has \subseteq next.has
    <3> DEFINE next == [phase |-> "completed", usable |-> TRUE, has |-> has]
    <3>1. next \in Backup
      BY DEF Backup, Phases
    <3>2. backups[b].has = {}
      BY <2>3 DEF UnfinishedEmpty, BackupProceeds
    <3> QED
      BY <2>3, <3>1, <3>2
  <2> QED
    BY <2>1, <2>2, <2>3 DEF BackupProceeds
<1> QED
  BY <1>1, <1>2, NoneAssumption DEF TypeOK, UnfinishedEmpty

\* An exec that has returned leaves pg_restore in the pod only with an error.
LEMMA ExecEnded ==
  ASSUME TypeOK, NEW p \in Procs, LoadEnds(p)
  PROVE  /\ load' \in [Procs -> {"off", "running"} \cup Ended]
         /\ adrift' \in [Procs -> BOOLEAN]
         /\ load[p] = "running" /\ load'[p] \in Ended
         /\ adrift'[p] => load'[p] = "error"
         /\ \A q \in Procs \ {p} : load'[q] = load[q] /\ adrift'[q] = adrift[q]
<1>1. load \in [Procs -> {"off", "running"} \cup Ended] /\ adrift \in [Procs -> BOOLEAN]
  BY DEF TypeOK
<1>2. PICK result \in Ended :
        /\ load' = [load EXCEPT ![p] = result]
        /\ \E left \in {FALSE, result = "error"} : adrift' = [adrift EXCEPT ![p] = left]
  BY DEF LoadEnds
<1>3. PICK left \in {FALSE, result = "error"} : adrift' = [adrift EXCEPT ![p] = left]
  BY <1>2
<1>4. left \in BOOLEAN /\ (left => result = "error")
  BY <1>3
<1>5. load[p] = "running"
  BY DEF LoadEnds
<1> QED
  BY <1>1, <1>2, <1>3, <1>4, <1>5

\* Any step keeps the types.
LEMMA TypeStep == TypeOK /\ ArgsKnown /\ UnfinishedEmpty /\ [Next]_vars => Typed'
<1> SUFFICES ASSUME TypeOK, ArgsKnown, UnfinishedEmpty, [Next]_vars
             PROVE  Typed'
  OBVIOUS
<1> USE ChunksAssumption, NoneAssumption DEF Typed, TypeOK, ArgsKnown,
        UnfinishedEmpty, Restoring, Goto, Owned, Calls, Labels, world, args, stream,
        Running, Ended, Phases, Terminal, Backup, Cluster
<1>1. CASE UNCHANGED vars
  BY <1>1 DEF vars
<1>2. ASSUME NEW p \in Procs, NEW t \in Tenants, NEW b \in Backups, StartRestore(p, t, b)
      PROVE  Typed'
  BY <1>2 DEF StartRestore
<1>3. ASSUME NEW p \in Procs, StartBackup(p)
      PROVE  Typed'
  BY <1>3 DEF StartBackup
<1>4. ASSUME NEW p \in Procs, Return(p)
      PROVE  Typed'
  BY <1>4 DEF Return, Forget
<1>5. ASSUME NEW p \in Procs, Crash(p)
      PROVE  Typed'
  <2>1. clusters' \in [Names -> Cluster \cup {None}]
    BY <1>5, OrphanedCluster DEF Crash
  <2>2. adrift' \in [Procs -> BOOLEAN]
    <3>1. PICK left \in {adrift[p], load[p] = "running"} : adrift' = [adrift EXCEPT ![p] = left]
      BY <1>5 DEF Crash
    <3>2. left \in BOOLEAN
      OBVIOUS
    <3> QED
      BY <3>1, <3>2
  <2>3. /\ load' = [load EXCEPT ![p] = "off"] /\ dump' = [dump EXCEPT ![p] = "off"]
        /\ Forget(p)
    BY <1>5 DEF Crash
  <2> QED
    BY <2>1, <2>2, <2>3 DEF Forget
<1>6. ASSUME NEW p \in Procs, ContextOver(p)
      PROVE  Typed'
  BY <1>6 DEF ContextOver
<1>7. ASSUME NEW p \in Procs, Fail(p)
      PROVE  Typed'
  BY <1>7 DEF Fail, OnError
<1>8. ASSUME NEW p \in Procs, CheckBackup(p)
      PROVE  Typed'
  BY <1>8 DEF CheckBackup, Restorable
<1>9. ASSUME NEW p \in Procs, GetBase(p)
      PROVE  Typed'
  BY <1>9 DEF GetBase
<1>10. ASSUME NEW p \in Procs, CreateRecoveryCluster(p)
      PROVE  Typed'
  BY <1>10 DEF CreateRecoveryCluster
<1>11. ASSUME NEW p \in Procs, WaitPrimaryPod(p)
      PROVE  Typed'
  BY <1>11 DEF WaitPrimaryPod
<1>12. ASSUME NEW p \in Procs, Probe(p)
      PROVE  Typed'
  BY <1>12 DEF Probe
<1>13. ASSUME NEW p \in Procs, GiveUpProbing(p)
      PROVE  Typed'
  BY <1>13 DEF GiveUpProbing
<1>14. ASSUME NEW p \in Procs, DropLive(p)
      PROVE  Typed'
  BY <1>14 DEF DropLive
<1>15. ASSUME NEW p \in Procs, EnsureDatabase(p)
      PROVE  Typed'
  BY <1>15 DEF EnsureDatabase
<1>16. ASSUME NEW p \in Procs, Move(p)
      PROVE  Typed'
  BY <1>16 DEF Move
<1>17. ASSUME NEW p \in Procs, Block(p)
      PROVE  Typed'
  BY <1>17 DEF Block
<1>18. ASSUME NEW p \in Procs, DumpEnds(p)
      PROVE  Typed'
  BY <1>18 DEF DumpEnds
<1>19. ASSUME NEW p \in Procs, LoadEnds(p)
      PROVE  Typed'
  <2>1. /\ load' \in [Procs -> {"off", "running"} \cup Ended]
        /\ adrift' \in [Procs -> BOOLEAN]
    BY <1>19, ExecEnded
  <2> QED
    BY <1>19, <2>1 DEF LoadEnds
<1>20. ASSUME NEW p \in Procs, StreamReturns(p)
      PROVE  Typed'
  BY <1>20 DEF StreamReturns, AfterStream
<1>21. ASSUME NEW p \in Procs, EnsureGrants(p)
      PROVE  Typed'
  BY <1>21 DEF EnsureGrants
<1>22. ASSUME NEW p \in Procs, DeleteCluster(p)
      PROVE  Typed'
  BY <1>22 DEF DeleteCluster, Remove
<1>23. ASSUME NEW p \in Procs, Cleanup(p)
      PROVE  Typed'
  <2>1. clusters' \in [Names -> Cluster \cup {None}]
    <3>1. clusters' = [clusters EXCEPT ![rec[p]] = None] \/ clusters' = Orphaned(p)
      BY <1>23 DEF Cleanup, Remove
    <3>2. Orphaned(p) \in [Names -> Cluster \cup {None}]
      BY OrphanedCluster
    <3> QED
      BY <3>1, <3>2
  <2> QED
    BY <1>23, <2>1 DEF Cleanup
<1>24. ASSUME NEW p \in Procs, Trigger(p)
      PROVE  Typed'
  BY <1>24 DEF Trigger
<1>25. ASSUME NEW p \in Procs, Wait(p)
      PROVE  Typed'
  BY <1>25 DEF Wait
<1>26. ASSUME NEW b \in Backups, BackupProceeds(b)
      PROVE  Typed'
  <2>1. /\ backups' \in [Backups -> Backup \cup {None}]
        /\ UnfinishedEmpty'
        /\ \A c \in Backups : backups[c] # None => backups'[c] # None
    BY <1>26, ProceededBackup
  <2> QED
    BY <1>26, <2>1 DEF BackupProceeds
<1>27. ASSUME NEW n \in Names, PodChanges(n)
      PROVE  Typed'
  <2>1. clusters' \in [Names -> Cluster \cup {None}]
    BY <1>27, ChangedPod
  <2> QED
    BY <1>27, <2>1 DEF PodChanges
<1>28. ASSUME NEW p \in Procs, PodExits(p)
      PROVE  Typed'
  BY <1>28 DEF PodExits
<1> QED
  BY <1>1, <1>2, <1>3, <1>4, <1>5, <1>6, <1>7, <1>8, <1>9, <1>10, <1>11, <1>12, <1>13,
       <1>14, <1>15, <1>16, <1>17, <1>18, <1>19, <1>20, <1>21, <1>22, <1>23, <1>24,
       <1>25, <1>26, <1>27, <1>28 DEF Next, Restore

-----------------------------------------------------------------------------
(* The dump stream and the recovery cluster *)

\* Where the deletion is registered, or under way, there was a creation.
MadeFirst == \A p \in Procs : pc[p] \in Owned \cup {"cleanup"} => made[p]

\* A pg_restore goes on in the pod only when its exec ended with an error, or died.
AdriftFailed ==
    \A p \in Procs : adrift[p] =>
        \/ pc[p] = "stream" /\ load[p] = "error"
        \/ pc[p] \in {"cleanup", "failed", "idle"}

Joined == StreamJoined /\ AdriftFailed

\* Nobody leaves the stream before both goroutines have ended.
LEMMA StreamStep == TypeOK /\ Joined /\ [Next]_vars => Joined'
<1> SUFFICES ASSUME TypeOK, Joined, [Next]_vars
             PROVE  Joined'
  OBVIOUS
<1> USE DEF TypeOK, Joined, StreamJoined, AdriftFailed, Goto, Owned, Calls, world, args,
        stream, Running, Ended
<1>1. CASE UNCHANGED vars
  BY <1>1 DEF vars
<1>2. ASSUME NEW p \in Procs, NEW t \in Tenants, NEW b \in Backups, StartRestore(p, t, b)
      PROVE  Joined'
  BY <1>2 DEF StartRestore
<1>3. ASSUME NEW p \in Procs, StartBackup(p)
      PROVE  Joined'
  BY <1>3 DEF StartBackup
<1>4. ASSUME NEW p \in Procs, Return(p)
      PROVE  Joined'
  BY <1>4 DEF Return, Forget
<1>5. ASSUME NEW p \in Procs, Crash(p)
      PROVE  Joined'
  BY <1>5 DEF Crash, Forget, Orphaned
<1>6. ASSUME NEW p \in Procs, ContextOver(p)
      PROVE  Joined'
  BY <1>6 DEF ContextOver
<1>7. ASSUME NEW p \in Procs, Fail(p)
      PROVE  Joined'
  BY <1>7 DEF Fail, OnError
<1>8. ASSUME NEW p \in Procs, CheckBackup(p)
      PROVE  Joined'
  BY <1>8 DEF CheckBackup, Restorable
<1>9. ASSUME NEW p \in Procs, GetBase(p)
      PROVE  Joined'
  BY <1>9 DEF GetBase
<1>10. ASSUME NEW p \in Procs, CreateRecoveryCluster(p)
      PROVE  Joined'
  BY <1>10 DEF CreateRecoveryCluster
<1>11. ASSUME NEW p \in Procs, WaitPrimaryPod(p)
      PROVE  Joined'
  BY <1>11 DEF WaitPrimaryPod
<1>12. ASSUME NEW p \in Procs, Probe(p)
      PROVE  Joined'
  BY <1>12 DEF Probe
<1>13. ASSUME NEW p \in Procs, GiveUpProbing(p)
      PROVE  Joined'
  BY <1>13 DEF GiveUpProbing
<1>14. ASSUME NEW p \in Procs, DropLive(p)
      PROVE  Joined'
  BY <1>14 DEF DropLive
<1>15. ASSUME NEW p \in Procs, EnsureDatabase(p)
      PROVE  Joined'
  BY <1>15 DEF EnsureDatabase
<1>16. ASSUME NEW p \in Procs, Move(p)
      PROVE  Joined'
  BY <1>16 DEF Move
<1>17. ASSUME NEW p \in Procs, Block(p)
      PROVE  Joined'
  BY <1>17 DEF Block
<1>18. ASSUME NEW p \in Procs, DumpEnds(p)
      PROVE  Joined'
  BY <1>18 DEF DumpEnds
<1>19. ASSUME NEW p \in Procs, LoadEnds(p)
      PROVE  Joined'
  <2>1. /\ load[p] = "running" /\ load'[p] \in Ended
        /\ adrift'[p] => load'[p] = "error"
        /\ \A q \in Procs \ {p} : load'[q] = load[q] /\ adrift'[q] = adrift[q]
    BY <1>19, ExecEnded
  <2> QED
    BY <1>19, <2>1 DEF LoadEnds
<1>20. ASSUME NEW p \in Procs, StreamReturns(p)
      PROVE  Joined'
  BY <1>20 DEF StreamReturns, AfterStream
<1>21. ASSUME NEW p \in Procs, EnsureGrants(p)
      PROVE  Joined'
  BY <1>21 DEF EnsureGrants
<1>22. ASSUME NEW p \in Procs, DeleteCluster(p)
      PROVE  Joined'
  BY <1>22 DEF DeleteCluster, Remove
<1>23. ASSUME NEW p \in Procs, Cleanup(p)
      PROVE  Joined'
  BY <1>23 DEF Cleanup, Remove, Orphaned
<1>24. ASSUME NEW p \in Procs, Trigger(p)
      PROVE  Joined'
  BY <1>24 DEF Trigger
<1>25. ASSUME NEW p \in Procs, Wait(p)
      PROVE  Joined'
  BY <1>25 DEF Wait
<1>26. ASSUME NEW b \in Backups, BackupProceeds(b)
      PROVE  Joined'
  BY <1>26 DEF BackupProceeds
<1>27. ASSUME NEW n \in Names, PodChanges(n)
      PROVE  Joined'
  BY <1>27 DEF PodChanges
<1>28. ASSUME NEW p \in Procs, PodExits(p)
      PROVE  Joined'
  BY <1>28 DEF PodExits
<1> QED
  BY <1>1, <1>2, <1>3, <1>4, <1>5, <1>6, <1>7, <1>8, <1>9, <1>10, <1>11, <1>12, <1>13,
       <1>14, <1>15, <1>16, <1>17, <1>18, <1>19, <1>20, <1>21, <1>22, <1>23, <1>24,
       <1>25, <1>26, <1>27, <1>28 DEF Next, Restore

\* The deletion is registered only after a creation, and only Forget undoes it.
LEMMA MadeStep == TypeOK /\ MadeFirst /\ [Next]_vars => MadeFirst'
<1> SUFFICES ASSUME TypeOK, MadeFirst, [Next]_vars
             PROVE  MadeFirst'
  OBVIOUS
<1> USE DEF TypeOK, MadeFirst, Goto, Owned, Calls, world, args, stream
<1>1. CASE UNCHANGED vars
  BY <1>1 DEF vars
<1>2. ASSUME NEW p \in Procs, NEW t \in Tenants, NEW b \in Backups, StartRestore(p, t, b)
      PROVE  MadeFirst'
  BY <1>2 DEF StartRestore
<1>3. ASSUME NEW p \in Procs, StartBackup(p)
      PROVE  MadeFirst'
  BY <1>3 DEF StartBackup
<1>4. ASSUME NEW p \in Procs, Return(p)
      PROVE  MadeFirst'
  BY <1>4 DEF Return, Forget
<1>5. ASSUME NEW p \in Procs, Crash(p)
      PROVE  MadeFirst'
  BY <1>5 DEF Crash, Forget, Orphaned
<1>6. ASSUME NEW p \in Procs, ContextOver(p)
      PROVE  MadeFirst'
  BY <1>6 DEF ContextOver
<1>7. ASSUME NEW p \in Procs, Fail(p)
      PROVE  MadeFirst'
  BY <1>7 DEF Fail, OnError
<1>8. ASSUME NEW p \in Procs, CheckBackup(p)
      PROVE  MadeFirst'
  BY <1>8 DEF CheckBackup, Restorable
<1>9. ASSUME NEW p \in Procs, GetBase(p)
      PROVE  MadeFirst'
  BY <1>9 DEF GetBase
<1>10. ASSUME NEW p \in Procs, CreateRecoveryCluster(p)
      PROVE  MadeFirst'
  BY <1>10 DEF CreateRecoveryCluster
<1>11. ASSUME NEW p \in Procs, WaitPrimaryPod(p)
      PROVE  MadeFirst'
  BY <1>11 DEF WaitPrimaryPod
<1>12. ASSUME NEW p \in Procs, Probe(p)
      PROVE  MadeFirst'
  BY <1>12 DEF Probe
<1>13. ASSUME NEW p \in Procs, GiveUpProbing(p)
      PROVE  MadeFirst'
  BY <1>13 DEF GiveUpProbing
<1>14. ASSUME NEW p \in Procs, DropLive(p)
      PROVE  MadeFirst'
  BY <1>14 DEF DropLive
<1>15. ASSUME NEW p \in Procs, EnsureDatabase(p)
      PROVE  MadeFirst'
  BY <1>15 DEF EnsureDatabase
<1>16. ASSUME NEW p \in Procs, Move(p)
      PROVE  MadeFirst'
  BY <1>16 DEF Move
<1>17. ASSUME NEW p \in Procs, Block(p)
      PROVE  MadeFirst'
  BY <1>17 DEF Block
<1>18. ASSUME NEW p \in Procs, DumpEnds(p)
      PROVE  MadeFirst'
  BY <1>18 DEF DumpEnds
<1>19. ASSUME NEW p \in Procs, LoadEnds(p)
      PROVE  MadeFirst'
  BY <1>19 DEF LoadEnds
<1>20. ASSUME NEW p \in Procs, StreamReturns(p)
      PROVE  MadeFirst'
  BY <1>20 DEF StreamReturns, AfterStream
<1>21. ASSUME NEW p \in Procs, EnsureGrants(p)
      PROVE  MadeFirst'
  BY <1>21 DEF EnsureGrants
<1>22. ASSUME NEW p \in Procs, DeleteCluster(p)
      PROVE  MadeFirst'
  BY <1>22 DEF DeleteCluster, Remove
<1>23. ASSUME NEW p \in Procs, Cleanup(p)
      PROVE  MadeFirst'
  BY <1>23 DEF Cleanup, Remove, Orphaned
<1>24. ASSUME NEW p \in Procs, Trigger(p)
      PROVE  MadeFirst'
  BY <1>24 DEF Trigger
<1>25. ASSUME NEW p \in Procs, Wait(p)
      PROVE  MadeFirst'
  BY <1>25 DEF Wait
<1>26. ASSUME NEW b \in Backups, BackupProceeds(b)
      PROVE  MadeFirst'
  BY <1>26 DEF BackupProceeds
<1>27. ASSUME NEW n \in Names, PodChanges(n)
      PROVE  MadeFirst'
  BY <1>27 DEF PodChanges
<1>28. ASSUME NEW p \in Procs, PodExits(p)
      PROVE  MadeFirst'
  BY <1>28 DEF PodExits
<1> QED
  BY <1>1, <1>2, <1>3, <1>4, <1>5, <1>6, <1>7, <1>8, <1>9, <1>10, <1>11, <1>12, <1>13,
       <1>14, <1>15, <1>16, <1>17, <1>18, <1>19, <1>20, <1>21, <1>22, <1>23, <1>24,
       <1>25, <1>26, <1>27, <1>28 DEF Next, Restore

\* A step that leaves the clusters alone, and each process that has to delete
\* one at a label where it will.
LEMMA OrphansFrame ==
  ASSUME TypeOK, NoOrphans, clusters' = clusters, rec' = rec,
         \A q \in Procs : pc[q] \in Owned \cup {"cleanup"} => pc'[q] \in Owned \cup {"cleanup"}
  PROVE  NoOrphans'
  BY NoneAssumption DEF TypeOK, NoOrphans, Cluster

\* A step by which p loses its own cluster, deleted or given up.
LEMMA ClusterGiven ==
  ASSUME TypeOK, NoOrphans, NEW p \in Procs,
         \A q \in Procs \ {p} : pc'[q] = pc[q] /\ rec'[q] = rec[q],
         \A n \in Names : clusters'[n] # None /\ ~clusters'[n].orphan =>
            /\ clusters'[n] = clusters[n]
            /\ ~(n = rec[p] /\ clusters[n].owner = p)
  PROVE  NoOrphans'
<1> SUFFICES ASSUME NEW n \in Names, clusters'[n] # None, ~clusters'[n].orphan
             PROVE  /\ rec'[clusters'[n].owner] = n
                    /\ pc'[clusters'[n].owner] \in Owned \cup {"cleanup"}
  BY DEF NoOrphans
<1>1. /\ clusters'[n] = clusters[n]
      /\ rec[clusters[n].owner] = n
      /\ pc[clusters[n].owner] \in Owned \cup {"cleanup"}
  BY DEF NoOrphans
<1>2. clusters[n].owner \in Procs \ {p}
  BY <1>1 DEF TypeOK, Cluster
<1> QED
  BY <1>1, <1>2

\* Whoever stops caring for a cluster has deleted it or given it up.
LEMMA OrphansStep == TypeOK /\ MadeFirst /\ NoOrphans /\ [Next]_vars => NoOrphans'
<1> SUFFICES ASSUME TypeOK, MadeFirst, NoOrphans, [Next]_vars
             PROVE  NoOrphans'
  OBVIOUS
<1> USE NoneAssumption DEF TypeOK, NoOrphans, Goto, Owned, Calls, world, args, stream
<1>1. CASE UNCHANGED vars
  BY <1>1 DEF vars
<1>2. ASSUME NEW p \in Procs, NEW t \in Tenants, NEW b \in Backups, StartRestore(p, t, b)
      PROVE  NoOrphans'
  BY <1>2 DEF StartRestore
<1>3. ASSUME NEW p \in Procs, StartBackup(p)
      PROVE  NoOrphans'
  BY <1>3 DEF StartBackup
<1>4. ASSUME NEW p \in Procs, Return(p)
      PROVE  NoOrphans'
  BY <1>4 DEF Return, Forget
<1>5. ASSUME NEW p \in Procs, Crash(p)
      PROVE  NoOrphans'
  BY <1>5 DEF Crash, Forget, Orphaned
<1>6. ASSUME NEW p \in Procs, ContextOver(p)
      PROVE  NoOrphans'
  BY <1>6 DEF ContextOver
<1>7. ASSUME NEW p \in Procs, Fail(p)
      PROVE  NoOrphans'
  BY <1>7 DEF Fail, OnError
<1>8. ASSUME NEW p \in Procs, CheckBackup(p)
      PROVE  NoOrphans'
  BY <1>8 DEF CheckBackup, Restorable
<1>9. ASSUME NEW p \in Procs, GetBase(p)
      PROVE  NoOrphans'
  BY <1>9 DEF GetBase
<1>10. ASSUME NEW p \in Procs, CreateRecoveryCluster(p)
      PROVE  NoOrphans'
  BY <1>10 DEF CreateRecoveryCluster
<1>11. ASSUME NEW p \in Procs, WaitPrimaryPod(p)
      PROVE  NoOrphans'
  BY <1>11 DEF WaitPrimaryPod
<1>12. ASSUME NEW p \in Procs, Probe(p)
      PROVE  NoOrphans'
  BY <1>12 DEF Probe
<1>13. ASSUME NEW p \in Procs, GiveUpProbing(p)
      PROVE  NoOrphans'
  BY <1>13 DEF GiveUpProbing
<1>14. ASSUME NEW p \in Procs, DropLive(p)
      PROVE  NoOrphans'
  <2>1. /\ clusters' = clusters /\ rec' = rec
        /\ \A q \in Procs : pc[q] \in Owned \cup {"cleanup"} => pc'[q] \in Owned \cup {"cleanup"}
    BY <1>14 DEF DropLive
  <2> QED
    BY <2>1, OrphansFrame
<1>15. ASSUME NEW p \in Procs, EnsureDatabase(p)
      PROVE  NoOrphans'
  BY <1>15 DEF EnsureDatabase
<1>16. ASSUME NEW p \in Procs, Move(p)
      PROVE  NoOrphans'
  BY <1>16 DEF Move
<1>17. ASSUME NEW p \in Procs, Block(p)
      PROVE  NoOrphans'
  BY <1>17 DEF Block
<1>18. ASSUME NEW p \in Procs, DumpEnds(p)
      PROVE  NoOrphans'
  BY <1>18 DEF DumpEnds
<1>19. ASSUME NEW p \in Procs, LoadEnds(p)
      PROVE  NoOrphans'
  BY <1>19 DEF LoadEnds
<1>20. ASSUME NEW p \in Procs, StreamReturns(p)
      PROVE  NoOrphans'
  <2>1. /\ clusters' = clusters /\ rec' = rec
        /\ \A q \in Procs : pc[q] \in Owned \cup {"cleanup"} => pc'[q] \in Owned \cup {"cleanup"}
    BY <1>20 DEF StreamReturns, AfterStream
  <2> QED
    BY <2>1, OrphansFrame
<1>21. ASSUME NEW p \in Procs, EnsureGrants(p)
      PROVE  NoOrphans'
  BY <1>21 DEF EnsureGrants
<1>22. ASSUME NEW p \in Procs, DeleteCluster(p)
      PROVE  NoOrphans'
  <2>1. \A q \in Procs \ {p} : pc'[q] = pc[q] /\ rec'[q] = rec[q]
    BY <1>22 DEF DeleteCluster
  <2>2. \A n \in Names : clusters'[n] # None /\ ~clusters'[n].orphan =>
           clusters'[n] = clusters[n] /\ ~(n = rec[p] /\ clusters[n].owner = p)
    BY <1>22 DEF DeleteCluster, Remove
  <2> HIDE DEF TypeOK, NoOrphans
  <2> QED
    BY <2>1, <2>2, ClusterGiven
<1>23. ASSUME NEW p \in Procs, Cleanup(p)
      PROVE  NoOrphans'
  <2>1. \A q \in Procs \ {p} : pc'[q] = pc[q] /\ rec'[q] = rec[q]
    BY <1>23 DEF Cleanup
  <2>2. \A n \in Names : clusters'[n] # None /\ ~clusters'[n].orphan =>
           clusters'[n] = clusters[n] /\ ~(n = rec[p] /\ clusters[n].owner = p)
    BY <1>23, OrphanedCluster DEF Cleanup, Remove
  <2> HIDE DEF TypeOK, NoOrphans
  <2> QED
    BY <2>1, <2>2, ClusterGiven
<1>24. ASSUME NEW p \in Procs, Trigger(p)
      PROVE  NoOrphans'
  <2>1. /\ clusters' = clusters /\ rec' = rec
        /\ \A q \in Procs : pc[q] \in Owned \cup {"cleanup"} => pc'[q] \in Owned \cup {"cleanup"}
    BY <1>24 DEF Trigger
  <2> QED
    BY <2>1, OrphansFrame
<1>25. ASSUME NEW p \in Procs, Wait(p)
      PROVE  NoOrphans'
  BY <1>25 DEF Wait
<1>26. ASSUME NEW b \in Backups, BackupProceeds(b)
      PROVE  NoOrphans'
  BY <1>26 DEF BackupProceeds
<1>27. ASSUME NEW n \in Names, PodChanges(n)
      PROVE  NoOrphans'
  BY <1>27 DEF PodChanges
<1>28. ASSUME NEW p \in Procs, PodExits(p)
      PROVE  NoOrphans'
  BY <1>28 DEF PodExits
<1> QED
  BY <1>1, <1>2, <1>3, <1>4, <1>5, <1>6, <1>7, <1>8, <1>9, <1>10, <1>11, <1>12, <1>13,
       <1>14, <1>15, <1>16, <1>17, <1>18, <1>19, <1>20, <1>21, <1>22, <1>23, <1>24,
       <1>25, <1>26, <1>27, <1>28 DEF Next, Restore

-----------------------------------------------------------------------------
(* What a restore may drop *)

\* A recovery cluster is made from a backup that exists.
SourcesExist == \A n \in Names : clusters[n] # None => backups[clusters[n].from] # None

\* A restore's own cluster is made from the backup that was asked for.
FromChosen == \A p \in Procs : pc[p] \in Owned /\ Own(p) => clusters[rec[p]].from = bk[p]

\* Before the DROP a cluster has shown the tenant's database.
Shown ==
    \A p \in Procs : pc[p] = "drop" =>
        \E b \in Backups :
            backups[b] # None /\ app[p] \in backups[b].has /\ (Own(p) => b = bk[p])

\* What a cluster has shown stays true of its backup up to the DROP.
LEMMA ShownStep ==
  Typed /\ SourcesExist /\ FromChosen /\ Shown /\ [Next]_vars =>
    (SourcesExist /\ FromChosen /\ Shown)'
<1> SUFFICES ASSUME Typed, SourcesExist, FromChosen, Shown, [Next]_vars
             PROVE  (SourcesExist /\ FromChosen /\ Shown)'
  OBVIOUS
<1> USE NoneAssumption DEF Typed, TypeOK, ArgsKnown, Restoring, SourcesExist,
        FromChosen, Shown, Own, Goto, Owned, Calls, world, args, stream
<1>1. CASE UNCHANGED vars
  BY <1>1 DEF vars
<1>2. ASSUME NEW p \in Procs, NEW t \in Tenants, NEW b \in Backups, StartRestore(p, t, b)
      PROVE  (SourcesExist /\ FromChosen /\ Shown)'
  BY <1>2 DEF StartRestore
<1>3. ASSUME NEW p \in Procs, StartBackup(p)
      PROVE  (SourcesExist /\ FromChosen /\ Shown)'
  BY <1>3 DEF StartBackup
<1>4. ASSUME NEW p \in Procs, Return(p)
      PROVE  (SourcesExist /\ FromChosen /\ Shown)'
  BY <1>4 DEF Return, Forget
<1>5. ASSUME NEW p \in Procs, Crash(p)
      PROVE  (SourcesExist /\ FromChosen /\ Shown)'
  <2>1. \A n \in Names :
           /\ clusters'[n] = None <=> clusters[n] = None
           /\ clusters[n] # None => /\ clusters'[n].owner = clusters[n].owner
                                   /\ clusters'[n].from = clusters[n].from
    BY <1>5, OrphanedCluster DEF Crash
  <2> QED
    BY <1>5, <2>1 DEF Crash, Forget, Cluster
<1>6. ASSUME NEW p \in Procs, ContextOver(p)
      PROVE  (SourcesExist /\ FromChosen /\ Shown)'
  BY <1>6 DEF ContextOver
<1>7. ASSUME NEW p \in Procs, Fail(p)
      PROVE  (SourcesExist /\ FromChosen /\ Shown)'
  BY <1>7 DEF Fail, OnError
<1>8. ASSUME NEW p \in Procs, CheckBackup(p)
      PROVE  (SourcesExist /\ FromChosen /\ Shown)'
  BY <1>8 DEF CheckBackup, Restorable
<1>9. ASSUME NEW p \in Procs, GetBase(p)
      PROVE  (SourcesExist /\ FromChosen /\ Shown)'
  BY <1>9 DEF GetBase
<1>10. ASSUME NEW p \in Procs, CreateRecoveryCluster(p)
      PROVE  (SourcesExist /\ FromChosen /\ Shown)'
  <2>1. PICK lost \in BOOLEAN :
           clusters' = [clusters EXCEPT ![rec[p]] =
                          [owner |-> p, from |-> bk[p], up |-> FALSE, orphan |-> lost]]
    BY <1>10 DEF CreateRecoveryCluster
  <2>2. pc[p] = "create" /\ rec[p] \in Names /\ bk[p] \in Backups /\ backups[bk[p]] # None
    BY <1>10 DEF CreateRecoveryCluster
  <2>3. /\ backups' = backups /\ rec' = rec /\ bk' = bk /\ app' = app
        /\ pc'[p] \in {"failed", "waitPod"}
        /\ \A q \in Procs \ {p} : pc'[q] = pc[q]
    BY <1>10 DEF CreateRecoveryCluster
  <2>4. SourcesExist'
    BY <2>1, <2>2, <2>3
  <2>5. \A q \in Procs \ {p} : Own(q)' /\ rec[q] \in Names => Own(q) /\ rec[q] # rec[p]
    BY <2>1, <2>2, <2>3
  <2>6. FromChosen'
    BY <2>1, <2>2, <2>3, <2>5
  <2>7. Shown'
    BY <2>2, <2>3, <2>5
  <2> QED
    BY <2>4, <2>6, <2>7
<1>11. ASSUME NEW p \in Procs, WaitPrimaryPod(p)
      PROVE  (SourcesExist /\ FromChosen /\ Shown)'
  BY <1>11 DEF WaitPrimaryPod
<1>12. ASSUME NEW p \in Procs, Probe(p)
      PROVE  (SourcesExist /\ FromChosen /\ Shown)'
  <2>1. /\ clusters[rec[p]] \in Cluster
        /\ backups[clusters[rec[p]].from] # None
        /\ app[p] \in backups[clusters[rec[p]].from].has
    BY <1>12 DEF Probe, Answers, Up
  <2> QED
    BY <1>12, <2>1 DEF Probe, Cluster
<1>13. ASSUME NEW p \in Procs, GiveUpProbing(p)
      PROVE  (SourcesExist /\ FromChosen /\ Shown)'
  BY <1>13 DEF GiveUpProbing
<1>14. ASSUME NEW p \in Procs, DropLive(p)
      PROVE  (SourcesExist /\ FromChosen /\ Shown)'
  BY <1>14 DEF DropLive
<1>15. ASSUME NEW p \in Procs, EnsureDatabase(p)
      PROVE  (SourcesExist /\ FromChosen /\ Shown)'
  BY <1>15 DEF EnsureDatabase
<1>16. ASSUME NEW p \in Procs, Move(p)
      PROVE  (SourcesExist /\ FromChosen /\ Shown)'
  BY <1>16 DEF Move
<1>17. ASSUME NEW p \in Procs, Block(p)
      PROVE  (SourcesExist /\ FromChosen /\ Shown)'
  BY <1>17 DEF Block
<1>18. ASSUME NEW p \in Procs, DumpEnds(p)
      PROVE  (SourcesExist /\ FromChosen /\ Shown)'
  BY <1>18 DEF DumpEnds
<1>19. ASSUME NEW p \in Procs, LoadEnds(p)
      PROVE  (SourcesExist /\ FromChosen /\ Shown)'
  BY <1>19 DEF LoadEnds
<1>20. ASSUME NEW p \in Procs, StreamReturns(p)
      PROVE  (SourcesExist /\ FromChosen /\ Shown)'
  BY <1>20 DEF StreamReturns, AfterStream
<1>21. ASSUME NEW p \in Procs, EnsureGrants(p)
      PROVE  (SourcesExist /\ FromChosen /\ Shown)'
  BY <1>21 DEF EnsureGrants
<1>22. ASSUME NEW p \in Procs, DeleteCluster(p)
      PROVE  (SourcesExist /\ FromChosen /\ Shown)'
  BY <1>22 DEF DeleteCluster, Remove
<1>23. ASSUME NEW p \in Procs, Cleanup(p)
      PROVE  (SourcesExist /\ FromChosen /\ Shown)'
  <2>1. \A n \in Names : clusters'[n] # None =>
           /\ clusters[n] # None
           /\ clusters'[n].owner = clusters[n].owner
           /\ clusters'[n].from = clusters[n].from
    BY <1>23, OrphanedCluster DEF Cleanup, Remove
  <2> QED
    BY <1>23, <2>1 DEF Cleanup, Cluster
<1>24. ASSUME NEW p \in Procs, Trigger(p)
      PROVE  (SourcesExist /\ FromChosen /\ Shown)'
  BY <1>24 DEF Trigger
<1>25. ASSUME NEW p \in Procs, Wait(p)
      PROVE  (SourcesExist /\ FromChosen /\ Shown)'
  BY <1>25 DEF Wait
<1>26. ASSUME NEW b \in Backups, BackupProceeds(b)
      PROVE  (SourcesExist /\ FromChosen /\ Shown)'
  <2>1. \A c \in Backups : backups[c] # None =>
           backups'[c] # None /\ backups[c].has \subseteq backups'[c].has
    BY <1>26, ProceededBackup
  <2> QED
    BY <1>26, <2>1 DEF BackupProceeds, Cluster
<1>27. ASSUME NEW n \in Names, PodChanges(n)
      PROVE  (SourcesExist /\ FromChosen /\ Shown)'
  <2>1. \A m \in Names :
           /\ clusters'[m] = None <=> clusters[m] = None
           /\ clusters[m] # None => /\ clusters'[m].owner = clusters[m].owner
                                   /\ clusters'[m].from = clusters[m].from
    BY <1>27, ChangedPod
  <2> QED
    BY <1>27, <2>1 DEF PodChanges, Cluster
<1>28. ASSUME NEW p \in Procs, PodExits(p)
      PROVE  (SourcesExist /\ FromChosen /\ Shown)'
  BY <1>28 DEF PodExits
<1> QED
  BY <1>1, <1>2, <1>3, <1>4, <1>5, <1>6, <1>7, <1>8, <1>9, <1>10, <1>11, <1>12, <1>13,
       <1>14, <1>15, <1>16, <1>17, <1>18, <1>19, <1>20, <1>21, <1>22, <1>23, <1>24,
       <1>25, <1>26, <1>27, <1>28 DEF Next, Restore

-----------------------------------------------------------------------------
(* The theorems *)

\* The inductive invariant.
IInv ==
    /\ Typed /\ Joined
    /\ MadeFirst /\ NoOrphans
    /\ SourcesExist /\ FromChosen /\ Shown

\* It holds at the start: nothing runs, and every backup has ended.
LEMMA InitIInv == Init => IInv
<1> SUFFICES ASSUME Init
             PROVE  IInv
  OBVIOUS
<1>1. TypeOK
  BY ChunksAssumption, NoneAssumption
     DEF Init, TypeOK, Owned, Calls, Labels, Running, Ended, Backup, Phases
<1>2. ArgsKnown /\ UnfinishedEmpty
  BY NoneAssumption DEF Init, ArgsKnown, UnfinishedEmpty, Restoring, Owned
<1>3. Joined /\ MadeFirst /\ NoOrphans /\ SourcesExist /\ FromChosen /\ Shown
  BY DEF Init, Joined, StreamJoined, AdriftFailed, MadeFirst, NoOrphans, SourcesExist,
       FromChosen, Shown, Owned
<1> QED
  BY <1>1, <1>2, <1>3 DEF IInv, Typed

\* Every step keeps it.
LEMMA NextIInv == IInv /\ [Next]_vars => IInv'
  BY TypeStep, StreamStep, MadeStep, OrphansStep, ShownStep DEF IInv, Typed

\* It holds throughout.
LEMMA Inductive == Spec => []IInv
  BY InitIInv, NextIInv, PTL DEF Spec

\* The variables of a restore, a backup and the operator have their types.
THEOREM TypeCorrect == Spec => []TypeOK
<1>1. IInv => TypeOK
  BY DEF IInv, Typed
<1> QED
  BY <1>1, Inductive, PTL

\* CrossPodDumpRestore leaves no goroutine behind, however many writes a dump takes, and
\* a restore that goes on to its grants or reports success no pg_restore in the pod.
THEOREM StreamsJoined == Spec => []StreamJoined
<1>1. IInv => StreamJoined
  BY DEF IInv, Joined
<1> QED
  BY <1>1, Inductive, PTL

\* Of every recovery cluster some restore still has to take care, but for those
\* left to the administrator: by a crash, a lost answer or a failed deletion.
THEOREM OrphansExplained == Spec => []NoOrphans
<1>1. IInv => NoOrphans
  BY DEF IInv
<1> QED
  BY <1>1, Inductive, PTL

\* However many restores come up with the same name, one whose creation was
\* refused deletes nothing.
THEOREM OnlyOwnDeleted == Spec => DeletesOwn
<1> DEFINE Deletes(n) ==
      \E p \in Procs : rec[p] = n /\ made[p] /\ pc[p] \in {"delete", "cleanup"}
<1>1. ASSUME IInv, [Next]_vars, NEW n \in Names, clusters[n] # None, clusters'[n] = None
      PROVE  Deletes(n)
  <2>1. TypeOK /\ MadeFirst
    BY <1>1 DEF IInv, Typed
  <2>2. ASSUME NEW p \in Procs, Crash(p) \/ Cleanup(p) \/ DeleteCluster(p)
        PROVE  Deletes(n)
    <3>1. Orphaned(p)[n] # None
      BY <1>1, <2>1, OrphanedCluster
    <3>2. pc[p] \in {"delete", "cleanup"} /\ clusters' = [clusters EXCEPT ![rec[p]] = None]
      BY <1>1, <2>2, <3>1 DEF Crash, Cleanup, DeleteCluster, Remove
    <3>3. rec[p] = n
      BY <1>1, <2>1, <3>2 DEF TypeOK
    <3> QED
      BY <2>1, <3>2, <3>3 DEF MadeFirst, Owned
  <2>3. ASSUME NEW p \in Procs, CreateRecoveryCluster(p)
        PROVE  FALSE
    BY <1>1, <2>1, <2>3, NoneAssumption DEF CreateRecoveryCluster, TypeOK, Cluster
  <2>4. ASSUME NEW m \in Names, PodChanges(m)
        PROVE  FALSE
    BY <1>1, <2>1, <2>4, ChangedPod
  <2>5. CASE clusters' = clusters
    BY <1>1, <2>5
  <2> QED
    BY <1>1, <2>2, <2>3, <2>4, <2>5
       DEF Next, Restore, vars, world, StartRestore, StartBackup, Return, ContextOver,
           Fail, CheckBackup, GetBase, WaitPrimaryPod, Probe, GiveUpProbing, DropLive,
           EnsureDatabase, Move, Block, DumpEnds, LoadEnds, StreamReturns, EnsureGrants,
           Trigger, Wait, BackupProceeds, PodExits
<1>2. IInv /\ [Next]_vars =>
        [\A n \in Names : clusters[n] # None /\ clusters'[n] = None =>
            \E p \in Procs : rec[p] = n /\ made[p] /\ pc[p] \in {"delete", "cleanup"}]_vars
  BY <1>1
<1> QED
  BY <1>2, Inductive, PTL DEF Spec, DeletesOwn

\* No restore drops a live database for a backup that has nothing of the tenant,
\* whatever other restores do to its recovery cluster.
THEOREM DropsHaveCopy == Spec => DropNeedsCopy
<1> DEFINE Copied(t) ==
      \E p \in Procs, b \in Backups :
         /\ pc[p] = "drop" /\ app[p] = t
         /\ backups[b] # None /\ t \in backups[b].has
         /\ Own(p) => b = bk[p]
<1>1. ASSUME IInv, [Next]_vars, NEW t \in live \ live'
      PROVE  Copied(t)
  <2>1. ASSUME NEW p \in Procs, DropLive(p)
        PROVE  Copied(t)
    <3>1. pc[p] = "drop" /\ app[p] = t
      BY <1>1, <2>1 DEF DropLive
    <3> QED
      BY <1>1, <3>1 DEF IInv, Shown
  <2>2. CASE live \subseteq live'
    BY <1>1, <2>2
  <2> QED
    BY <1>1, <2>1, <2>2
       DEF Next, Restore, vars, world, StartRestore, StartBackup, Return, Crash, Forget,
           ContextOver, Fail, CheckBackup, GetBase, CreateRecoveryCluster, WaitPrimaryPod,
           Probe, GiveUpProbing, EnsureDatabase, Move, Block, DumpEnds, LoadEnds,
           StreamReturns, AfterStream, EnsureGrants, DeleteCluster, Cleanup, Trigger,
           Wait, BackupProceeds, PodChanges, PodExits
<1>2. IInv /\ [Next]_vars =>
        [\A t \in live \ live' :
          \E p \in Procs, b \in Backups :
             /\ pc[p] = "drop" /\ app[p] = t
             /\ backups[b] # None /\ t \in backups[b].has
             /\ Own(p) => b = bk[p]]_vars
  BY <1>1
<1> QED
  BY <1>2, Inductive, PTL DEF Spec, DropNeedsCopy
=============================================================================
