-------------------------- MODULE TenantGitOpsProofs --------------------------
(***************************************************************************)
(* The isolation of passwords survives the control loops, and so does what *)
(* the verbs keep true of cluster.yaml.                                    *)
(***************************************************************************)
EXTENDS TenantGitOps, TenantVerbsProofs

GTypeOK ==
    /\ committed.file \in [SecretNames -> Credential \cup {None}]
    /\ managed \subseteq Tenants
    /\ committed.roles \subseteq Tenants

GInv == IsolationInv /\ GTypeOK /\ CommittedIsolation

LEMMA GInvInductive ==
  ASSUME DistinctNames
  PROVE  GSpec => []GInv
<1> USE SecretNameAssumption, NoneAssumption
<1>1. GInit => GInv
  <2>1. GInit => IsolationInv
    BY DEF GInit, Init, IsolationInv, IdleForgets, PasswordIsolation, TypeOK, Owners,
           Labels, Unreadable, NeedsPassword
  <2> QED
    BY <2>1 DEF GInit, Init, GInv, GTypeOK, CommittedIsolation
<1>2. GInv /\ [GNext]_gvars => GInv'
  <2> SUFFICES ASSUME GInv, [GNext]_gvars
               PROVE  GInv'
    OBVIOUS
  <2>1. CASE UNCHANGED vars /\ UNCHANGED <<committed, managed>>
    BY <2>1 DEF vars, GInv, GTypeOK, CommittedIsolation, IsolationInv, TypeOK,
       IdleForgets, PasswordIsolation
  <2>2. CASE Next /\ UNCHANGED <<committed, managed>>
    <3>1. IsolationInv'
      BY <2>2, TypeStep, IsolationStep DEF GInv, IsolationInv
    <3> QED
      BY <2>2, <3>1 DEF GInv, GTypeOK, CommittedIsolation
  <2>3. CASE Commit
    <3>1. IsolationInv'
      BY <2>3 DEF Commit, vars, GInv, IsolationInv, TypeOK, IdleForgets,
         PasswordIsolation
    <3>2. GTypeOK' /\ CommittedIsolation'
      BY <2>3 DEF Commit, vars, GInv, GTypeOK, CommittedIsolation, IsolationInv,
         TypeOK, PasswordIsolation, Unreadable
    <3> QED
      BY <3>1, <3>2 DEF GInv
  <2>4. ASSUME NEW n \in SecretNames, SyncSecret(n)
        PROVE  GInv'
    <3>1. TypeOK'
      BY <2>4 DEF SyncSecret, WriteSecret, local, GInv, GTypeOK, IsolationInv, TypeOK
    <3>2. \A t \in Tenants : SecretNameOf[t] = n =>
             secret'[n] = None \/ (secret'[n].user = t /\ secret'[n].pw.for = t)
      BY <2>4 DEF SyncSecret, WriteSecret, GInv, CommittedIsolation, IsolationInv,
         TypeOK
    <3>3. PasswordIsolation'
      BY <2>4, <3>2 DEF SyncSecret, WriteSecret, local, GInv, IsolationInv, TypeOK,
         PasswordIsolation
    <3>4. IdleForgets' /\ GTypeOK' /\ CommittedIsolation'
      BY <2>4 DEF SyncSecret, local, GInv, GTypeOK, CommittedIsolation, IsolationInv,
         IdleForgets
    <3> QED
      BY <3>1, <3>3, <3>4 DEF GInv, IsolationInv
  <2>5. CASE SyncCluster
    BY <2>5 DEF SyncCluster, vars, GInv, GTypeOK, CommittedIsolation, IsolationInv,
       TypeOK, IdleForgets, PasswordIsolation
  <2>6. ASSUME NEW t \in Tenants, ReconcileRole(t)
        PROVE  GInv'
    <3>1. secret[SecretNameOf[t]].pw \in Password /\ secret[SecretNameOf[t]].pw.for = t
      BY <2>6 DEF ReconcileRole, GInv, IsolationInv, TypeOK, PasswordIsolation,
         Credential
    <3>2. IsolationInv'
      BY <2>6, <3>1 DEF ReconcileRole, local, GInv, IsolationInv, TypeOK, IdleForgets,
         PasswordIsolation
    <3> QED
      BY <2>6, <3>2 DEF ReconcileRole, GInv, GTypeOK, CommittedIsolation
  <2> QED
    BY <2>1, <2>2, <2>3, <2>4, <2>5, <2>6 DEF GNext, Controllers, gvars
<1> QED
  BY <1>1, <1>2, PTL DEF GSpec

\* With a GitOps controller that reverts Secrets and an operator that resets
\* roles between any two calls, no password crosses to another tenant.
THEOREM PasswordsIsolatedUnderControllers ==
  ASSUME DistinctNames
  PROVE  GSpec => [](PasswordIsolation /\ CommittedIsolation)
<1>1. GInv => PasswordIsolation /\ CommittedIsolation
  BY DEF GInv, IsolationInv
<1> QED
  BY <1>1, GInvInductive, PTL

-----------------------------------------------------------------------------
(* cluster.yaml *)

\* What the manifest needs of a state.  CompletionInv is no part of it: with the
\* controllers about, a Secret or a role may be back as soon as it is dropped.
GManifestInv == GInv /\ IdleAlone /\ OwnSteps /\ ManifestInv

\* A commit and the controllers read the workspace and never write it.
LEMMA ControllersSpareWorkspace ==
  ASSUME Commit \/ Controllers
  PROVE  UNCHANGED <<file, manifest, pc, verb, app, pw, snap, alone>>
BY DEF Commit, Controllers, SyncSecret, WriteSecret, SyncCluster, ReconcileRole, vars,
   local

\* A verb's step and a controller's keep GManifestInv when one verb runs at a time.
LEMMA GManifestStep ==
  ASSUME DistinctNames, NEW self, Procs = {self},
         GManifestInv, GInv', [GNext]_gvars
  PROVE  GManifestInv'
<1>1. TypeOK /\ TypeOK' /\ IdleAlone /\ OwnSteps /\ ManifestInv
  BY DEF GManifestInv, GInv, IsolationInv
<1>2. CASE [Next]_vars
  <2>1. IdleAlone' /\ OwnSteps'
    BY <1>1, <1>2, OwnStepsStep
  <2>2. ManifestInv'
    BY <1>1, <1>2, <2>1, ManifestStep
  <2> QED
    BY <2>1, <2>2 DEF GManifestInv
<1>3. CASE Commit \/ Controllers
  <2>1. UNCHANGED <<file, manifest, pc, verb, app, pw, snap, alone>>
    BY <1>3, ControllersSpareWorkspace
  <2>2. IdleAlone' /\ OwnSteps'
    BY <1>1, <2>1 DEF IdleAlone, OwnSteps
  <2>3. ManifestInv'
    BY <1>1, <2>1 DEF ManifestInv, EditInv, ListedHasFile, WithFile
  <2> QED
    BY <2>2, <2>3 DEF GManifestInv
<1> QED
  BY <1>2, <1>3 DEF GNext, gvars

LEMMA GManifestInductive ==
  ASSUME DistinctNames, NEW CONSTANT self, Procs = {self}
  PROVE  GSpec => []GManifestInv
<1>1. GInit /\ GInv => GManifestInv
  BY NoneAssumption
     DEF GInit, Init, GManifestInv, IdleAlone, OwnSteps, ManifestInv, EditInv,
         ListedHasFile, Verbs, Editing
<1>2. GManifestInv /\ GInv' /\ [GNext]_gvars => GManifestInv'
  BY GManifestStep
<1> QED
  BY <1>1, <1>2, GInvInductive, PTL DEF GSpec

\* With commits and controllers between any two calls, and one verb at a time: a role
\* that cluster.yaml lists has its SOPS file, so that what is committed after any
\* failed verb can be applied.
THEOREM ListedRolesHaveFilesUnderControllers ==
  ASSUME DistinctNames, NEW CONSTANT self, Procs = {self}
  PROVE  GSpec => []ListedHasFile
<1>1. GManifestInv => ListedHasFile
  BY DEF GManifestInv, ManifestInv
<1> QED
  BY <1>1, GManifestInductive, PTL

\* Under the same conditions a Provision that succeeds has listed its own tenant, and
\* a Drop that succeeds has unlisted it (AppendRole and RemoveRole).
THEOREM ManifestIsUpdatedUnderControllers ==
  ASSUME DistinctNames, NEW CONSTANT self, Procs = {self}
  PROVE  GSpec => []ManifestUpdated
<1>1. GManifestInv => ManifestUpdated
  BY DEF GManifestInv, ManifestInv, EditInv, ManifestUpdated, Succeeded
<1> QED
  BY <1>1, GManifestInductive, PTL

\* Under the same conditions no edit of cluster.yaml adds or loses the entry of
\* another tenant: neither a commit nor a controller writes the file.
THEOREM EntriesAreKeptUnderControllers ==
  ASSUME DistinctNames, NEW CONSTANT self, Procs = {self}
  PROVE  GSpec => EntriesKept
<1>1. GManifestInv /\ [GNext]_gvars =>
        [Entries \notin Unreadable /\ Entries' \notin Unreadable =>
             \A t \in Tenants :
                 (\A p \in Procs : app[p] # t) => (t \in Entries <=> t \in Entries')]_vars
  <2> SUFFICES ASSUME GManifestInv, [GNext]_gvars,
                      Entries \notin Unreadable, Entries' \notin Unreadable,
                      NEW t \in Tenants, app[self] # t
               PROVE  t \in Entries <=> t \in Entries'
    OBVIOUS
  <2>1. CASE [Next]_vars
    BY <2>1, EntriesStep DEF GManifestInv, GInv, IsolationInv
  <2>2. CASE Commit \/ Controllers
    BY <2>2, ControllersSpareWorkspace DEF Entries
  <2> QED
    BY <2>1, <2>2 DEF GNext, gvars
<1> QED
  BY <1>1, GManifestInductive, PTL DEF GSpec, EntriesKept

-----------------------------------------------------------------------------
(* How the controllers bring the stores together: what Converges rests on   *)
(* besides fairness.                                                        *)

\* The steps of the controllers that bear on t.
Repair(t) == SyncSecret(SecretNameOf[t]) \/ SyncCluster \/ ReconcileRole(t)

\* The guard of one of them holds.
Due(t) ==
    LET n == SecretNameOf[t] IN
    \/ committed.file[n] \notin {None, secret[n]}
    \/ managed # committed.roles
    \/ t \in managed /\ secret[n] # None /\ role[t] # secret[n].pw

SecretOff(t) == secret[SecretNameOf[t]] # committed.file[SecretNameOf[t]]
RolesOff == managed # committed.roles
RoleOff(t) ==
    LET s == secret[SecretNameOf[t]] IN s # None /\ role[t] # s.pw

\* How far the stores are from agreement, by the order in which the controllers
\* must act: a Secret that is brought back may leave the role behind.
Distance(t) ==
      (IF SecretOff(t) THEN 4 ELSE 0)
    + (IF RolesOff THEN 2 ELSE 0)
    + (IF RoleOff(t) THEN 1 ELSE 0)

\* While no verb runs no call of one is made.
LEMMA QuietStep ==
  ASSUME TypeOK, Quiet, Quiet', [Next]_vars
  PROVE  UNCHANGED vars
<1>1. ASSUME NEW p \in Procs, NEW v \in Verbs, NEW t \in Tenants, Start(p, v, t)
      PROVE  FALSE
  <2>1. FirstStep(v) # "idle"
    BY DEF FirstStep, Verbs
  <2>2. pc'[p] = FirstStep(v)
    BY <1>1 DEF Start, Goto, TypeOK
  <2> QED
    BY <2>1, <2>2 DEF Quiet
<1>2. ASSUME NEW p \in Procs, Step(p) \/ Finish(p) \/ Fail(p)
      PROVE  FALSE
  <2>1. pc[p] = "idle"
    BY DEF Quiet
  <2> QED
    BY <1>2, <2>1
       DEF Step, Finish, Fail, Steps, ReuseFile, NewFile, WriteFile, RemoveFile,
           GetSecret, CreateSecret, UpdateSecret, DeleteSecret, EnsureRole,
           QueryDatabase, CreateDatabase, AlterDatabase, GrantConnect, GrantPublic,
           RoleExists, AlterRole, DropDatabase, DropRole, ReadManifest,
           TruncateManifest, WriteManifest
<1> QED
  BY <1>1, <1>2 DEF Next

\* While the workspace stays committed and untouched, every step of a controller
\* that bears on the tenant strictly lessens the distance, no step of another
\* increases it, and agreement once reached stays.
Approaches ==
    [][\A t \in Tenants : Settled(t) /\ Settled(t)' =>
          /\ Distance(t)' <= Distance(t)
          /\ Repair(t) => Distance(t)' < Distance(t)
          /\ InAgreement(t) => InAgreement(t)']_gvars

LEMMA ApproachStep ==
  ASSUME TypeOK, GTypeOK, [GNext]_gvars, NEW t \in Tenants, Settled(t), Settled(t)'
  PROVE  /\ Distance(t)' <= Distance(t)
         /\ Repair(t) => Distance(t)' < Distance(t)
         /\ InAgreement(t) => InAgreement(t)'
<1> DEFINE n == SecretNameOf[t]
<1> USE SecretNameAssumption
<1>0. n \in SecretNames /\ committed' = committed /\ file' = file
  <2>1. committed' = committed
    BY DEF GNext, gvars, Commit, Controllers, SyncSecret, SyncCluster, ReconcileRole,
           Settled
  <2>2. committed.file = file /\ committed'.file = file'
    BY DEF Settled
  <2> QED
    BY <2>1, <2>2
<1>1. CASE UNCHANGED <<secret, role, managed>>
  <2>1. /\ SecretOff(t)' = SecretOff(t)
        /\ RolesOff' = RolesOff
        /\ RoleOff(t)' = RoleOff(t)
        /\ InAgreement(t)' = InAgreement(t)
    BY <1>0, <1>1 DEF SecretOff, RolesOff, RoleOff, InAgreement
  <2>2. ~ Repair(t)
    BY <1>0, <1>1
       DEF Repair, SyncSecret, WriteSecret, SyncCluster, ReconcileRole, TypeOK
  <2> QED
    BY <2>1, <2>2 DEF Distance
<1>2. CASE SyncSecret(n)
  <2>1. /\ SecretOff(t) /\ ~ SecretOff(t)'
        /\ RolesOff' = RolesOff
        /\ ~ InAgreement(t)
    BY <1>0, <1>2
       DEF SyncSecret, WriteSecret, TypeOK, SecretOff, RolesOff, InAgreement, Settled
  <2> QED
    BY <2>1 DEF Distance
<1>3. ASSUME NEW m \in SecretNames, SyncSecret(m), m # n
      PROVE  UNCHANGED <<secret[n], role, managed>> /\ ~ Repair(t)
  BY <1>0, <1>3
     DEF Repair, SyncSecret, WriteSecret, SyncCluster, ReconcileRole, TypeOK
<1>4. CASE SyncCluster
  <2>1. /\ RolesOff /\ ~ RolesOff'
        /\ SecretOff(t)' = SecretOff(t)
        /\ RoleOff(t)' = RoleOff(t)
        /\ InAgreement(t)' = InAgreement(t)
    BY <1>0, <1>4 DEF SyncCluster, vars, SecretOff, RolesOff, RoleOff, InAgreement
  <2> QED
    BY <2>1 DEF Distance
<1>5. CASE ReconcileRole(t)
  <2>1. /\ RoleOff(t) /\ ~ RoleOff(t)'
        /\ SecretOff(t)' = SecretOff(t)
        /\ RolesOff' = RolesOff
        /\ ~ InAgreement(t)
    BY <1>0, <1>5
       DEF ReconcileRole, TypeOK, SecretOff, RolesOff, RoleOff, InAgreement
  <2> QED
    BY <2>1 DEF Distance
<1>6. ASSUME NEW u \in Tenants, ReconcileRole(u), u # t
      PROVE  UNCHANGED <<secret, role[t], managed>> /\ ~ Repair(t)
  BY <1>0, <1>6
     DEF Repair, SyncSecret, WriteSecret, SyncCluster, ReconcileRole, TypeOK
<1>7. ASSUME UNCHANGED <<secret[n], role[t], managed>>, ~ Repair(t)
      PROVE  Distance(t)' <= Distance(t) /\ (InAgreement(t) => InAgreement(t)')
  <2>1. /\ SecretOff(t)' = SecretOff(t)
        /\ RolesOff' = RolesOff
        /\ RoleOff(t)' = RoleOff(t)
        /\ InAgreement(t)' = InAgreement(t)
    BY <1>0, <1>7 DEF SecretOff, RolesOff, RoleOff, InAgreement
  <2> QED
    BY <2>1 DEF Distance
<1>8. CASE [Next]_vars /\ UNCHANGED <<committed, managed>>
  BY <1>1, <1>8, QuietStep DEF Settled, vars
<1>9. CASE Commit
  BY <1>1, <1>9 DEF Commit, vars
<1> QED
  BY <1>0, <1>2, <1>3, <1>4, <1>5, <1>6, <1>7, <1>8, <1>9
     DEF GNext, Controllers, gvars

\* Converges without its fairness: once the workspace is settled the controllers
\* never undo each other's work on a tenant, and after at most seven of their steps
\* on it they are through.
THEOREM ControllersApproach ==
  ASSUME DistinctNames
  PROVE  GSpec => Approaches
<1>1. GInv /\ [GNext]_gvars
        => [\A t \in Tenants : Settled(t) /\ Settled(t)' =>
               /\ Distance(t)' <= Distance(t)
               /\ Repair(t) => Distance(t)' < Distance(t)
               /\ InAgreement(t) => InAgreement(t)']_gvars
  BY ApproachStep DEF GInv, IsolationInv
<1> QED
  BY <1>1, GInvInductive, PTL DEF GSpec, Approaches

\* They are not through before the stores agree: in every settled state a
\* controller has work to do, or the file, the Secret and the role of the tenant hold
\* one password.  Here the order of the verbs matters: a listed role without a file
\* would leave the controllers with nothing to apply.
THEOREM NothingDueMeansAgreement ==
  ASSUME DistinctNames, NEW CONSTANT self, Procs = {self}
  PROVE  GSpec => [](\A t \in Tenants : Settled(t) => Due(t) \/ InAgreement(t))
<1>1. GManifestInv => \A t \in Tenants : Settled(t) => Due(t) \/ InAgreement(t)
  <2> SUFFICES ASSUME GManifestInv, NEW t \in Tenants, Settled(t), ~ Due(t)
               PROVE  InAgreement(t)
    OBVIOUS
  <2>1. file[SecretNameOf[t]] # None
    BY DEF GManifestInv, ManifestInv, ListedHasFile, Settled
  <2>2. secret[SecretNameOf[t]] = file[SecretNameOf[t]] /\ t \in managed
    BY <2>1 DEF Due, Settled
  <2> QED
    BY <2>1, <2>2 DEF Due, InAgreement
<1> QED
  BY <1>1, GManifestInductive, PTL

-----------------------------------------------------------------------------
(* How a re-run of Drop repairs what the controllers brought back: what     *)
(* DropSettles rests on besides fairness, for any number of processes.      *)

\* The controllers have nothing of t to bring back.
Released(t) == Unlisted(t) /\ t \notin managed

\* A Drop of t by p without company has achieved what its next call presumes.
OnCourse(p, t) == alone[p] /\ verb[p] = "drop" /\ app[p] = t => DropSoFar(p)

CompanyInv == GInv /\ IdleAlone /\ OwnSteps /\ Private

LEMMA PrivateStep ==
  ASSUME DistinctNames, TypeOK, IdleAlone, Private, [Next]_vars
  PROVE  Private'
<1>1. CASE UNCHANGED vars
  BY <1>1 DEF vars, Private
<1>2. ASSUME NEW p \in Procs, NEW v \in Verbs, NEW t \in Tenants, Start(p, v, t)
      PROVE  Private'
  BY <1>2 DEF Start, Private, TypeOK
<1>3. ASSUME NEW p \in Procs, Leave(p)
      PROVE  Private'
  <2>1. /\ \A q \in Procs \ {p} : app'[q] = app[q] /\ alone'[q] = alone[q]
        /\ app'[p] = None /\ ~alone'[p]
    BY <1>3 DEF Leave, TypeOK
  <2>2. \A q \in Procs : alone[q] => app[q] \in Tenants
    BY DEF IdleAlone, TypeOK
  <2> QED
    BY <2>1, <2>2, NoneAssumption DEF Private
<1>4. ASSUME NEW p \in Procs, Step(p)
      PROVE  Private'
  BY <1>4, StepFrame DEF Private
<1> QED
  BY <1>1, <1>2, <1>3, <1>4 DEF Next, Finish, Fail

LEMMA CompanyInductive ==
  ASSUME DistinctNames
  PROVE  GSpec => []CompanyInv
<1>1. GInit /\ GInv => CompanyInv
  BY NoneAssumption
     DEF GInit, Init, CompanyInv, IdleAlone, OwnSteps, Private, Verbs
<1>2. CompanyInv /\ GInv' /\ [GNext]_gvars => CompanyInv'
  <2> SUFFICES ASSUME CompanyInv, GInv', [GNext]_gvars
               PROVE  IdleAlone' /\ OwnSteps' /\ Private'
    BY DEF CompanyInv
  <2>1. TypeOK /\ TypeOK' /\ IdleAlone /\ OwnSteps /\ Private
    BY DEF CompanyInv, GInv, IsolationInv
  <2>2. CASE [Next]_vars
    BY <2>1, <2>2, OwnStepsStep, PrivateStep
  <2>3. CASE Commit \/ Controllers
    BY <2>1, <2>3, ControllersSpareWorkspace DEF IdleAlone, OwnSteps, Private
  <2> QED
    BY <2>2, <2>3 DEF GNext, gvars
<1> QED
  BY <1>1, <1>2, GInvInductive, PTL DEF GSpec

\* A call of a Drop without company achieves what its next call presumes.
LEMMA DropStep ==
  ASSUME DistinctNames, TypeOK, OwnSteps,
         NEW p \in Procs, verb[p] = "drop", DropSoFar(p), Step(p)
  PROVE  DropSoFar(p)'
<1>0. app[p] \in Tenants /\ app' = app /\ pc[p] \in DropSteps
  BY StepFrame DEF OwnSteps
<1> USE <1>0, SecretNameAssumption
        DEF DropSoFar, TypeOK, Goto, DropSteps, stores, local
<1>1. CASE DropDatabase(p)
  BY <1>1 DEF DropDatabase
<1>2. CASE DropRole(p)
  BY <1>2 DEF DropRole
<1>3. CASE DeleteSecret(p)
  BY <1>3 DEF DeleteSecret, WriteSecret, SecretOf
<1>4. CASE ReadManifest(p)
  BY <1>4 DEF ReadManifest
<1>5. CASE TruncateManifest(p)
  BY <1>5 DEF TruncateManifest
<1>6. CASE WriteManifest(p)
  BY <1>6 DEF WriteManifest, AfterManifest
<1>7. CASE RemoveFile(p)
  BY <1>7 DEF RemoveFile, PathOf
<1> QED
  BY <1>1, <1>2, <1>3, <1>4, <1>5, <1>6, <1>7
     DEF Step, ReuseFile, NewFile, WriteFile, GetSecret, CreateSecret, UpdateSecret,
         EnsureRole, QueryDatabase, CreateDatabase, AlterDatabase, GrantConnect,
         GrantPublic, RoleExists, AlterRole

\* Nothing throws a Drop off its course while the tenant is released: not a call of
\* another verb, not a commit, not a controller.
LEMMA CourseStep ==
  ASSUME DistinctNames, CompanyInv, [GNext]_gvars,
         NEW t \in Tenants, Released(t), NEW p \in Procs, OnCourse(p, t)
  PROVE  OnCourse(p, t)'
<1>0. TypeOK /\ IdleAlone /\ OwnSteps /\ Private
  BY DEF CompanyInv, GInv, IsolationInv
<1> USE SecretNameAssumption
<1>1. ASSUME UNCHANGED <<alone[p], verb[p], app[p], pc[p]>>,
             app[p] = t => Holdings(t)' = Holdings(t)
      PROVE  OnCourse(p, t)'
  BY <1>1 DEF OnCourse, DropSoFar, Holdings
<1>2. CASE UNCHANGED vars
  BY <1>1, <1>2 DEF vars, Holdings
<1>3. ASSUME NEW q \in Procs, NEW v \in Verbs, NEW u \in Tenants, Start(q, v, u)
      PROVE  OnCourse(p, t)'
  <2>1. CASE q = p
    BY <1>0, <1>3, <2>1
       DEF Start, Goto, FirstStep, OnCourse, DropSoFar, TypeOK
  <2>2. CASE q # p
    <3>1. /\ UNCHANGED <<verb[p], app[p], pc[p], file, secret, role, db, grants>>
          /\ alone'[p] => alone[p]
      BY <1>0, <1>3, <2>2 DEF Start, Goto, stores, TypeOK
    <3> QED
      BY <3>1 DEF OnCourse, DropSoFar
  <2> QED
    BY <2>1, <2>2
<1>4. ASSUME NEW q \in Procs, Leave(q)
      PROVE  OnCourse(p, t)'
  <2>1. CASE q = p
    BY <1>0, <1>4, <2>1 DEF Leave, OnCourse, TypeOK
  <2>2. CASE q # p
    BY <1>0, <1>1, <1>4, <2>2 DEF Leave, Goto, stores, Holdings, TypeOK
  <2> QED
    BY <2>1, <2>2
<1>5. ASSUME NEW q \in Procs, Step(q)
      PROVE  OnCourse(p, t)'
  <2>1. UNCHANGED <<alone, verb, app>>
    BY <1>0, <1>5, StepFrame
  <2>2. CASE q = p
    BY <1>0, <1>5, <2>1, <2>2, DropStep DEF OnCourse
  <2>3. CASE q # p /\ alone[p]
    <3>1. app[p] = t => t \in Tenants \ {app[q]}
      BY <1>0, <2>3 DEF Private
    <3>2. app[p] = t => Holdings(t)' = Holdings(t)
      BY <1>0, <1>5, <3>1, StepFrame DEF Holdings
    <3>3. pc'[p] = pc[p]
      BY <1>0, <1>5, <2>3, StepFrame
    <3> QED
      BY <1>1, <2>1, <3>2, <3>3
  <2>4. CASE ~ alone[p]
    BY <2>1, <2>4 DEF OnCourse
  <2> QED
    BY <2>2, <2>3, <2>4
<1>6. CASE Commit
  BY <1>2, <1>6 DEF Commit
<1>7. ASSUME NEW n \in SecretNames, SyncSecret(n)
      PROVE  OnCourse(p, t)'
  <2>1. n # SecretNameOf[t]
    BY <1>7 DEF SyncSecret, Released, Unlisted
  <2> QED
    BY <1>0, <1>1, <1>7, <2>1
       DEF SyncSecret, WriteSecret, local, Holdings, TypeOK
<1>8. CASE SyncCluster
  BY <1>2, <1>8 DEF SyncCluster
<1>9. ASSUME NEW u \in Tenants, ReconcileRole(u)
      PROVE  OnCourse(p, t)'
  <2>1. u # t
    BY <1>9 DEF ReconcileRole, Released
  <2> QED
    BY <1>0, <1>1, <1>9, <2>1 DEF ReconcileRole, local, Holdings, TypeOK
<1> QED
  BY <1>2, <1>3, <1>4, <1>5, <1>6, <1>7, <1>8, <1>9
     DEF GNext, gvars, Controllers, Next, Finish, Fail

\* A committed workspace without the tenant lets go of it for good, and then no step
\* throws a Drop of it off its course.
DropsRepair ==
    [][\A t \in Tenants : Released(t) /\ Unlisted(t)' =>
          /\ Released(t)'
          /\ \A p \in Procs : OnCourse(p, t) => OnCourse(p, t)']_gvars

\* DropSettles without its fairness, for any number of verbs at once: every Drop that
\* starts afresh is on its course, stays on it once the tenant is released, and leaves
\* nothing of the tenant if it succeeds on it.
THEOREM RepeatedDropsRepair ==
  ASSUME DistinctNames
  PROVE  GSpec => /\ DropsRepair
                  /\ [](\A t \in Tenants, p \in Procs :
                          /\ pc[p] = "idle" => OnCourse(p, t)
                          /\ OnCourse(p, t) /\ Succeeded(p, "drop") /\ app[p] = t
                                => Gone(t))
<1> DEFINE Ends == \A t \in Tenants, p \in Procs :
                       /\ pc[p] = "idle" => OnCourse(p, t)
                       /\ OnCourse(p, t) /\ Succeeded(p, "drop") /\ app[p] = t => Gone(t)
<1>1. CompanyInv => Ends
  BY DEF CompanyInv, IdleAlone, OnCourse, DropSoFar, Succeeded, Gone
<1>2. CompanyInv /\ [GNext]_gvars
        => [\A t \in Tenants : Released(t) /\ Unlisted(t)' =>
               /\ Released(t)'
               /\ \A p \in Procs : OnCourse(p, t) => OnCourse(p, t)']_gvars
  <2>1. ASSUME [GNext]_gvars, NEW t \in Tenants, Released(t), Unlisted(t)'
        PROVE  Released(t)'
    BY <2>1 DEF GNext, gvars, Commit, Controllers, SyncSecret, SyncCluster,
       ReconcileRole, Released, Unlisted
  <2> QED
    BY <2>1, CourseStep
<1> QED
  BY <1>1, <1>2, CompanyInductive, PTL DEF GSpec, DropsRepair
=============================================================================
