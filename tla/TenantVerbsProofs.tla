--------------------------- MODULE TenantVerbsProofs ---------------------------
(***************************************************************************)
(* Theorems of TenantVerbs, for every set of tenants and processes and     *)
(* every assignment of Secret names.                                       *)
(***************************************************************************)
EXTENDS TenantVerbs, TLAPS

-----------------------------------------------------------------------------
(* Types *)

\* Any step, of any process, keeps the types.
LEMMA TypeStep == TypeOK /\ [Next]_vars => TypeOK'
<1> SUFFICES ASSUME TypeOK, [Next]_vars
             PROVE  TypeOK'
  OBVIOUS
<1> USE SecretNameAssumption
<1>1. CASE UNCHANGED vars
  BY <1>1 DEF vars, TypeOK
<1>2. ASSUME NEW p \in Procs, NEW v \in Verbs, NEW t \in Tenants, Start(p, v, t)
      PROVE  TypeOK'
  BY <1>2 DEF Start, Goto, FirstStep, TypeOK, stores, Labels, Steps, Verbs,
              NeedsPassword
<1>3. ASSUME NEW p \in Procs, Leave(p)
      PROVE  TypeOK'
  BY <1>3 DEF Leave, Goto, TypeOK, stores, Labels, NeedsPassword
<1>4. ASSUME NEW p \in Procs, Step(p)
      PROVE  TypeOK'
  <2> USE DEF Goto, TypeOK, stores, local, Labels, Steps, NeedsPassword
  <2>1. CASE ReuseFile(p)
    BY <2>1 DEF ReuseFile, PathOf, Credential
  <2>2. CASE NewFile(p)
    BY <2>2 DEF NewFile, GeneratePassword, Password
  <2>3. CASE WriteFile(p)
    BY <2>3 DEF WriteFile, PathOf, Cred, AfterFile, Credential
  <2>4. CASE RemoveFile(p)
    BY <2>4 DEF RemoveFile, PathOf
  <2>5. CASE GetSecret(p)
    BY <2>5 DEF GetSecret, SecretOf, Cred, AfterSecret
  <2>6. CASE CreateSecret(p)
    BY <2>6 DEF CreateSecret, SecretOf, Cred, WriteSecret, AfterSecret, Credential
  <2>7. CASE UpdateSecret(p)
    BY <2>7 DEF UpdateSecret, SecretOf, Cred, WriteSecret, AfterSecret, Credential
  <2>8. CASE DeleteSecret(p)
    BY <2>8 DEF DeleteSecret, SecretOf, WriteSecret
  <2>9. CASE EnsureRole(p)
    BY <2>9 DEF EnsureRole
  <2>10. CASE QueryDatabase(p)
    BY <2>10 DEF QueryDatabase
  <2>11. CASE CreateDatabase(p)
    BY <2>11 DEF CreateDatabase, Owners
  <2>12. CASE AlterDatabase(p)
    BY <2>12 DEF AlterDatabase, Owners
  <2>13. CASE GrantConnect(p)
    BY <2>13 DEF GrantConnect, Grant, Privileges
  <2>14. CASE GrantPublic(p)
    BY <2>14 DEF GrantPublic, Grant, Privileges
  <2>15. CASE RoleExists(p)
    BY <2>15 DEF RoleExists, GeneratePassword, Password
  <2>16. CASE AlterRole(p)
    BY <2>16 DEF AlterRole
  <2>17. CASE DropDatabase(p)
    BY <2>17 DEF DropDatabase, Owners
  <2>18. CASE DropRole(p)
    BY <2>18 DEF DropRole
  <2>19. CASE ReadManifest(p)
    <3>1. Edited(p) \in SUBSET Tenants
      BY <2>19 DEF ReadManifest, Edited, Unreadable
    <3> QED
      BY <2>19, <3>1 DEF ReadManifest
  <2>20. CASE TruncateManifest(p)
    BY <2>20 DEF TruncateManifest, Unreadable
  <2>21. CASE WriteManifest(p)
    BY <2>21 DEF WriteManifest, AfterManifest, Unreadable
  <2> QED
    BY <1>4, <2>1, <2>2, <2>3, <2>4, <2>5, <2>6, <2>7, <2>8, <2>9, <2>10, <2>11,
       <2>12, <2>13, <2>14, <2>15, <2>16, <2>17, <2>18, <2>19,
       <2>20, <2>21 DEF Step
<1> QED
  BY <1>1, <1>2, <1>3, <1>4 DEF Next, Finish, Fail

\* Every state of every execution is well typed, and a running verb has its
\* tenant and the password its next call needs.
THEOREM TypeCorrect == Spec => []TypeOK
<1>1. Init => TypeOK
  BY SecretNameAssumption
     DEF Init, TypeOK, Owners, Labels, Unreadable, NeedsPassword
<1> QED
  BY <1>1, TypeStep, PTL DEF Spec


-----------------------------------------------------------------------------
(* Password isolation *)

\* Between two verbs a process remembers nothing of the last one.
IdleForgets == \A p \in Procs : pc[p] = "idle" => app[p] = None /\ pw[p] = None

IsolationInv == TypeOK /\ IdleForgets /\ PasswordIsolation

\* Any step keeps passwords where they belong when Secret names are distinct.
LEMMA IsolationStep ==
  ASSUME DistinctNames
  PROVE  IsolationInv /\ TypeOK' /\ [Next]_vars => IsolationInv'
<1> SUFFICES ASSUME IsolationInv, TypeOK', [Next]_vars
             PROVE  IsolationInv'
  OBVIOUS
<1> USE SecretNameAssumption, NoneAssumption DEF IsolationInv
<1>1. CASE UNCHANGED vars
  BY <1>1 DEF vars, IdleForgets, PasswordIsolation
<1>2. ASSUME NEW p \in Procs, NEW v \in Verbs, NEW t \in Tenants, Start(p, v, t)
      PROVE  IsolationInv'
  <2>1. FirstStep(v) # "idle"
    BY DEF FirstStep, Verbs
  <2>2. /\ pc' = [pc EXCEPT ![p] = FirstStep(v)]
        /\ app' = [app EXCEPT ![p] = t]
        /\ UNCHANGED <<file, secret, role, pw>>
        /\ pw[p] = None
    BY <1>2 DEF Start, Goto, stores, IdleForgets
  <2>3. IdleForgets'
    BY <2>1, <2>2 DEF IdleForgets, TypeOK
  <2>4. PasswordIsolation'
    BY <2>2 DEF PasswordIsolation, TypeOK
  <2> QED
    BY <2>3, <2>4
<1>3. ASSUME NEW p \in Procs, Leave(p)
      PROVE  IsolationInv'
  BY <1>3 DEF Leave, Goto, TypeOK, stores, IdleForgets, PasswordIsolation
<1>4. ASSUME NEW p \in Procs, Step(p)
      PROVE  IsolationInv'
  <2>0. /\ app[p] \in Tenants /\ pc[p] # "idle"
        /\ pc[p] \in NeedsPassword => pw[p] \in Password
    BY <1>4 DEF Step, TypeOK, ReuseFile, NewFile, WriteFile, RemoveFile, GetSecret,
       CreateSecret, UpdateSecret, DeleteSecret, EnsureRole, QueryDatabase,
       CreateDatabase, AlterDatabase, GrantConnect, GrantPublic, RoleExists,
       AlterRole, DropDatabase, DropRole, ReadManifest, TruncateManifest,
       WriteManifest
  <2> USE <2>0 DEF Goto, TypeOK, IdleForgets, PasswordIsolation, stores, local
  <2>1. CASE ReuseFile(p)
    BY <2>1 DEF ReuseFile, PathOf, Credential
  <2>2. CASE NewFile(p)
    BY <2>2 DEF NewFile, GeneratePassword, Password
  <2>3. CASE WriteFile(p)
    BY <2>3 DEF WriteFile, PathOf, Cred, AfterFile, DistinctNames, NeedsPassword
  <2>4. CASE RemoveFile(p)
    BY <2>4 DEF RemoveFile, PathOf
  <2>5. CASE GetSecret(p)
    BY <2>5 DEF GetSecret, SecretOf, Cred, AfterSecret
  <2>6. CASE CreateSecret(p)
    BY <2>6 DEF CreateSecret, SecretOf, Cred, WriteSecret, AfterSecret,
                DistinctNames, NeedsPassword
  <2>7. CASE UpdateSecret(p)
    BY <2>7 DEF UpdateSecret, SecretOf, Cred, WriteSecret, AfterSecret,
                DistinctNames, NeedsPassword
  <2>8. CASE DeleteSecret(p)
    BY <2>8 DEF DeleteSecret, SecretOf, WriteSecret
  <2>9. CASE EnsureRole(p)
    BY <2>9 DEF EnsureRole, NeedsPassword, Password
  <2>10. CASE QueryDatabase(p)
    BY <2>10 DEF QueryDatabase
  <2>11. CASE CreateDatabase(p)
    BY <2>11 DEF CreateDatabase
  <2>12. CASE AlterDatabase(p)
    BY <2>12 DEF AlterDatabase
  <2>13. CASE GrantConnect(p)
    BY <2>13 DEF GrantConnect, Grant
  <2>14. CASE GrantPublic(p)
    BY <2>14 DEF GrantPublic, Grant
  <2>15. CASE RoleExists(p)
    BY <2>15 DEF RoleExists, GeneratePassword, Password
  <2>16. CASE AlterRole(p)
    BY <2>16 DEF AlterRole, NeedsPassword, Password
  <2>17. CASE DropDatabase(p)
    BY <2>17 DEF DropDatabase
  <2>18. CASE DropRole(p)
    BY <2>18 DEF DropRole
  <2>19. CASE ReadManifest(p)
    BY <2>19 DEF ReadManifest, Edited
  <2>20. CASE TruncateManifest(p)
    BY <2>20 DEF TruncateManifest
  <2>21. CASE WriteManifest(p)
    BY <2>21 DEF WriteManifest, AfterManifest
  <2> QED
    BY <1>4, <2>1, <2>2, <2>3, <2>4, <2>5, <2>6, <2>7, <2>8, <2>9, <2>10, <2>11,
       <2>12, <2>13, <2>14, <2>15, <2>16, <2>17, <2>18, <2>19,
       <2>20, <2>21 DEF Step
<1> QED
  BY <1>1, <1>2, <1>3, <1>4 DEF Next, Finish, Fail

\* The inductive form of PasswordIsolation.
LEMMA IsolationInductive ==
  ASSUME DistinctNames
  PROVE  Spec => []IsolationInv
<1>1. Init => IsolationInv
  BY SecretNameAssumption
     DEF Init, IsolationInv, IdleForgets, PasswordIsolation, TypeOK, Owners,
         Labels, Unreadable, NeedsPassword
<1> QED
  BY <1>1, IsolationStep, TypeCorrect, PTL DEF Spec


\* Distinct Secret names are enough: whatever verbs run, interleave and fail, a
\* password generated for one tenant reaches no store, role or caller of another
\* (ensureSecretFile, applyClusterSecret, ensureRole, alterRolePassword).
THEOREM PasswordsIsolated ==
  ASSUME DistinctNames
  PROVE  Spec => []PasswordIsolation
<1>1. IsolationInv => PasswordIsolation
  BY DEF IsolationInv
<1> QED
  BY <1>1, IsolationInductive, PTL

-----------------------------------------------------------------------------
(* What a call leaves alone *)

\* A call of a process changes its own pc and password, and holdings of its own
\* tenant, and nothing else that the invariants below speak of.
LEMMA StepFrame ==
  ASSUME DistinctNames, TypeOK, NEW p \in Procs, Step(p)
  PROVE  /\ app[p] \in Tenants
         /\ UNCHANGED <<app, verb, alone>>
         /\ \A q \in Procs \ {p} : pc'[q] = pc[q] /\ pw'[q] = pw[q]
         /\ \A t \in Tenants \ {app[p]} :
                /\ file'[SecretNameOf[t]] = file[SecretNameOf[t]]
                /\ secret'[SecretNameOf[t]] = secret[SecretNameOf[t]]
                /\ role'[t] = role[t]
                /\ db'[t] = db[t]
                /\ grants'[t] = grants[t]
<1> USE SecretNameAssumption
<1>0. app[p] \in Tenants /\ SecretNameOf[app[p]] \in SecretNames
  BY DEF Step, TypeOK, ReuseFile, NewFile, WriteFile, RemoveFile, GetSecret,
     CreateSecret, UpdateSecret, DeleteSecret, EnsureRole, QueryDatabase,
     CreateDatabase, AlterDatabase, GrantConnect, GrantPublic, RoleExists,
     AlterRole, DropDatabase, DropRole, ReadManifest, TruncateManifest,
     WriteManifest
<1> USE <1>0 DEF TypeOK, Goto, stores, local
<1>1. CASE ReuseFile(p)
  BY <1>1 DEF ReuseFile, PathOf
<1>2. CASE NewFile(p)
  BY <1>2 DEF NewFile, GeneratePassword
<1>3. CASE WriteFile(p)
  BY <1>3 DEF WriteFile, PathOf, Cred, AfterFile, DistinctNames
<1>4. CASE RemoveFile(p)
  BY <1>4 DEF RemoveFile, PathOf, DistinctNames
<1>5. CASE GetSecret(p)
  BY <1>5 DEF GetSecret, SecretOf, Cred, AfterSecret
<1>6. CASE CreateSecret(p)
  BY <1>6 DEF CreateSecret, SecretOf, Cred, WriteSecret, AfterSecret, DistinctNames
<1>7. CASE UpdateSecret(p)
  BY <1>7 DEF UpdateSecret, SecretOf, Cred, WriteSecret, AfterSecret, DistinctNames
<1>8. CASE DeleteSecret(p)
  BY <1>8 DEF DeleteSecret, SecretOf, WriteSecret, DistinctNames
<1>9. CASE EnsureRole(p)
  BY <1>9 DEF EnsureRole
<1>10. CASE QueryDatabase(p)
  BY <1>10 DEF QueryDatabase
<1>11. CASE CreateDatabase(p)
  BY <1>11 DEF CreateDatabase
<1>12. CASE AlterDatabase(p)
  BY <1>12 DEF AlterDatabase
<1>13. CASE GrantConnect(p)
  BY <1>13 DEF GrantConnect, Grant
<1>14. CASE GrantPublic(p)
  BY <1>14 DEF GrantPublic, Grant
<1>15. CASE RoleExists(p)
  BY <1>15 DEF RoleExists, GeneratePassword
<1>16. CASE AlterRole(p)
  BY <1>16 DEF AlterRole
<1>17. CASE DropDatabase(p)
  BY <1>17 DEF DropDatabase
<1>18. CASE DropRole(p)
  BY <1>18 DEF DropRole
<1>19. CASE ReadManifest(p)
  BY <1>19 DEF ReadManifest, Edited
<1>20. CASE TruncateManifest(p)
  BY <1>20 DEF TruncateManifest
<1>21. CASE WriteManifest(p)
  BY <1>21 DEF WriteManifest, AfterManifest
<1> QED
  BY <1>1, <1>2, <1>3, <1>4, <1>5, <1>6, <1>7, <1>8, <1>9, <1>10, <1>11,
     <1>12, <1>13, <1>14, <1>15, <1>16, <1>17, <1>18, <1>19, <1>20,
     <1>21 DEF Step

\* A step never changes the file, the Secret, the role, the database or the
\* grants of a tenant no verb runs on (BystandersKept), for any number of
\* processes: verbs only meet in cluster.yaml.
THEOREM BystandersAreKept ==
  ASSUME DistinctNames
  PROVE  Spec => BystandersKept
<1>1. TypeOK /\ [Next]_vars
        => \A t \in Tenants : (\A p \in Procs : app[p] # t /\ app'[p] # t)
                                 => Holdings(t)' = Holdings(t)
  <2> SUFFICES ASSUME TypeOK, [Next]_vars, NEW t \in Tenants,
                      \A p \in Procs : app[p] # t /\ app'[p] # t
               PROVE  Holdings(t)' = Holdings(t)
    OBVIOUS
  <2>1. CASE UNCHANGED vars
    BY <2>1 DEF vars, Holdings
  <2>2. ASSUME NEW p \in Procs, NEW v \in Verbs, NEW u \in Tenants, Start(p, v, u)
        PROVE  Holdings(t)' = Holdings(t)
    BY <2>2 DEF Start, stores, Holdings
  <2>3. ASSUME NEW p \in Procs, Leave(p)
        PROVE  Holdings(t)' = Holdings(t)
    BY <2>3 DEF Leave, stores, Holdings
  <2>4. ASSUME NEW p \in Procs, Step(p)
        PROVE  Holdings(t)' = Holdings(t)
    <3>1. t \in Tenants \ {app[p]}
      OBVIOUS
    <3> QED
      BY <2>4, <3>1, StepFrame DEF Holdings
  <2> QED
    BY <2>1, <2>2, <2>3, <2>4 DEF Next, Finish, Fail
<1> QED
  BY <1>1, TypeCorrect, PTL DEF Spec, BystandersKept

-----------------------------------------------------------------------------
(* Verbs that succeed without company *)

ProvisionSteps == {"stat", "writeFile", "getSecret", "createSecret", "updateSecret",
                   "ensureRole", "queryDatabase", "createDatabase", "alterDatabase",
                   "grantConnect", "grantPublic", "readManifest",
                   "truncateManifest", "writeManifest", "done"}
RotateSteps == {"roleExists", "alterRole", "getSecret", "createSecret",
                "updateSecret", "writeFile", "done"}
DropSteps == {"dropDatabase", "dropRole", "deleteSecret", "readManifest",
              "truncateManifest", "writeManifest", "removeFile", "done"}

\* A process only reaches the calls of its own verb.
OwnSteps ==
    \A p \in Procs :
        /\ verb[p] = "provision" => pc[p] \in ProvisionSteps
        /\ verb[p] = "rotate" => pc[p] \in RotateSteps
        /\ verb[p] = "drop" => pc[p] \in DropSteps

\* The tenant of a verb that runs alone is no other process's tenant.
Private == \A p, q \in Procs : p # q /\ alone[p] => app[q] # app[p]

\* What a Provision that runs alone has achieved when it reaches a call.
ProvisionSoFar(p) ==
    LET t == app[p] IN
    /\ pc[p] \notin {"stat", "writeFile"} => file[SecretNameOf[t]] = Cred(p)
    /\ pc[p] \notin {"stat", "writeFile", "getSecret", "createSecret", "updateSecret"}
           => secret[SecretNameOf[t]] = Cred(p)
    /\ pc[p] \notin {"stat", "writeFile", "getSecret", "createSecret", "updateSecret",
                     "ensureRole"} => role[t] = pw[p]
    /\ pc[p] \in {"grantConnect", "grantPublic", "readManifest", "truncateManifest",
                  "writeManifest", "done"} => db[t] = "tenant"
    /\ pc[p] \in {"grantPublic", "readManifest", "truncateManifest",
                  "writeManifest", "done"} => "connect" \in grants[t]
    /\ pc[p] \in {"readManifest", "truncateManifest", "writeManifest", "done"}
           => "public" \in grants[t]

RotateSoFar(p) ==
    LET t == app[p] IN
    /\ pc[p] \notin {"roleExists", "alterRole"} => role[t] = pw[p]
    /\ pc[p] \in {"writeFile", "done"} => secret[SecretNameOf[t]] = Cred(p)
    /\ pc[p] = "done" => file[SecretNameOf[t]] = Cred(p)

DropSoFar(p) ==
    LET t == app[p] IN
    /\ pc[p] # "dropDatabase" => db[t] = "absent" /\ grants[t] = {}
    /\ pc[p] \notin {"dropDatabase", "dropRole"} => role[t] = None
    /\ pc[p] \notin {"dropDatabase", "dropRole", "deleteSecret"}
           => secret[SecretNameOf[t]] = None
    /\ pc[p] = "done" => file[SecretNameOf[t]] = None

SoFar ==
    \A p \in Procs : alone[p] =>
        /\ verb[p] = "provision" => ProvisionSoFar(p)
        /\ verb[p] = "rotate" => RotateSoFar(p)
        /\ verb[p] = "drop" => DropSoFar(p)

IdleAlone == \A p \in Procs : pc[p] = "idle" => ~alone[p] /\ verb[p] = None

CompletionInv == IsolationInv /\ IdleAlone /\ OwnSteps /\ Private /\ SoFar

LEMMA CompletionInductive ==
  ASSUME DistinctNames
  PROVE  Spec => []CompletionInv
<1>0. None \notin {"provision", "rotate", "drop"}
  BY NoneAssumption DEF Verbs
<1> USE <1>0
<1>1. Init => CompletionInv
  <2>1. Init => IsolationInv
    BY SecretNameAssumption
       DEF Init, IsolationInv, IdleForgets, PasswordIsolation, TypeOK, Owners,
           Labels, Unreadable, NeedsPassword
  <2> QED
    BY <2>1, NoneAssumption
       DEF Init, CompletionInv, IdleAlone, OwnSteps, Private, SoFar
<1>2. CompletionInv /\ IsolationInv' /\ [Next]_vars => CompletionInv'
  <2> SUFFICES ASSUME CompletionInv, IsolationInv', [Next]_vars
               PROVE  IdleAlone' /\ OwnSteps' /\ Private' /\ SoFar'
    BY DEF CompletionInv
  <2>0. TypeOK /\ TypeOK' /\ IdleForgets /\ PasswordIsolation
    BY DEF CompletionInv, IsolationInv
  <2> USE <2>0, NoneAssumption, SecretNameAssumption
  <2>1. CASE UNCHANGED vars
    BY <2>1 DEF vars, CompletionInv, IdleAlone, OwnSteps, Private, SoFar,
       ProvisionSoFar, RotateSoFar, DropSoFar, Cred
  <2>2. ASSUME NEW p \in Procs, NEW v \in Verbs, NEW t \in Tenants, Start(p, v, t)
        PROVE  IdleAlone' /\ OwnSteps' /\ Private' /\ SoFar'
    <3>1. /\ pc' = [pc EXCEPT ![p] = FirstStep(v)]
          /\ verb' = [verb EXCEPT ![p] = v]
          /\ app' = [app EXCEPT ![p] = t]
          /\ alone' = [q \in Procs |-> IF q = p THEN \A r \in Procs : app[r] # t
                                                 ELSE alone[q] /\ app[q] # t]
          /\ UNCHANGED <<file, secret, role, db, grants, pw>>
      BY <2>2 DEF Start, Goto, stores
    <3>2. FirstStep(v) # "idle"
      BY DEF FirstStep, Verbs
    <3>3. IdleAlone'
      BY <3>1, <3>2 DEF CompletionInv, IdleAlone, TypeOK
    <3>4. OwnSteps'
      BY <3>1 DEF CompletionInv, OwnSteps, TypeOK, FirstStep, ProvisionSteps,
                  RotateSteps, DropSteps
    <3>5. Private'
      BY <3>1 DEF CompletionInv, Private, TypeOK
    <3>6. ASSUME NEW q \in Procs, alone'[q]
          PROVE  /\ verb'[q] = "provision" => ProvisionSoFar(q)'
                 /\ verb'[q] = "rotate" => RotateSoFar(q)'
                 /\ verb'[q] = "drop" => DropSoFar(q)'
      <4>1. CASE q = p
        BY <3>1, <4>1 DEF TypeOK, FirstStep, ProvisionSoFar, RotateSoFar, DropSoFar
      <4>2. CASE q # p
        BY <3>1, <3>6, <4>2 DEF TypeOK, CompletionInv, SoFar, ProvisionSoFar,
           RotateSoFar, DropSoFar, Cred
      <4> QED
        BY <4>1, <4>2
    <3> QED
      BY <3>3, <3>4, <3>5, <3>6 DEF SoFar
  <2>3. ASSUME NEW p \in Procs, Leave(p)
        PROVE  IdleAlone' /\ OwnSteps' /\ Private' /\ SoFar'
    <3>1. /\ \A q \in Procs \ {p} : /\ pc'[q] = pc[q] /\ verb'[q] = verb[q]
                                    /\ app'[q] = app[q] /\ pw'[q] = pw[q]
                                    /\ alone'[q] = alone[q]
          /\ verb'[p] = None /\ app'[p] = None /\ ~alone'[p]
          /\ UNCHANGED <<file, secret, role, db, grants>>
      BY <2>3 DEF Leave, Goto, stores, TypeOK
    <3>2. IdleAlone' /\ OwnSteps'
      BY <2>3, <3>1 DEF Leave, Goto, CompletionInv, IdleAlone, OwnSteps, TypeOK
    <3>3. Private'
      <4>1. \A q \in Procs : alone[q] => app[q] \in Tenants
        BY DEF CompletionInv, IdleAlone, TypeOK
      <4>2. None \notin Tenants
        BY NoneAssumption
      <4> QED
        BY <3>1, <4>1, <4>2 DEF CompletionInv, Private
    <3>4. SoFar'
      BY <3>1
         DEF CompletionInv, SoFar, ProvisionSoFar, RotateSoFar, DropSoFar, Cred
    <3> QED
      BY <3>2, <3>3, <3>4
  <2>4. ASSUME NEW p \in Procs, Step(p)
        PROVE  IdleAlone' /\ OwnSteps' /\ Private' /\ SoFar'
    <3> USE <2>4
    <3>0. /\ app[p] \in Tenants
          /\ UNCHANGED <<app, verb, alone>>
          /\ \A q \in Procs \ {p} : pc'[q] = pc[q] /\ pw'[q] = pw[q]
          /\ \A t \in Tenants \ {app[p]} :
                /\ file'[SecretNameOf[t]] = file[SecretNameOf[t]]
                /\ secret'[SecretNameOf[t]] = secret[SecretNameOf[t]]
                /\ role'[t] = role[t]
                /\ db'[t] = db[t]
                /\ grants'[t] = grants[t]
      BY StepFrame
    <3> DEFINE Done(q) == /\ verb[q] = "provision" => ProvisionSoFar(q)
                          /\ verb[q] = "rotate" => RotateSoFar(q)
                          /\ verb[q] = "drop" => DropSoFar(q)
    <3>1. \A q \in Procs \ {p} : alone[q] => Done(q)'
      <4> SUFFICES ASSUME NEW q \in Procs \ {p}, alone[q]
                   PROVE  Done(q)'
        OBVIOUS
      <4>1. Done(q) /\ app[q] # app[p] /\ app[q] \in Tenants \ {app[p]}
        BY <3>0 DEF CompletionInv, SoFar, Private, IdleAlone, TypeOK
      <4> QED
        BY <3>0, <4>1 DEF ProvisionSoFar, RotateSoFar, DropSoFar, Cred
    <3>2. Private'
      BY <3>0 DEF CompletionInv, Private
    \* What is left to show of the acting process, call by call.
    <3> DEFINE Own == /\ pc'[p] # "idle"
                      /\ OwnSteps'
                      /\ alone[p] => Done(p)'
    <3>3. Own
      <4> USE <3>0 DEF Goto, OwnSteps, CompletionInv, SoFar, ProvisionSoFar, RotateSoFar,
              DropSoFar, Cred, ProvisionSteps, RotateSteps, DropSteps, stores, local
      <4>1. CASE ReuseFile(p)
        <5>1. file[SecretNameOf[app[p]]] = [user |-> app[p], pw |-> pw'[p]]
          BY <4>1 DEF ReuseFile, PathOf, TypeOK, PasswordIsolation, Credential
        <5> QED
          BY <4>1, <5>1 DEF ReuseFile, TypeOK
      <4>2. CASE NewFile(p)
        BY <4>2 DEF NewFile, GeneratePassword, TypeOK
      <4>3. CASE WriteFile(p)
        BY <4>3 DEF WriteFile, PathOf, AfterFile, TypeOK
      <4>4. CASE RemoveFile(p)
        <5>1. app[p] \in Tenants /\ verb[p] = "drop"
          BY <4>4 DEF RemoveFile, TypeOK, Verbs
        <5>2. pc'[p] # "idle" /\ OwnSteps'
          BY <4>4, <5>1 DEF RemoveFile, PathOf, TypeOK
        <5>3. ASSUME alone[p]
              PROVE  Done(p)'
          <6>1. DropSoFar(p)
            BY <5>1, <5>3 DEF SoFar
          <6>2. /\ pc[p] = "removeFile"
                /\ file' = [file EXCEPT ![SecretNameOf[app[p]]] = None]
                /\ UNCHANGED <<secret, role, db, grants>>
            BY <4>4 DEF RemoveFile, PathOf
          <6>3. file'[SecretNameOf[app[p]]] = None /\ app'[p] = app[p] /\ pc'[p] = "done"
            BY <6>2, <4>4, <5>1, <3>0 DEF RemoveFile, TypeOK
          <6>4. DropSoFar(p)'
            BY <6>1, <6>2, <6>3
          <6> QED
            BY <6>4, <5>1, <3>0
        <5> QED
          BY <5>2, <5>3
      <4>5. CASE GetSecret(p)
        BY <4>5 DEF GetSecret, SecretOf, AfterSecret, TypeOK
      <4>6. CASE CreateSecret(p)
        BY <4>6 DEF CreateSecret, SecretOf, WriteSecret, AfterSecret, TypeOK
      <4>7. CASE UpdateSecret(p)
        BY <4>7 DEF UpdateSecret, SecretOf, WriteSecret, AfterSecret, TypeOK
      <4>8. CASE DeleteSecret(p)
        <5>1. app[p] \in Tenants /\ verb[p] = "drop"
          BY <4>8 DEF DeleteSecret, TypeOK, Verbs
        <5>2. pc'[p] # "idle" /\ OwnSteps'
          BY <4>8, <5>1 DEF DeleteSecret, SecretOf, WriteSecret, TypeOK
        <5>3. ASSUME alone[p]
              PROVE  Done(p)'
          <6>1. DropSoFar(p)
            BY <5>1, <5>3 DEF SoFar
          <6>2. /\ pc[p] = "deleteSecret"
                /\ secret' = [secret EXCEPT ![SecretNameOf[app[p]]] = None]
                /\ UNCHANGED <<file, role, db, grants>>
            BY <4>8 DEF DeleteSecret, SecretOf, WriteSecret
          <6>3. /\ secret'[SecretNameOf[app[p]]] = None
                /\ app'[p] = app[p]
                /\ pc'[p] = "readManifest"
            BY <6>2, <4>8, <5>1, <3>0 DEF DeleteSecret, TypeOK
          <6>4. DropSoFar(p)'
            BY <6>1, <6>2, <6>3
          <6> QED
            BY <6>4, <5>1, <3>0
        <5> QED
          BY <5>2, <5>3
      <4>9. CASE EnsureRole(p)
        BY <4>9 DEF EnsureRole, TypeOK
      <4>10. CASE QueryDatabase(p)
        BY <4>10 DEF QueryDatabase, TypeOK
      <4>11. CASE CreateDatabase(p)
        BY <4>11 DEF CreateDatabase, TypeOK
      <4>12. CASE AlterDatabase(p)
        BY <4>12 DEF AlterDatabase, TypeOK
      <4>13. CASE GrantConnect(p)
        BY <4>13 DEF GrantConnect, Grant, TypeOK
      <4>14. CASE GrantPublic(p)
        BY <4>14 DEF GrantPublic, Grant, TypeOK
      <4>15. CASE RoleExists(p)
        BY <4>15 DEF RoleExists, GeneratePassword, TypeOK
      <4>16. CASE AlterRole(p)
        BY <4>16 DEF AlterRole, TypeOK
      <4>17. CASE DropDatabase(p)
        BY <4>17 DEF DropDatabase, TypeOK
      <4>18. CASE DropRole(p)
        BY <4>18 DEF DropRole, TypeOK
      <4>19. CASE ReadManifest(p)
        <5>1. app[p] \in Tenants /\ verb[p] \in {"provision", "drop"}
          BY <4>19 DEF ReadManifest, TypeOK, Verbs
        <5>2. pc'[p] # "idle" /\ OwnSteps'
          BY <4>19, <5>1 DEF ReadManifest, Edited, TypeOK
        <5>3. ASSUME alone[p]
              PROVE  Done(p)'
          BY <4>19, <5>1, <5>3 DEF ReadManifest, Edited, TypeOK
        <5> QED
          BY <5>2, <5>3
      <4>20. CASE TruncateManifest(p)
        BY <4>20 DEF TruncateManifest, TypeOK
      <4>21. CASE WriteManifest(p)
        BY <4>21 DEF WriteManifest, AfterManifest, TypeOK
      <4> QED
        BY <2>4, <4>1, <4>2, <4>3, <4>4, <4>5, <4>6, <4>7, <4>8, <4>9, <4>10,
           <4>11, <4>12, <4>13, <4>14, <4>15, <4>16, <4>17, <4>18,
           <4>19, <4>20, <4>21 DEF Step
    <3>4. IdleAlone'
      BY <3>0, <3>3 DEF CompletionInv, IdleAlone
    <3>5. SoFar'
      BY <3>0, <3>1, <3>3 DEF SoFar
    <3> QED
      BY <3>2, <3>3, <3>4, <3>5
  <2> QED
    BY <2>1, <2>2, <2>3, <2>4 DEF Next, Finish, Fail
<1> QED
  BY <1>1, <1>2, IsolationInductive, PTL DEF Spec

\* Whatever earlier verbs left behind, a Provision that succeeds while no other
\* verb runs on its tenant ends with file, Secret and role on the password of the
\* DSN it returns, and with a database the role owns and may use.
THEOREM ProvisionsComplete ==
  ASSUME DistinctNames
  PROVE  Spec => []ProvisionCompletes
<1>1. CompletionInv => ProvisionCompletes
  BY DEF CompletionInv, SoFar, ProvisionSoFar, ProvisionCompletes, Succeeded,
         CredentialsAgree, PathOf, SecretOf, IsolationInv, TypeOK, Privileges
<1> QED
  BY <1>1, CompletionInductive, PTL

\* The same of Rotate: no store still holds an older password.
THEOREM RotationsComplete ==
  ASSUME DistinctNames
  PROVE  Spec => []RotateCompletes
<1>1. CompletionInv => RotateCompletes
  BY DEF CompletionInv, SoFar, RotateSoFar, RotateCompletes, Succeeded,
         CredentialsAgree, PathOf, SecretOf
<1> QED
  BY <1>1, CompletionInductive, PTL

\* The same of Drop: no file, Secret, role, database or grant is left.
THEOREM DropsComplete ==
  ASSUME DistinctNames
  PROVE  Spec => []DropCompletes
<1>1. CompletionInv => DropCompletes
  BY DEF CompletionInv, SoFar, DropSoFar, DropCompletes, Gone, Succeeded, PathOf, SecretOf
<1> QED
  BY <1>1, CompletionInductive, PTL

-----------------------------------------------------------------------------
(* The promises of TenantLedger *)

\* A Provision or Rotate past its first call has a password to show.
HasPassword ==
    \A p \in Procs :
        verb[p] \in {"provision", "rotate"} /\ pc[p] \notin {"idle", "stat", "roleExists"}
            => pw[p] \in Password

\* Of every execution, whatever the Secret names.
LEMMA HasPasswordInductive == Spec => []HasPassword
<1>1. Init => HasPassword
  BY DEF Init, HasPassword
<1>2. TypeOK /\ HasPassword /\ [Next]_vars => HasPassword'
  <2> SUFFICES ASSUME TypeOK, HasPassword, [Next]_vars
               PROVE  HasPassword'
    OBVIOUS
  <2>1. CASE UNCHANGED vars
    BY <2>1 DEF vars, HasPassword
  <2>2. ASSUME NEW p \in Procs, NEW v \in Verbs, NEW t \in Tenants, Start(p, v, t)
        PROVE  HasPassword'
    <3>1. v \in {"provision", "rotate"} => FirstStep(v) \in {"stat", "roleExists"}
      BY DEF FirstStep
    <3> QED
      BY <2>2, <3>1 DEF Start, Goto, TypeOK, HasPassword
  <2>3. ASSUME NEW p \in Procs, Leave(p)
        PROVE  HasPassword'
    BY <2>3 DEF Leave, Goto, TypeOK, HasPassword
  <2>4. ASSUME NEW p \in Procs, Step(p)
        PROVE  HasPassword'
    <3> USE SecretNameAssumption DEF Goto, TypeOK, HasPassword
    <3>1. CASE ReuseFile(p)
      <4>1. file[PathOf(p)].pw \in Password
        BY <3>1 DEF ReuseFile, PathOf, Credential
      <4> QED
        BY <3>1, <4>1 DEF ReuseFile
    <3>2. CASE NewFile(p) \/ RoleExists(p)
      BY <3>2 DEF NewFile, RoleExists, GeneratePassword, Password
    <3>3. CASE ~ReuseFile(p) /\ ~NewFile(p) /\ ~RoleExists(p)
      <4>1. /\ pc[p] \notin {"idle", "stat", "roleExists"}
            /\ UNCHANGED <<verb, pw>>
            /\ \A q \in Procs \ {p} : pc'[q] = pc[q]
        BY <2>4, <3>3
           DEF Step, local, WriteFile, RemoveFile, GetSecret,
               CreateSecret, UpdateSecret, DeleteSecret, EnsureRole, QueryDatabase,
               CreateDatabase, AlterDatabase, GrantConnect, GrantPublic, Grant,
               AlterRole, DropDatabase, DropRole, ReadManifest, TruncateManifest,
               WriteManifest
      <4> QED
        BY <4>1
    <3> QED
      BY <3>1, <3>2, <3>3
  <2> QED
    BY <2>1, <2>2, <2>3, <2>4 DEF Next, Finish, Fail
<1> QED
  BY <1>1, <1>2, TypeCorrect, PTL DEF Spec

LedgerInv == CompletionInv /\ HasPassword

\* What a verb without company has achieved when it returns is what TenantLedger
\* promises of it.
Kept ==
    \A p \in Procs : pc[p] = "done" /\ alone[p]
        => Ledger!Promised(verb[p], app[p], pw[p], Holdings(app[p]))

\* The invariant of the verbs is strong enough for the promises.
LEMMA PromiseKept == LedgerInv => Kept
<1> SUFFICES ASSUME LedgerInv, NEW p \in Procs, pc[p] = "done", alone[p]
             PROVE  Ledger!Promised(verb[p], app[p], pw[p], Holdings(app[p]))
  BY DEF Kept
<1>1. TypeOK /\ app[p] \in Tenants /\ verb[p] \in Verbs
  BY DEF LedgerInv, CompletionInv, IsolationInv, TypeOK
<1>2. SoFar /\ PasswordIsolation /\ HasPassword
  BY DEF LedgerInv, CompletionInv, IsolationInv
<1>3. verb[p] \in {"provision", "rotate"} => pw[p].for = app[p]
  BY <1>1, <1>2, NoneAssumption DEF HasPassword, PasswordIsolation
<1>4. CASE verb[p] = "provision"
  <2>1. ProvisionSoFar(p)
    BY <1>2, <1>4 DEF SoFar
  <2>2. /\ file[SecretNameOf[app[p]]] = Cred(p)
        /\ secret[SecretNameOf[app[p]]] = Cred(p)
        /\ role[app[p]] = pw[p]
        /\ db[app[p]] = "tenant"
        /\ grants[app[p]] = {"connect", "public"}
    BY <1>1, <2>1 DEF ProvisionSoFar, TypeOK, Privileges
  <2> QED
    BY <1>3, <1>4, <2>2 DEF Ledger!Promised, Holdings, Cred
<1>5. CASE verb[p] = "rotate"
  <2>1. RotateSoFar(p)
    BY <1>2, <1>5 DEF SoFar
  <2> QED
    BY <1>3, <1>5, <2>1 DEF RotateSoFar, Ledger!Promised, Holdings, Cred
<1>6. CASE verb[p] = "drop"
  <2>1. DropSoFar(p)
    BY <1>2, <1>6 DEF SoFar
  <2> QED
    BY <1>6, <2>1 DEF DropSoFar, Ledger!Promised, Ledger!Nothing, Holdings
<1> QED
  BY <1>1, <1>4, <1>5, <1>6 DEF Verbs

\* A call of a process is work of its client on the entry of its tenant.
LEMMA StepIsWork ==
  ASSUME DistinctNames, LedgerInv, LedgerInv', NEW p \in Procs, Step(p)
  PROVE  Ledger!Work(p)
<1>1. TypeOK /\ TypeOK' /\ app[p] \in Tenants
  <2>1. TypeOK /\ TypeOK'
    BY DEF LedgerInv, CompletionInv, IsolationInv
  <2> QED
    BY <2>1, StepFrame
<1>2. pc[p] # "done"
  BY DEF Step, ReuseFile, NewFile, WriteFile, RemoveFile, GetSecret,
     CreateSecret, UpdateSecret, DeleteSecret, EnsureRole, QueryDatabase,
     CreateDatabase, AlterDatabase, GrantConnect, GrantPublic, RoleExists,
     AlterRole, DropDatabase, DropRole, ReadManifest, TruncateManifest,
     WriteManifest
<1>3. app[p] # None
  BY <1>1, NoneAssumption
<1> DEFINE ledger == [t \in Tenants |-> Holdings(t)]
           ok == [q \in Procs |-> pc[q] = "done"]
<1>4. ledger' = [ledger EXCEPT ![app[p]] = ledger'[app[p]]]
  <2>1. \A t \in Tenants \ {app[p]} : Holdings(t)' = Holdings(t)
    BY <1>1, StepFrame DEF Holdings
  <2> QED
    BY <1>1, <2>1
<1>5. pw' = [pw EXCEPT ![p] = pw'[p]] /\ ok' = [ok EXCEPT ![p] = ok'[p]]
  <2>1. \A q \in Procs \ {p} : pc'[q] = pc[q] /\ pw'[q] = pw[q]
    BY <1>1, StepFrame
  <2>2. pw' = [pw EXCEPT ![p] = pw'[p]]
    BY <1>1, <2>1 DEF TypeOK
  <2>3. ok' = [ok EXCEPT ![p] = ok'[p]]
    BY <2>1
  <2> QED
    BY <2>2, <2>3
<1>6. UNCHANGED <<verb, app, alone>>
  BY <1>1, StepFrame
<1>7. ok'[p] /\ alone[p] => Ledger!Promised(verb[p], app[p], pw'[p], ledger'[app[p]])
  <2> SUFFICES ASSUME pc'[p] = "done", alone[p]
               PROVE  Ledger!Promised(verb[p], app[p], pw'[p], Holdings(app[p])')
    BY <1>1, <1>6
  <2>1. LedgerInv' => Kept'
    BY PromiseKept, PTL
  <2> QED
    BY <1>6, <2>1 DEF Kept, Ledger!Promised, Ledger!Nothing, Holdings
<1> QED
  BY <1>2, <1>3, <1>4, <1>5, <1>6, <1>7 DEF Ledger!Work

\* With distinct Secret names the verbs implement the ledger: whatever interleaves
\* and fails, calls stay with their tenant, and a verb that returns nil without
\* company has made of its tenant what it promises.
THEOREM VerbsImplementLedger ==
  ASSUME DistinctNames
  PROVE  Spec => LedgerImplemented
<1>1. Init => Ledger!Init
  <2> SUFFICES ASSUME Init
               PROVE  Ledger!Init
    OBVIOUS
  <2>1. ASSUME NEW t \in Tenants
        PROVE  Holdings(t) \in {[Ledger!Nothing EXCEPT !.db = o] :
                                    o \in {"absent", "postgres"}}
    <3>1. /\ file[SecretNameOf[t]] = None
          /\ secret[SecretNameOf[t]] = None
          /\ role[t] = None
          /\ grants[t] = {}
      BY SecretNameAssumption DEF Init
    <3>2. Holdings(t) = [Ledger!Nothing EXCEPT !.db = db[t]]
      BY <3>1 DEF Ledger!Nothing, Holdings
    <3>3. db[t] \in {"absent", "postgres"}
      BY DEF Init
    <3> QED
      BY <3>2, <3>3
  <2> QED
    BY <2>1 DEF Init, Ledger!Init
<1>2. LedgerInv /\ LedgerInv' /\ [Next]_vars => [Ledger!Next]_(Ledger!vars)
  <2> SUFFICES ASSUME LedgerInv, LedgerInv', [Next]_vars
               PROVE  Ledger!Next \/ UNCHANGED Ledger!vars
    OBVIOUS
  <2>0. TypeOK /\ IdleForgets
    BY DEF LedgerInv, CompletionInv, IsolationInv
  <2>1. CASE UNCHANGED vars
    BY <2>1 DEF vars, Ledger!vars, Holdings
  <2>2. ASSUME NEW p \in Procs, NEW v \in Verbs, NEW t \in Tenants, Start(p, v, t)
        PROVE  Ledger!Call(p, v, t)
    <3>1. FirstStep(v) # "done"
      BY DEF FirstStep, Verbs
    <3> QED
      BY <2>0, <2>2, <3>1
         DEF Start, Goto, Ledger!Call, stores, Holdings, IdleForgets, TypeOK
  <2>3. ASSUME NEW p \in Procs, Leave(p), pc[p] # "idle"
        PROVE  Ledger!Leave(p)
    BY <2>0, <2>3, NoneAssumption
       DEF Leave, Goto, Ledger!Leave, stores, Holdings, TypeOK
  <2>4. ASSUME NEW p \in Procs, Step(p)
        PROVE  Ledger!Work(p)
    BY <2>4, StepIsWork
  <2> QED
    BY <2>1, <2>2, <2>3, <2>4 DEF Next, Finish, Fail, Ledger!Next, Steps
<1> QED
  BY <1>1, <1>2, CompletionInductive, HasPasswordInductive, PTL
     DEF LedgerInv, Spec, Ledger!Spec, LedgerImplemented

-----------------------------------------------------------------------------
(* cluster.yaml, when one verb runs at a time and no two tenants share a   *)
(* Secret name.  With two overlapping edits the theorems are false.        *)

\* Tenants whose SOPS file exists.
WithFile == {t \in Tenants : file[SecretNameOf[t]] # None}

\* The calls of Provision that come after its file exists.
HasWrittenFile == {"getSecret", "createSecret", "updateSecret", "ensureRole",
                   "queryDatabase", "createDatabase", "alterDatabase",
                   "grantConnect", "grantPublic", "readManifest",
                   "truncateManifest", "writeManifest", "done"}
Editing == {"truncateManifest", "writeManifest"}

\* What process p knows of cluster.yaml and of the files.
EditInv(p) ==
    /\ pc[p] = "writeManifest" => manifest = Empty
    /\ pc[p] = "truncateManifest" =>
           /\ manifest \in SUBSET Tenants
           /\ \A t \in Tenants \ {app[p]} : t \in snap[p] <=> t \in manifest
    /\ pc[p] \in Editing => snap[p] \subseteq WithFile
    /\ verb[p] = "provision" =>
           /\ pc[p] \in HasWrittenFile => app[p] \in WithFile
           /\ pc[p] \in Editing => app[p] \in snap[p]
           /\ pc[p] = "done" => manifest \in SUBSET Tenants /\ app[p] \in manifest
    /\ verb[p] = "drop" =>
           /\ pc[p] \in Editing => app[p] \notin snap[p]
           /\ pc[p] \in {"removeFile", "done"} =>
                  manifest \in SUBSET Tenants /\ app[p] \notin manifest

ManifestInv == ListedHasFile /\ \A p \in Procs : EditInv(p)

\* A process stays within the calls of its own verb, whatever the others do.
LEMMA OwnStepsStep ==
  ASSUME DistinctNames, TypeOK, TypeOK', IdleAlone, OwnSteps, [Next]_vars
  PROVE  IdleAlone' /\ OwnSteps'
<1>0. None \notin Verbs
  BY NoneAssumption
<1> USE <1>0
<1>1. CASE UNCHANGED vars
  BY <1>1 DEF vars, IdleAlone, OwnSteps
<1>2. ASSUME NEW p \in Procs, NEW v \in Verbs, NEW t \in Tenants, Start(p, v, t)
      PROVE  IdleAlone' /\ OwnSteps'
  <2>1. FirstStep(v) # "idle"
    BY DEF FirstStep, Verbs
  <2>2. IdleAlone'
    BY <1>2, <2>1 DEF Start, Goto, IdleAlone, TypeOK
  <2>3. OwnSteps'
    BY <1>2 DEF Start, Goto, OwnSteps, TypeOK, FirstStep, ProvisionSteps, RotateSteps,
       DropSteps
  <2> QED
    BY <2>2, <2>3
<1>3. ASSUME NEW p \in Procs, Leave(p)
      PROVE  IdleAlone' /\ OwnSteps'
  BY <1>3 DEF Leave, Goto, IdleAlone, OwnSteps, TypeOK, Verbs
<1>4. ASSUME NEW p \in Procs, Step(p)
      PROVE  IdleAlone' /\ OwnSteps'
  <2>0. /\ UNCHANGED <<verb, alone>>
        /\ \A q \in Procs \ {p} : pc'[q] = pc[q]
        /\ verb[p] = "provision" => pc[p] \in ProvisionSteps
        /\ verb[p] = "rotate" => pc[p] \in RotateSteps
        /\ verb[p] = "drop" => pc[p] \in DropSteps
    BY <1>4, StepFrame DEF OwnSteps
  <2>00. pc[p] # "idle" /\ verb[p] \in Verbs
    BY <1>4 DEF Step, TypeOK, ReuseFile, NewFile, WriteFile, RemoveFile, GetSecret,
       CreateSecret, UpdateSecret, DeleteSecret, EnsureRole, QueryDatabase,
       CreateDatabase, AlterDatabase, GrantConnect, GrantPublic, RoleExists,
       AlterRole, DropDatabase, DropRole, ReadManifest, TruncateManifest,
       WriteManifest
  <2> DEFINE Own == /\ pc'[p] # "idle"
                    /\ verb[p] = "provision" => pc'[p] \in ProvisionSteps
                    /\ verb[p] = "rotate" => pc'[p] \in RotateSteps
                    /\ verb[p] = "drop" => pc'[p] \in DropSteps
  <2>1. Own
    <3> USE <2>0, <2>00 DEF Goto, TypeOK, Verbs, ProvisionSteps, RotateSteps, DropSteps
    <3>1. CASE ReuseFile(p) \/ NewFile(p) \/ WriteFile(p) \/ RemoveFile(p)
      BY <3>1 DEF ReuseFile, NewFile, WriteFile, AfterFile, RemoveFile
    <3>2. CASE GetSecret(p)
      BY <3>2 DEF GetSecret, AfterSecret
    <3>3. CASE CreateSecret(p) \/ UpdateSecret(p) \/ DeleteSecret(p)
      BY <3>3 DEF CreateSecret, UpdateSecret, DeleteSecret, AfterSecret
    <3>4. CASE EnsureRole(p) \/ QueryDatabase(p) \/ CreateDatabase(p)
      BY <3>4 DEF EnsureRole, QueryDatabase, CreateDatabase
    <3>5. CASE AlterDatabase(p) \/ GrantConnect(p) \/ GrantPublic(p)
      BY <3>5 DEF AlterDatabase, GrantConnect, GrantPublic
    <3>6. CASE RoleExists(p) \/ AlterRole(p) \/ DropDatabase(p) \/ DropRole(p)
      BY <3>6 DEF RoleExists, AlterRole, DropDatabase, DropRole
    <3>7. CASE ReadManifest(p)
      BY <3>7 DEF ReadManifest
    <3>8. CASE TruncateManifest(p) \/ WriteManifest(p)
      BY <3>8 DEF TruncateManifest, WriteManifest, AfterManifest
    <3> QED
      BY <1>4, <3>1, <3>2, <3>3, <3>4, <3>5, <3>6, <3>7, <3>8 DEF Step
  <2> QED
    BY <2>0, <2>1 DEF IdleAlone, OwnSteps
<1> QED
  BY <1>1, <1>2, <1>3, <1>4 DEF Next, Finish, Fail

\* A step of the only process keeps what it knows.
LEMMA ManifestStep ==
  ASSUME DistinctNames, NEW self, Procs = {self},
         TypeOK, TypeOK', OwnSteps, OwnSteps', IdleAlone,
         ManifestInv, [Next]_vars
  PROVE  ManifestInv'
<1> USE SecretNameAssumption, NoneAssumption, UnreadableAssumption
<1>a. EditInv(self) /\ ListedHasFile
  BY DEF ManifestInv
<1>b. SUFFICES EditInv(self)' /\ ListedHasFile'
  BY DEF ManifestInv
<1>1. CASE UNCHANGED vars
  BY <1>1, <1>a DEF vars, EditInv, ListedHasFile, WithFile
<1>2. ASSUME NEW v \in Verbs, NEW t \in Tenants, Start(self, v, t)
      PROVE  EditInv(self)' /\ ListedHasFile'
  BY <1>2, <1>a DEF Start, Goto, FirstStep, Verbs, stores, TypeOK, EditInv,
     ListedHasFile, WithFile, HasWrittenFile, Editing
<1>3. ASSUME Leave(self)
      PROVE  EditInv(self)' /\ ListedHasFile'
  BY <1>3, <1>a DEF Leave, Goto, stores, TypeOK, EditInv, ListedHasFile, Verbs,
     Editing
<1>4. ASSUME Step(self)
      PROVE  EditInv(self)' /\ ListedHasFile'
  <2>0. /\ verb[self] = "provision" => pc[self] \in ProvisionSteps
        /\ verb[self] = "rotate" => pc[self] \in RotateSteps
        /\ verb[self] = "drop" => pc[self] \in DropSteps
    BY DEF OwnSteps
  <2>00. pc[self] # "idle" /\ app[self] \in Tenants /\ verb[self] \in Verbs
    BY <1>4 DEF Step, TypeOK, ReuseFile, NewFile, WriteFile, RemoveFile, GetSecret,
       CreateSecret, UpdateSecret, DeleteSecret, EnsureRole, QueryDatabase,
       CreateDatabase, AlterDatabase, GrantConnect, GrantPublic, RoleExists,
       AlterRole, DropDatabase, DropRole, ReadManifest, TruncateManifest,
       WriteManifest
  <2> USE <1>a, <2>0, <2>00 DEF Goto, TypeOK, EditInv, ListedHasFile, WithFile,
                                 stores, local, Editing, HasWrittenFile, Verbs
  <2>1. CASE ReuseFile(self)
    BY <2>1 DEF ReuseFile, PathOf
  <2>2. CASE NewFile(self)
    BY <2>2 DEF NewFile, GeneratePassword
  <2>3. CASE WriteFile(self)
    <3>1. Cred(self) # None
      BY <2>3 DEF WriteFile, NeedsPassword, Cred, Credential
    <3> QED
      BY <2>3, <3>1 DEF WriteFile, PathOf, AfterFile, DropSteps
  <2>4. CASE RemoveFile(self)
    <3>1. verb[self] = "drop"
      BY <2>4 DEF RemoveFile, ProvisionSteps, RotateSteps
    <3>2. manifest' = manifest /\ manifest \in SUBSET Tenants /\ app[self] \notin manifest
      BY <2>4, <3>1 DEF RemoveFile
    <3>3. \A t \in manifest : SecretNameOf[t] # SecretNameOf[app[self]]
      BY <3>2 DEF DistinctNames
    <3> QED
      BY <2>4, <3>1, <3>2, <3>3 DEF RemoveFile, PathOf
  <2>5. CASE GetSecret(self)
    BY <2>5 DEF GetSecret, AfterSecret
  <2>6. CASE CreateSecret(self)
    BY <2>6 DEF CreateSecret, WriteSecret, AfterSecret
  <2>7. CASE UpdateSecret(self)
    BY <2>7 DEF UpdateSecret, WriteSecret, AfterSecret
  <2>8. CASE DeleteSecret(self)
    BY <2>8 DEF DeleteSecret, WriteSecret, ProvisionSteps, RotateSteps
  <2>9. CASE EnsureRole(self)
    BY <2>9 DEF EnsureRole
  <2>10. CASE QueryDatabase(self)
    BY <2>10 DEF QueryDatabase
  <2>11. CASE CreateDatabase(self)
    BY <2>11 DEF CreateDatabase
  <2>12. CASE AlterDatabase(self)
    BY <2>12 DEF AlterDatabase
  <2>13. CASE GrantConnect(self)
    BY <2>13 DEF GrantConnect, Grant
  <2>14. CASE GrantPublic(self)
    BY <2>14 DEF GrantPublic, Grant
  <2>15. CASE RoleExists(self)
    BY <2>15 DEF RoleExists, GeneratePassword, ProvisionSteps, DropSteps
  <2>16. CASE AlterRole(self)
    BY <2>16 DEF AlterRole, ProvisionSteps, DropSteps
  <2>17. CASE DropDatabase(self)
    BY <2>17 DEF DropDatabase, ProvisionSteps, RotateSteps
  <2>18. CASE DropRole(self)
    BY <2>18 DEF DropRole, ProvisionSteps, RotateSteps
  <2>19. CASE ReadManifest(self)
    <3>1. manifest \in SUBSET Tenants /\ UNCHANGED <<file, manifest, app, verb>>
      BY <2>19 DEF ReadManifest, Unreadable
    <3>2. CASE verb[self] = "provision" /\ app[self] \in manifest
      BY <2>19, <3>1, <3>2 DEF ReadManifest
    <3>3. CASE ~(verb[self] = "provision" /\ app[self] \in manifest)
      BY <2>19, <3>1, <3>3 DEF ReadManifest, Edited, RotateSteps
    <3> QED
      BY <3>2, <3>3
  <2>20. CASE TruncateManifest(self)
    BY <2>20 DEF TruncateManifest, Unreadable
  <2>21. CASE WriteManifest(self)
    BY <2>21 DEF WriteManifest, AfterManifest, RotateSteps, Unreadable
  <2> QED
    BY <1>4, <2>1, <2>2, <2>3, <2>4, <2>5, <2>6, <2>7, <2>8, <2>9, <2>10, <2>11,
       <2>12, <2>13, <2>14, <2>15, <2>16, <2>17, <2>18, <2>19,
       <2>20, <2>21 DEF Step
<1> QED
  BY <1>b, <1>1, <1>2, <1>3, <1>4 DEF Next, Finish, Fail

\* The calls that are not about cluster.yaml leave it alone.
LEMMA ElsewhereUntouched ==
  ASSUME TypeOK, NEW p \in Procs, Step(p),
         ~ReadManifest(p), ~TruncateManifest(p), ~WriteManifest(p)
  PROVE  /\ manifest' = manifest
         /\ pc[p] # "writeManifest" /\ pc'[p] # "writeManifest"
<1> USE DEF Goto, TypeOK, stores, AfterFile, AfterSecret
<1>1. CASE ReuseFile(p) \/ NewFile(p) \/ WriteFile(p) \/ RemoveFile(p)
  BY <1>1 DEF ReuseFile, NewFile, WriteFile, RemoveFile
<1>2. CASE GetSecret(p)
  BY <1>2 DEF GetSecret
<1>3. CASE CreateSecret(p) \/ UpdateSecret(p) \/ DeleteSecret(p)
  BY <1>3 DEF CreateSecret, UpdateSecret, DeleteSecret
<1>4. CASE EnsureRole(p) \/ QueryDatabase(p) \/ CreateDatabase(p) \/ AlterDatabase(p)
  BY <1>4 DEF EnsureRole, QueryDatabase, CreateDatabase, AlterDatabase
<1>5. CASE GrantConnect(p) \/ GrantPublic(p)
  BY <1>5 DEF GrantConnect, GrantPublic, Grant
<1>6. CASE RoleExists(p) \/ AlterRole(p) \/ DropDatabase(p) \/ DropRole(p)
  BY <1>6 DEF RoleExists, AlterRole, DropDatabase, DropRole
<1> QED
  BY <1>1, <1>2, <1>3, <1>4, <1>5, <1>6 DEF Step

LEMMA ManifestInductive ==
  ASSUME DistinctNames, NEW CONSTANT self, Procs = {self}
  PROVE  Spec => []ManifestInv
<1>1. Init => ManifestInv
  BY NoneAssumption DEF Init, ManifestInv, EditInv, ListedHasFile, Verbs, Editing
<1>2. TypeOK /\ TypeOK' /\ CompletionInv /\ CompletionInv' /\ ManifestInv /\ [Next]_vars
        => ManifestInv'
  BY ManifestStep DEF CompletionInv
<1> QED
  BY <1>1, <1>2, TypeCorrect, CompletionInductive, PTL DEF Spec

\* One verb at a time, whichever fail and wherever: a role that cluster.yaml lists
\* has its SOPS file, so the workspace may be committed after any of them.
THEOREM ListedRolesHaveFiles ==
  ASSUME DistinctNames, NEW CONSTANT self, Procs = {self}
  PROVE  Spec => []ListedHasFile
<1>1. ManifestInv => ListedHasFile
  BY DEF ManifestInv
<1> QED
  BY <1>1, ManifestInductive, PTL

\* One verb at a time: a Provision that succeeds has listed its own tenant, a Drop
\* that succeeds has unlisted it (AppendRole and RemoveRole).  That the entries of
\* the other tenants stay is EntriesAreKept.
THEOREM ManifestIsUpdated ==
  ASSUME DistinctNames, NEW CONSTANT self, Procs = {self}
  PROVE  Spec => []ManifestUpdated
<1>1. ManifestInv => ManifestUpdated
  BY DEF ManifestInv, EditInv, ManifestUpdated, Succeeded
<1> QED
  BY <1>1, ManifestInductive, PTL

\* The step under EntriesKept: what the only process edits differs from what it
\* read in its own tenant's entry at most.
LEMMA EntriesStep ==
  ASSUME NEW self, Procs = {self}, TypeOK, ManifestInv, [Next]_vars,
         Entries \notin Unreadable, Entries' \notin Unreadable,
         NEW t \in Tenants, app[self] # t
  PROVE  t \in Entries <=> t \in Entries'
<1>1. /\ Entries = IF pc[self] = "writeManifest" THEN snap[self] ELSE manifest
      /\ Entries' = IF pc'[self] = "writeManifest" THEN snap'[self] ELSE manifest'
  BY DEF Entries
<1>2. EditInv(self)
  BY DEF ManifestInv
<1>3. CASE UNCHANGED vars
  BY <1>1, <1>3 DEF vars
<1>4. ASSUME NEW v \in Verbs, NEW u \in Tenants, Start(self, v, u)
      PROVE  t \in Entries <=> t \in Entries'
  BY <1>1, <1>4 DEF Start, Goto, FirstStep, Verbs, stores, TypeOK
<1>5. ASSUME pc[self] # "idle", Leave(self)
      PROVE  t \in Entries <=> t \in Entries'
  <2>1. pc'[self] = "idle" /\ manifest' = manifest
    BY <1>5 DEF Leave, Goto, stores, TypeOK
  <2>2. CASE pc[self] = "writeManifest"
    BY <1>1, <1>2, <2>1, <2>2 DEF EditInv, Unreadable
  <2>3. CASE pc[self] # "writeManifest"
    BY <1>1, <2>1, <2>3
  <2> QED
    BY <2>2, <2>3
<1>6. ASSUME Step(self)
      PROVE  t \in Entries <=> t \in Entries'
  <2>1. CASE ReadManifest(self)
    BY <1>1, <2>1 DEF ReadManifest, Goto, stores, TypeOK
  <2>2. CASE TruncateManifest(self)
    BY <1>1, <1>2, <2>2 DEF TruncateManifest, Goto, local, TypeOK, EditInv
  <2>3. CASE WriteManifest(self)
    BY <1>1, <1>2, <2>3 DEF WriteManifest, AfterManifest, Goto, TypeOK, EditInv
  <2>4. CASE ~ReadManifest(self) /\ ~TruncateManifest(self) /\ ~WriteManifest(self)
    <3>1. /\ manifest' = manifest
          /\ pc[self] # "writeManifest" /\ pc'[self] # "writeManifest"
      BY <1>6, <2>4, ElsewhereUntouched
    <3> QED
      BY <1>1, <3>1
  <2> QED
    BY <2>1, <2>2, <2>3, <2>4
<1> QED
  BY <1>3, <1>4, <1>5, <1>6 DEF Next, Finish, Fail, Steps

\* One verb at a time, whichever fail and wherever: an edit of cluster.yaml leaves
\* the entries of all tenants but its verb's, whether the verb adds or removes one.
THEOREM EntriesAreKept ==
  ASSUME DistinctNames, NEW CONSTANT self, Procs = {self}
  PROVE  Spec => EntriesKept
<1>1. TypeOK /\ ManifestInv /\ [Next]_vars =>
        [Entries \notin Unreadable /\ Entries' \notin Unreadable =>
             \A t \in Tenants :
                 (\A p \in Procs : app[p] # t) => (t \in Entries <=> t \in Entries')]_vars
  BY EntriesStep
<1> QED
  BY <1>1, TypeCorrect, ManifestInductive, PTL DEF Spec, EntriesKept

-----------------------------------------------------------------------------
(* Tenants with names as CredentialNames describes them.  Every result     *)
(* above that assumes DistinctNames holds of canonical names: those on     *)
(* which the normalisation of SecretName changes only "_" into "-".        *)

LowercaseLetters ==
    {"a", "b", "c", "d", "e", "f", "g", "h", "i", "j", "k", "l", "m", "n",
     "o", "p", "q", "r", "s", "t", "u", "v", "w", "x", "y", "z"}
DecimalDigits == {"0", "1", "2", "3", "4", "5", "6", "7", "8", "9"}

\* The names that pg.IdentSafe and validateWorkspace accept: up to 63 characters.
\* The variables of CredentialNames, two workspaces and a tenant of each, play no part.
Naming == INSTANCE CredentialNamesProofs
           WITH Letters <- LowercaseLetters, Digits <- DecimalDigits,
                NameLimit <- 63, MaxApp <- 63, MaxPrefix <- 63,
                w1 <- <<>>, w2 <- <<>>, t1 <- <<>>, t2 <- <<>>

\* The tenants of one workspace, and the Secret names it gives them.
OneWorkspace(prefix) ==
    /\ prefix \in Naming!SecretPrefixes
    /\ \A t \in Tenants :
           /\ t \in Naming!Apps /\ Naming!Canonical(t)
           /\ SecretNameOf[t] = Naming!SecretName(prefix, t)

LEMMA NamesAssumptions ==
    /\ Naming!CharactersAssumption
    /\ Naming!LimitAssumption
    /\ Naming!BoundsAssumption
<1>1. Naming!CharactersAssumption
  <2>1. "a" \in LowercaseLetters
    BY DEF LowercaseLetters
  <2>2. "_" \notin Naming!Alnum /\ "-" \notin Naming!Alnum
    BY DEF Naming!Alnum, LowercaseLetters, DecimalDigits
  <2> QED
    BY <2>1, <2>2 DEF Naming!CharactersAssumption
<1>2. Naming!LimitAssumption
  BY DEF Naming!LimitAssumption
<1>3. Naming!BoundsAssumption
  BY DEF Naming!BoundsAssumption
<1> QED
  BY <1>1, <1>2, <1>3

LEMMA CanonicalNamesDistinct ==
  ASSUME NEW prefix, OneWorkspace(prefix)
  PROVE  DistinctNames
<1> SUFFICES ASSUME NEW t \in Tenants, NEW u \in Tenants,
                    SecretNameOf[t] = SecretNameOf[u]
             PROVE  t = u
  BY DEF DistinctNames
<1>1. /\ prefix \in Naming!SecretPrefixes
      /\ t \in Naming!Apps /\ Naming!Canonical(t)
      /\ u \in Naming!Apps /\ Naming!Canonical(u)
      /\ Naming!SecretName(prefix, t) = Naming!SecretName(prefix, u)
  BY DEF OneWorkspace
<1> QED
  BY <1>1, NamesAssumptions, Naming!CanonicalSeparate

\* A workspace whose tenants have canonical names needs no other assumption: whatever
\* verbs run, interleave and fail, no password reaches another tenant, no store of a
\* tenant without a verb changes, and a verb that returns nil without company has
\* done what it promises.
THEOREM CanonicalTenantsAreSafe ==
  ASSUME NEW CONSTANT prefix, OneWorkspace(prefix)
  PROVE  Spec => /\ []PasswordIsolation
                 /\ BystandersKept
                 /\ []ProvisionCompletes
                 /\ []RotateCompletes
                 /\ []DropCompletes
<1>1. DistinctNames
  BY CanonicalNamesDistinct
<1> QED
  BY <1>1, PasswordsIsolated, BystandersAreKept, ProvisionsComplete, RotationsComplete,
     DropsComplete, PTL
=============================================================================
