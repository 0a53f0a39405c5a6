------------------------------ MODULE TenantVerbs ------------------------------
(***************************************************************************)
(* The three verbs that own a tenant's credentials: Provision, Rotate and  *)
(* Drop (internal/tenant).  A verb is a sequence of calls to four stores   *)
(* that share no transaction: the SOPS file and cluster.yaml in the        *)
(* workspace, the Secret in Kubernetes, the role and database in Postgres. *)
(* Nothing in the portal locks a tenant: every web request and every CLI   *)
(* invocation is a process, and its calls interleave with those of the     *)
(* others.  A process may stop after any call: the call failed, its        *)
(* answer was lost, the browser went away (handlers pass r.Context()), or  *)
(* the program died.                                                       *)
(***************************************************************************)
EXTENDS Naturals

CONSTANTS
    Tenants,        \* names that pass pg.IdentSafe
    Procs,          \* web requests and CLI invocations that run verbs
    SecretNames,    \* Kubernetes object names
    SecretNameOf,   \* Workspace.SecretName: the tenant's Secret, and its file
    Legacy,         \* tenants whose database exists already, owned by postgres
    MaxGen,         \* bound: how many passwords a tenant is ever given
    None,           \* no Secret, no file, no role, no tenant
    Empty, Torn     \* contents of cluster.yaml that do not parse

ASSUME SecretNameAssumption == SecretNameOf \in [Tenants -> SecretNames]
ASSUME MaxGenAssumption == MaxGen \in [Tenants -> Nat]

Verbs == {"provision", "rotate", "drop"}

\* A password is a fresh random string: it is named after the tenant whose
\* verb generated it and the order it was generated in.
Password == [for : Tenants, gen : Nat]
Credential == [user : Tenants, pw : Password]

ASSUME NoneAssumption == None \notin Password \cup Credential \cup Tenants \cup Verbs
ASSUME UnreadableAssumption == \A S \in SUBSET Tenants : S # Empty /\ S # Torn

VARIABLES
    file,       \* SOPS file in secrets_dir, by Secret name
    secret,     \* live Secret, by Secret name
    role,       \* the Postgres role's password
    db,         \* "absent", or who owns the tenant's database
    grants,     \* privileges of the role in its database
    manifest,   \* roles listed by cluster.yaml, or what a torn write left
    gen,        \* passwords generated so far for a tenant
    pc, verb, app, pw,  \* a process's next call, verb, tenant, password
    snap,       \* the role list a process will write to cluster.yaml
    fresh,      \* the Secret a process read has its resourceVersion still
    alone       \* no other verb ran on the tenant since this one started

stores == <<file, secret, role, db, grants, manifest>>
local == <<verb, app, pw, snap, alone>>
vars == <<file, secret, role, db, grants, manifest, gen,
          pc, verb, app, pw, snap, fresh, alone>>

Steps == {"stat", "writeFile", "getSecret", "createSecret", "updateSecret",
          "ensureRole", "queryDatabase", "createDatabase", "alterDatabase",
          "grantConnect", "grantPublic", "roleExists", "alterRole",
          "dropDatabase", "dropRole", "deleteSecret",
          "readManifest", "truncateManifest", "writeManifest", "removeFile"}
Labels == Steps \cup {"idle", "done"}

\* What os.WriteFile leaves on disk between truncation and write, and what
\* two overlapping writes of different length may leave for good.  Neither
\* parses: navigateRoles reports "not a yaml document" or a missing key.
Unreadable == {Empty, Torn}
Owners == {"absent", "postgres", "tenant"}
Privileges == {"connect", "public"}

\* Before the portal touches it Postgres may hold databases of the same name,
\* owned by postgres: the legacy ones the Rotate pre-flight speaks of.
Init ==
    /\ file = [n \in SecretNames |-> None]
    /\ secret = [n \in SecretNames |-> None]
    /\ role = [t \in Tenants |-> None]
    /\ db = [t \in Tenants |-> IF t \in Legacy THEN "postgres" ELSE "absent"]
    /\ grants = [t \in Tenants |-> {}]
    /\ manifest = {}
    /\ gen = [t \in Tenants |-> 0]
    /\ pc = [p \in Procs |-> "idle"]
    /\ verb = [p \in Procs |-> None]
    /\ app = [p \in Procs |-> None]
    /\ pw = [p \in Procs |-> None]
    /\ snap = [p \in Procs |-> {}]
    /\ fresh = [p \in Procs |-> FALSE]
    /\ alone = [p \in Procs |-> FALSE]

-----------------------------------------------------------------------------
(* Helpers *)

SecretOf(p) == SecretNameOf[app[p]]
\* Mutant of PathOf: the path leaves the tenant out.
PathOfWorkspace(p) == CHOOSE n \in SecretNames : TRUE

PathOf(p) == SecretNameOf[app[p]]

Cred(p) == [user |-> app[p], pw |-> pw[p]]
Goto(p, l) == pc' = [pc EXCEPT ![p] = l]

\* Mutant of AfterSecret: Rotate forgets the SOPS file.
AfterSecretNoFile(p) == IF verb[p] = "provision" THEN "ensureRole" ELSE "done"

\* Mutant of AfterManifest: Drop returns before it removes the file.
AfterManifestNoRemove(p) == "done"

\* The call that follows a sub-routine two verbs share.
AfterSecret(p) == IF verb[p] = "provision" THEN "ensureRole" ELSE "writeFile"
AfterFile(p) == IF verb[p] = "provision" THEN "getSecret" ELSE "done"
AfterManifest(p) == IF verb[p] = "provision" THEN "done" ELSE "removeFile"

\* Mutant of FirstStep: Provision lists the role before it has a file.
FirstStepListed(v) == CASE v = "provision" -> "readManifest"
                        [] v = "rotate" -> "roleExists"
                        [] v = "drop" -> "dropDatabase"

FirstStep(v) == CASE v = "provision" -> "stat"
                  [] v = "rotate" -> "roleExists"
                  [] v = "drop" -> "dropDatabase"

\* Every write to a Secret gives it a new resourceVersion.
WriteSecret(n, c) ==
    /\ secret' = [secret EXCEPT ![n] = c]
    /\ fresh' = [q \in Procs |-> fresh[q] /\ app[q] # None /\ SecretOf(q) # n]

GeneratePassword(p) ==
    /\ gen[app[p]] < MaxGen[app[p]]
    /\ gen' = [gen EXCEPT ![app[p]] = @ + 1]
    /\ pw' = [pw EXCEPT ![p] = [for |-> app[p], gen |-> gen[app[p]] + 1]]

-----------------------------------------------------------------------------
(* The start and the two ends of a verb *)

Start(p, v, t) ==
    /\ pc[p] = "idle"
    /\ Goto(p, FirstStep(v))
    /\ verb' = [verb EXCEPT ![p] = v]
    /\ app' = [app EXCEPT ![p] = t]
    /\ alone' = [q \in Procs |-> IF q = p THEN \A r \in Procs : app[r] # t
                                          ELSE alone[q] /\ app[q] # t]
    /\ UNCHANGED <<stores, gen, pw, snap, fresh>>

Leave(p) ==
    /\ Goto(p, "idle")
    /\ verb' = [verb EXCEPT ![p] = None]
    /\ app' = [app EXCEPT ![p] = None]
    /\ pw' = [pw EXCEPT ![p] = None]
    /\ snap' = [snap EXCEPT ![p] = {}]
    /\ fresh' = [fresh EXCEPT ![p] = FALSE]
    /\ alone' = [alone EXCEPT ![p] = FALSE]
    /\ UNCHANGED <<stores, gen>>

\* The verb returned nil: the caller prints the DSN, which is pw[p].
Finish(p) == pc[p] = "done" /\ Leave(p)

\* The verb returned an error, its context was cancelled or its process died.
\* The calls it made stay made, and nothing undoes them.  A statement whose exec
\* was cut off may run in the pod after the verb returned.  A verb does nothing
\* after its first error, so it stands at that call until the statement has run,
\* or never will: Fail comes then, and those who start meanwhile have company.
Fail(p) == pc[p] \in Steps /\ Leave(p)

-----------------------------------------------------------------------------
(* ensureSecretFile, writeSOPSSecret, and Drop's os.Remove *)

\* Mutant of ReuseFile: a file without a password is accepted.
ReuseFileUnparsed(p) ==
    /\ pc[p] = "stat"
    /\ file[PathOf(p)] # None
    /\ Goto(p, "getSecret")
    /\ UNCHANGED <<stores, gen, local, fresh>>

\* An existing file is decrypted and only its password is taken from it.
ReuseFile(p) ==
    /\ pc[p] = "stat"
    /\ file[PathOf(p)] # None
    /\ pw' = [pw EXCEPT ![p] = file[PathOf(p)].pw]
    /\ Goto(p, "getSecret")
    /\ UNCHANGED <<stores, gen, verb, app, snap, fresh, alone>>

\* Any error of os.Stat counts as "no file", not only that there is none: what
\* could not be looked at is replaced, with a new password.
NewFile(p) ==
    /\ pc[p] = "stat"
    /\ GeneratePassword(p)
    /\ Goto(p, "writeFile")
    /\ UNCHANGED <<stores, verb, app, snap, fresh, alone>>

\* A temporary file renamed over the path: atomic, and last writer wins.
WriteFile(p) ==
    /\ pc[p] = "writeFile"
    /\ file' = [file EXCEPT ![PathOf(p)] = Cred(p)]
    /\ Goto(p, AfterFile(p))
    /\ UNCHANGED <<secret, role, db, grants, manifest, gen, fresh, local>>

RemoveFile(p) ==
    /\ pc[p] = "removeFile"
    /\ file' = [file EXCEPT ![PathOf(p)] = None]
    /\ Goto(p, "done")
    /\ UNCHANGED <<secret, role, db, grants, manifest, gen, fresh, local>>

-----------------------------------------------------------------------------
(* applyClusterSecret, and Drop's Secrets().Delete *)

GetSecret(p) ==
    LET s == secret[SecretOf(p)] IN
    /\ pc[p] = "getSecret"
    /\ \/ s = None /\ Goto(p, "createSecret") /\ UNCHANGED fresh
       \/ s = Cred(p) /\ Goto(p, AfterSecret(p)) /\ UNCHANGED fresh
       \/ /\ s # None
          /\ s # Cred(p)
          /\ Goto(p, "updateSecret")
          /\ fresh' = [fresh EXCEPT ![p] = TRUE]
    /\ UNCHANGED <<stores, gen, local>>

\* AlreadyExists if another process created it since the Get.
CreateSecret(p) ==
    /\ pc[p] = "createSecret"
    /\ secret[SecretOf(p)] = None
    /\ WriteSecret(SecretOf(p), Cred(p))
    /\ Goto(p, AfterSecret(p))
    /\ UNCHANGED <<file, role, db, grants, manifest, gen, local>>

\* The update carries the resourceVersion of the Get: Conflict, or NotFound,
\* if the Secret was written or deleted since.
UpdateSecret(p) ==
    /\ pc[p] = "updateSecret"
    /\ fresh[p]
    /\ WriteSecret(SecretOf(p), Cred(p))
    /\ Goto(p, AfterSecret(p))
    /\ UNCHANGED <<file, role, db, grants, manifest, gen, local>>

\* Mutant of DeleteSecret: by the managed-by label in place of the name.
DeleteSecretByLabel(p) ==
    /\ pc[p] = "deleteSecret"
    /\ secret' = [n \in SecretNames |-> None]
    /\ fresh' = [q \in Procs |-> FALSE]
    /\ Goto(p, "readManifest")
    /\ UNCHANGED <<file, role, db, grants, manifest, gen, local>>

DeleteSecret(p) ==
    /\ pc[p] = "deleteSecret"
    /\ WriteSecret(SecretOf(p), None)
    /\ Goto(p, "readManifest")
    /\ UNCHANGED <<file, role, db, grants, manifest, gen, local>>

-----------------------------------------------------------------------------
(* The calls to Postgres.  What it refuses is a guard here, and the error  *)
(* it returns is Fail.                                                     *)

\* CREATE ROLE, or ALTER ROLE when it exists, in one DO block.
EnsureRole(p) ==
    /\ pc[p] = "ensureRole"
    /\ role' = [role EXCEPT ![app[p]] = pw[p]]
    /\ Goto(p, "queryDatabase")
    /\ UNCHANGED <<file, secret, db, grants, manifest, gen, fresh, local>>

QueryDatabase(p) ==
    /\ pc[p] = "queryDatabase"
    /\ Goto(p, IF db[app[p]] = "absent" THEN "createDatabase" ELSE "alterDatabase")
    /\ UNCHANGED <<stores, gen, fresh, local>>

CreateDatabase(p) ==
    /\ pc[p] = "createDatabase"
    /\ db[app[p]] = "absent" /\ role[app[p]] # None
    /\ db' = [db EXCEPT ![app[p]] = "tenant"]
    /\ Goto(p, "grantConnect")
    /\ UNCHANGED <<file, secret, role, grants, manifest, gen, fresh, local>>

\* Mutant of AlterDatabase: an existing database keeps its owner.
AlterDatabaseKept(p) ==
    /\ pc[p] = "alterDatabase"
    /\ db[app[p]] # "absent"
    /\ Goto(p, "grantConnect")
    /\ UNCHANGED <<stores, gen, fresh, local>>

AlterDatabase(p) ==
    /\ pc[p] = "alterDatabase"
    /\ db[app[p]] # "absent" /\ role[app[p]] # None
    /\ db' = [db EXCEPT ![app[p]] = "tenant"]
    /\ Goto(p, "grantConnect")
    /\ UNCHANGED <<file, secret, role, grants, manifest, gen, fresh, local>>

Grant(p, privilege) ==
    /\ db[app[p]] # "absent" /\ role[app[p]] # None
    /\ grants' = [grants EXCEPT ![app[p]] = @ \cup {privilege}]
    /\ UNCHANGED <<file, secret, role, db, manifest, gen, fresh, local>>

GrantConnect(p) ==
    pc[p] = "grantConnect" /\ Grant(p, "connect") /\ Goto(p, "grantPublic")

GrantPublic(p) ==
    pc[p] = "grantPublic" /\ Grant(p, "public") /\ Goto(p, "readManifest")

\* Rotate's pre-flight: an error before anything changed when there is no role.
RoleExists(p) ==
    /\ pc[p] = "roleExists"
    /\ role[app[p]] # None
    /\ GeneratePassword(p)
    /\ Goto(p, "alterRole")
    /\ UNCHANGED <<stores, verb, app, snap, fresh, alone>>

AlterRole(p) ==
    /\ pc[p] = "alterRole"
    /\ role[app[p]] # None
    /\ role' = [role EXCEPT ![app[p]] = pw[p]]
    /\ Goto(p, "getSecret")
    /\ UNCHANGED <<file, secret, db, grants, manifest, gen, fresh, local>>

\* IF EXISTS: dropping what is not there succeeds.  The grants go with it.
DropDatabase(p) ==
    /\ pc[p] = "dropDatabase"
    /\ db' = [db EXCEPT ![app[p]] = "absent"]
    /\ grants' = [grants EXCEPT ![app[p]] = {}]
    /\ Goto(p, "dropRole")
    /\ UNCHANGED <<file, secret, role, manifest, gen, fresh, local>>

\* Mutant of DropRole: a refusal is logged and passed over.
DropRoleBestEffort(p) ==
    /\ pc[p] = "dropRole"
    /\ role' \in {role, [role EXCEPT ![app[p]] = None]}
    /\ Goto(p, "deleteSecret")
    /\ UNCHANGED <<file, secret, db, grants, manifest, gen, fresh, local>>

\* Refused while the role owns, or has privileges in, a database.
DropRole(p) ==
    /\ pc[p] = "dropRole"
    /\ db[app[p]] # "tenant" /\ grants[app[p]] = {}
    /\ role' = [role EXCEPT ![app[p]] = None]
    /\ Goto(p, "deleteSecret")
    /\ UNCHANGED <<file, secret, db, grants, manifest, gen, fresh, local>>

-----------------------------------------------------------------------------
(* clusteryaml.AppendRole and RemoveRole: read, edit, truncate, write      *)

\* Mutant of Edited: RemoveRole filters a copy it does not write back.
EditedCopy(p) == IF verb[p] = "provision" THEN manifest \cup {app[p]} ELSE manifest

Edited(p) == IF verb[p] = "provision" THEN manifest \cup {app[p]}
                                      ELSE manifest \ {app[p]}

\* ErrRoleExists leaves the file alone; RemoveRole always writes it.
ReadManifest(p) ==
    /\ pc[p] = "readManifest"
    /\ manifest \notin Unreadable
    /\ IF verb[p] = "provision" /\ app[p] \in manifest
         THEN Goto(p, "done") /\ UNCHANGED snap
         ELSE /\ snap' = [snap EXCEPT ![p] = Edited(p)]
              /\ Goto(p, "truncateManifest")
    /\ UNCHANGED <<stores, gen, verb, app, pw, fresh, alone>>

TruncateManifest(p) ==
    /\ pc[p] = "truncateManifest"
    /\ manifest' = Empty
    /\ Goto(p, "writeManifest")
    /\ UNCHANGED <<file, secret, role, db, grants, gen, fresh, local>>

\* Written at offset 0.  If another process wrote since the truncation, the
\* longer of the two texts sticks out behind the shorter one: the result is
\* one of the two, or a mixture that does not parse.
WriteManifest(p) ==
    /\ pc[p] = "writeManifest"
    /\ manifest' \in IF manifest \in {Empty, snap[p]}
                       THEN {snap[p]}
                       ELSE {snap[p], manifest, Torn}
    /\ Goto(p, AfterManifest(p))
    /\ UNCHANGED <<file, secret, role, db, grants, gen, fresh, local>>

-----------------------------------------------------------------------------

Step(p) ==
    \/ ReuseFile(p) \/ NewFile(p) \/ WriteFile(p) \/ RemoveFile(p)
    \/ GetSecret(p) \/ CreateSecret(p) \/ UpdateSecret(p) \/ DeleteSecret(p)
    \/ EnsureRole(p) \/ QueryDatabase(p) \/ CreateDatabase(p) \/ AlterDatabase(p)
    \/ GrantConnect(p) \/ GrantPublic(p)
    \/ RoleExists(p) \/ AlterRole(p) \/ DropDatabase(p) \/ DropRole(p)
    \/ ReadManifest(p) \/ TruncateManifest(p) \/ WriteManifest(p)

Next ==
    \E p \in Procs :
        \/ \E v \in Verbs, t \in Tenants : Start(p, v, t)
        \/ Step(p)
        \/ Finish(p)
        \/ Fail(p)

Spec == Init /\ [][Next]_vars

-----------------------------------------------------------------------------
(* Properties *)

NeedsPassword == {"writeFile", "getSecret", "createSecret", "updateSecret",
                  "ensureRole", "alterRole"}

\* The type invariant: a running verb has its tenant, and a password as soon
\* as it has resolved or generated one.
TypeOK ==
    /\ file \in [SecretNames -> Credential \cup {None}]
    /\ secret \in [SecretNames -> Credential \cup {None}]
    /\ role \in [Tenants -> Password \cup {None}]
    /\ db \in [Tenants -> Owners]
    /\ grants \in [Tenants -> SUBSET Privileges]
    /\ manifest \in Unreadable \cup SUBSET Tenants
    /\ gen \in [Tenants -> Nat]
    /\ pc \in [Procs -> Labels]
    /\ verb \in [Procs -> Verbs \cup {None}]
    /\ app \in [Procs -> Tenants \cup {None}]
    /\ pw \in [Procs -> Password \cup {None}]
    /\ snap \in [Procs -> SUBSET Tenants]
    /\ fresh \in [Procs -> BOOLEAN]
    /\ alone \in [Procs -> BOOLEAN]
    /\ \A p \in Procs :
           /\ pc[p] # "idle" => app[p] \in Tenants /\ verb[p] \in Verbs
           /\ pc[p] \in NeedsPassword => pw[p] \in Password

\* Two tenants never share a Secret name.  The code does not check it:
\* SecretName normalises the tenant's name and the prefix of the workspace.
DistinctNames == \A t, u \in Tenants : SecretNameOf[t] = SecretNameOf[u] => t = u

\* A password generated for a tenant is never stored for, set for, or shown to
\* the caller of a verb on, another tenant (ensureSecretFile reuses whatever
\* password the file holds; applyClusterSecret and ensureRole spread it).
PasswordIsolation ==
    \A t \in Tenants :
        /\ file[SecretNameOf[t]] # None =>
               file[SecretNameOf[t]].user = t /\ file[SecretNameOf[t]].pw.for = t
        /\ secret[SecretNameOf[t]] # None =>
               secret[SecretNameOf[t]].user = t /\ secret[SecretNameOf[t]].pw.for = t
        /\ role[t] # None => role[t].for = t
        /\ \A p \in Procs : app[p] = t /\ pw[p] # None => pw[p].for = t

\* "one SOPS-encrypted K8s Secret per tenant" (README): no tenant's role is given
\* the password that was generated for another.
OneSecretPerTenant == \A t \in Tenants : role[t] # None => role[t].for = t

\* A verb that returned nil, and no other verb overlapped on its tenant.
Succeeded(p, v) == pc[p] = "done" /\ verb[p] = v /\ alone[p]

\* The file, the Secret and the role all hold the password of the DSN the
\* verb is about to show.
CredentialsAgree(p) ==
    /\ file[PathOf(p)] = Cred(p)
    /\ secret[SecretOf(p)] = Cred(p)
    /\ role[app[p]] = pw[p]

\* "re-running on partial state completes the missing pieces" (Provision):
\* whatever earlier verbs left behind, failed or interleaved, a Provision that
\* succeeds without company ends with credentials that agree and a database
\* the role owns and may use.
ProvisionCompletes ==
    \A p \in Procs : Succeeded(p, "provision") =>
        /\ CredentialsAgree(p)
        /\ db[app[p]] = "tenant"
        /\ grants[app[p]] = Privileges

\* Rotate writes the role first and the file last; when it succeeds without
\* company no store still holds an older password.
RotateCompletes == \A p \in Procs : Succeeded(p, "rotate") => CredentialsAgree(p)

Gone(t) ==
    /\ file[SecretNameOf[t]] = None
    /\ secret[SecretNameOf[t]] = None
    /\ role[t] = None
    /\ db[t] = "absent"
    /\ grants[t] = {}

\* "re-running on partial state completes the cleanup" (Drop): a Drop that
\* succeeds without company leaves no credential, role or database behind.
DropCompletes == \A p \in Procs : Succeeded(p, "drop") => Gone(app[p])

\* What the verbs keep for a tenant outside cluster.yaml.
Holdings(t) == [file |-> file[SecretNameOf[t]], secret |-> secret[SecretNameOf[t]],
                role |-> role[t], db |-> db[t], grants |-> grants[t]]

\* No step of a verb changes the holdings of a tenant no verb runs on, whatever
\* interleaves with it.
BystandersKept ==
    [][\A t \in Tenants : (\A p \in Procs : app[p] # t /\ app'[p] # t)
                              => Holdings(t)' = Holdings(t)]_vars

Ledger == INSTANCE TenantLedger
            WITH Clients <- Procs,
                 ledger <- [t \in Tenants |-> Holdings(t)],
                 ok <- [p \in Procs |-> pc[p] = "done"]

\* Four stores without a transaction or a lock keep the promises of one ledger:
\* whichever calls of Provision, Rotate and Drop interleave and wherever they
\* stop, a call changes the holdings of its verb's tenant only, and the one that
\* makes a verb return nil leaves them as promised unless it had company.
LedgerImplemented == Ledger!Spec

\* cluster.yaml after a verb that succeeded lists its own tenant, or lists it no
\* more (AppendRole, RemoveRole).  Of the other entries EntriesKept speaks.
ManifestUpdated ==
    \A p \in Procs :
        /\ Succeeded(p, "provision") => app[p] \in manifest
        /\ Succeeded(p, "drop") => app[p] \notin manifest

\* The roles cluster.yaml lists; from its truncation to its write the verb that
\* edits it has them in memory only.
Entries ==
    LET writers == {p \in Procs : pc[p] = "writeManifest"}
    IN  IF writers = {} THEN manifest ELSE UNION {snap[p] : p \in writers}

\* No edit of cluster.yaml, from its read over its truncation to its write, adds or
\* loses the entry of a tenant no verb runs on: AppendRole and RemoveRole edit the
\* whole list, and modify writes all of it back.  One verb at a time: of two
\* overlapping edits the later write undoes the earlier one.  A verb that stops
\* right after the truncation loses them all (ManifestReadable).
EntriesKept ==
    [][Entries \notin Unreadable /\ Entries' \notin Unreadable =>
           \A t \in Tenants :
               (\A p \in Procs : app[p] # t) => (t \in Entries <=> t \in Entries')]_vars

\* A role cluster.yaml lists has its SOPS file: Provision writes the file first
\* and lists the role last, Drop unlists it before it removes the file, so that
\* the workspace can be committed after any failed verb.  One verb at a time:
\* two overlapping edits can bring a removed entry back.
ListedHasFile ==
    manifest \notin Unreadable => \A t \in manifest : file[SecretNameOf[t]] # None

\* cluster.yaml can be parsed whenever no verb is running: otherwise the next
\* Provision and Drop of every tenant fail at readManifest, however often they
\* are retried.
ManifestReadable == (\A p \in Procs : pc[p] = "idle") => manifest \notin Unreadable

=============================================================================
