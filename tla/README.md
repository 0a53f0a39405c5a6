# cnpg-portal: a TLA+ development

cnpg-portal manages tenants of a CloudNativePG (CNPG) Postgres cluster: a tenant is a
role, a database it owns, a Secret in Kubernetes, a SOPS-encrypted copy of that Secret in
a Git workspace, and an entry in the workspace's `cluster.yaml`. Every operation is a
*verb*, a sequence of calls to those stores, which share no transaction. The same verbs
are run by the web UI (`cnpgctl serve`) and by the command line; nothing locks a tenant,
and any call may fail or be the process's last.

The development asks what that costs: what holds whatever interleaving and whatever
failure, what holds only when one verb has its tenant to itself, and what does not hold;
and, of the web UI in front of the verbs, what a page may lead to and for whom.

    tlc -workers 2 -config Verbs.cfg MCTenantVerbs.tla
    tlapm TenantVerbsProofs.tla

`PROJECT.json` lists the runs, the correspondence of definitions to source lines, the
hazards and the theorems.

## 1. Inventory of the system

Paths are below `src/internal/` unless they start with `cmd/`.

| component | state it keeps | operations | what is hard |
|---|---|---|---|
| credential verbs, `tenant/{provision,rotate,drop}.go` | none of its own: SOPS file, Secret, role, database, grants, `cluster.yaml` | Provision, Rotate, Drop | partial failure, interleaving of verbs, re-runs |
| data verbs, `tenant/{branch,sync,import,restore}.go` | contents of databases | Branch, Sync, ImportFromDump, ImportFromRemoteURL, RestoreFromBackup | destructive first step, partial loads, loads that outlive their request, scripts run as postgres |
| manifest editor, `clusteryaml/patch.go` | `cluster.yaml` | AppendRole, RemoveRole | read-modify-write without a lock, truncation before writing |
| SOPS store, `sops/` | encrypted files | EncryptForWorkspace, WriteEncryptedAtomic, Decrypt | which recipient; atomic replacement |
| names, `workspace.SecretName`, `tenant/k8sname.go` | none | SecretName, SecretPath, dns1123Basename | normalisation that is not injective |
| workspace catalog, `workspace/workspace.go` | immutable after start | FindCatalog, Select, validation | defaults, several clusters in one marker |
| GitOps controller and CNPG (not in the repository) | last commit, managed roles | sync Secret, sync Cluster, reconcile role | run at any time, bring back old values |
| psql/pg_dump wrappers, `pg/{sql,import}.go`; exec, `k8s/exec.go` | none | RunSQL, RunQuery, PgDump, PgDumpRestore, Restore... | lost answers; commands that go on in the pod |
| dump stream, `pg/stream.go` | two goroutines, a pipe | CrossPodDumpRestore | which end is closed and waited for first |
| recovery cluster, `tenant/restore.go`, `cnpg/cluster.go` | a temporary Cluster | create, wait for pod, probe, deferred delete | orphans, cleanup under a fresh context, no deadline from the CLI |
| backups, `cnpg/backup.go` | Backup resources | Trigger, Wait, ListBackups, LatestCompleted | polling, timeouts, phases |
| admin list and identity, `web/identity.go` | set of logins under a lock | Reload on SIGHUP, Has, middleware, RequireAdmin | reload against requests, failed reloads, precedence of identities |
| server lifecycle, `web/{server,timeout}.go` | listener, base context | ServeClusters, shutdown | signal, drain, grace, contexts of requests |
| handlers, `web/handlers.go`; middleware, `web/{middleware,server}.go` | none | one verb each, behind identity, admin and confirmation | order of the checks; the request's context is the verb's |
| cluster registry, `web/clusters.go`; `--cluster`, `cmd/cnpgctl/deps.go` | immutable | NewClusterRegistry, findCluster | the default is worked out three times |
| pages, `web/templates/` | what each browser tab shows | links and forms of every page, the switcher | pages are acted on long after they were made |
| read-only verbs, `tenant/{list,status,connections,credentials}.go` | none | List, Status, Connections, ReadCredentials; TerminateConnection | several reads that do not belong together |
| connection strings, `connstr/`; literals, `pg/sql.go`; `sops` password parsing | none | a password written into seven languages | each has its own quoting |
| rest of the command line, assets, metrics, version | none | flags, output, constants | - |

**How they interact.** A handler or a command checks its input and calls one verb with a
`Deps` bundle. A verb calls the SOPS store and the manifest editor (files in the
workspace), the Kubernetes API (the Secret), and `psql` or `pg_dump | pg_restore` inside
the primary's pod through the exec API. Handlers pass the request's context, so a closed
browser tab is a cancellation in the middle of the verb. The operator commits the
workspace by hand; the GitOps controller applies the commit, CNPG sets the passwords of
the managed roles the commit lists.

**What makes each part correct.**

- *Credential verbs*: a verb that succeeds has completed whatever was half done before
  it; passwords never cross tenants; tenants no verb runs on keep what they have.
- *Data verbs*: a copy reported as done is whole, and no other database pays for it
  (unless an uploaded script does more than fill its own).
- *Manifest*: parseable at all times; lists exactly the tenants whose verbs succeeded;
  never lists a role whose SOPS file is missing.
- *Controllers*: once left alone, file, Secret and role agree.
- *Names*: distinct tenants, and distinct workspaces in one namespace, have distinct
  Secrets.
- *Recovery cluster*: gone when the verb is over, and never the live cluster.
- *Backups*: a reported completion is the backup's.
- *Admin list*: a mutation only by a login on some list that was in force during the
  request; a failed reload changes nothing.
- *Server*: what is in flight at shutdown is drained.
- *Catalog*: server and command line agree which clusters there are and which is meant,
  and every cluster can be worked on.
- *Pages*: a verb runs where and for what its form's page shows, and only if the portal
  sent the form; what a page offers can be done; a password is shown to admins.
- *Quoting*: a password is read back as it was written.

## 2. Modules

| module | models | builds on |
|---|---|---|
| `TenantVerbs` | Provision, Rotate, Drop call by call, manifest edits included | - |
| `TenantLedger` | what their callers are promised, on one ledger | refined by `TenantVerbs` |
| `MCTenantVerbs` | instances | `TenantVerbs`, instance of `CredentialNames` |
| `TenantGitOps`, `MCTenantGitOps` | the verbs composed with commits, GitOps controller and CNPG | `TenantVerbs` |
| `TenantData`, `MCTenantData` | Branch, Sync, imports, restore and Drop on database contents | - |
| `RecoveryRestore` | RestoreFromBackup around its recovery cluster, the dump stream's goroutines, on-demand backups, CNPG's side of both | - |
| `CredentialNames` | names of Secrets, recovery clusters, backups and branches as sequences of characters | - |
| `WorkspaceCatalog` | marker files, catalog, selection, registry | - |
| `Quoting` | a password in connection strings, SQL and YAML, and the readers of those | - |
| `MCConventions` | the three above in one run | all three |
| `Handlers` | the checks of each handler and of the verb behind it, as operators on a request | - |
| `PortalServer`, `MCPortalServer` | start and shutdown, admin list, the way of a request to its verb | `Handlers` |
| `Templates` | what every page offers | - |
| `Pages`, `MCPages` | tabs of a browser, the router, the answers of the handlers | `Handlers`, instance of `Templates` |
| `TenantVerbsProofs`, `TenantGitOpsProofs`, `TenantDataProofs`, `RecoveryRestoreProofs`, `PortalServerProofs`, `PagesProofs`, `CredentialNamesProofs` | theorems and proofs | the module each is named after; `TenantGitOpsProofs` also `TenantVerbsProofs`, and that an instance of `CredentialNamesProofs` |
| `ConventionsProofs` | theorems and proofs | `WorkspaceCatalog`, `Quoting` |

Handlers and pages stop at the call of a verb, which `TenantVerbs`, `TenantData` and
`RecoveryRestore` begin with: the three leave the web server and each other out, and meet
in the stores. A verb is any process there, whoever started it, so that what is shown of
verbs holds for every mixture of web requests and commands.

### TenantVerbs

A process is a web request or a CLI invocation. Its `pc` is its next call; `verb`, `app`
and `pw` are the Go locals; `snap` is the role list it read from `cluster.yaml`; `fresh`
says that the Secret it read has not changed since, which is what the API server's
comparison of the resourceVersion tells it. `alone` is an auxiliary variable: no other
verb ran on the tenant since this one began.

The stores are `file` and `secret` (indexed by Secret name, since two tenants may share
one), `role`, `db`, `grants`, `manifest`. A password is a record of the tenant it was
generated for and a number, so that two random strings are never equal.

| action | code |
|---|---|
| `Start`, `Finish` | entry and successful return of a verb |
| `Fail` | any return with an error, a cancelled context, a dead process. Every call is an action that may be the last, so a failure before a call and an answer lost after it are both covered. A statement whose exec was cut off may run later: the verb, which does nothing after an error, stands at that call until then |
| `ReuseFile`, `NewFile`, `WriteFile`, `RemoveFile` | `ensureSecretFile` (any error of `os.Stat` counts as no file, so `NewFile` may replace one), `WriteEncryptedAtomic` (atomic: temporary file and rename), the removal in Drop |
| `GetSecret`, `CreateSecret`, `UpdateSecret`, `DeleteSecret` | `applyClusterSecret` with AlreadyExists and Conflict; Drop |
| `EnsureRole`, `RoleExists`, `AlterRole`, `DropRole` | SQL on the role |
| `QueryDatabase`, `CreateDatabase`, `AlterDatabase`, `DropDatabase`, `GrantConnect`, `GrantPublic` | SQL on the database; the look-up and the statement that follows are two calls |
| `ReadManifest`, `TruncateManifest`, `WriteManifest` | `clusteryaml.modify`: `os.ReadFile`, then the two halves of `os.WriteFile` |

`Empty` and `Torn` are the two contents of `cluster.yaml` that do not parse: truncated,
and the mixture two overlapping writes of different length leave. The YAML tree, its
comments and the sequence's order are abstracted to the set of roles listed.

### TenantLedger

The abstract specification of the three verbs. A tenant is one entry of a `ledger`; a
client calls a verb, works, and leaves. `Work` may do anything to the entry of its own
tenant, in any number of steps; only the step that returns nil (`ok`) is held to the
promise, and only if no other verb ran on the tenant since this one began. `Leave` at any
time is an error, a cancelled context or a crash. `TenantVerbs!Ledger` maps the four
stores to the ledger and `done` to `ok`; `LedgerImplemented` is the refinement.

### TenantGitOps

Adds `committed`, the workspace at the last commit, and `managed`, the roles of the
Cluster resource. `Commit` is the operator; `SyncSecret`, `SyncCluster` and
`ReconcileRole` are the controllers. None is code of this repository: they are modelled
from what `rotate.go`, `provision.go` and the README say they do, and marked external.

### CredentialNames, WorkspaceCatalog, Quoting

Pure code, as operators. `CredentialNames` has `IdentSafe`, `validClusterID`,
`dns1123Basename`, `Workspace.SecretName`, `recoveryClusterName`, the name of a Backup and
`DefaultBranchDestination` on sequences of characters, one operator per step of the Go code.
`WorkspaceCatalog` keeps of a setting whether it is set and fit for use: finding the marker
(`--workspace`, the environment, the parents of the current directory), defaults and their
order, validation, `Select`, `findCluster` and `NewClusterRegistry`. `Quoting` writes a
password the way `connstr`, `alterRolePassword`, `ensureRole` and SOPS do, and reads it
again with small automata for what libpq, a shell, a URL, a JDBC URL, a SQL literal and
YAML do: those six readers are external. The `.env` block is left out. `Along` runs such an
automaton, a recursive function of the position, and `Replaced`, Go's `strings.Replacer`,
is one more.

In `MCConventions` every combination within the bounds is an initial state, and only one
of the three modules varies in a state.

### TenantData

A database is who owns it, whether the tenant may use it, and its set of objects. Each
object is named after the database it was first created in, so that the origin of every
object shows. `pg_dump` reads one consistent snapshot (`snap`), `pg_restore` loads it
object by object (`left` is what it has not come to), counts objects that exist already
(`clean`) and carries on; it exits with 0 only if it read the whole archive and counted
nothing. `Kill` ends the sessions on a database, as `DROP DATABASE ... WITH (FORCE)` and
`pg_terminate_backend` do; plain `DROP DATABASE` is refused while a session is open.
What runs in the pod need not end with the request or with the process that started it:
the pipeline `bash -c "pg_dump | pg_restore"` has no way to notice, a `pg_restore` or
`psql` that was fed goes on with what it has been sent, a statement runs to its end. A
verb stands where the last of that is, and `Fail` is when that has ended, however long
before the caller had its error: it does nothing else in between.

Of the calls Branch and the imports make through Provision only those on role and
database are kept; of RestoreFromBackup, what happens after the recovery cluster answers.
The base backup is of the initial state. An import is of an archive (`import`, loaded by
`pg_restore` as the tenant's role) or of a script (`importSQL`, loaded by psql as
postgres). What postgres creates the tenant may use only through the default privileges
Provision has granted before, so `usable` is kept apart from `objects`, and `grantFirst`,
before the load, from `grant`, after it.

A script is text that postgres executes: besides filling its destination it may
`\connect` to, create, fill or drop any other database (`Stray`), before, between and
after the objects it was dumped from. Whoever has that database as its destination has
had company then, and so has the import itself, which cannot say what it has loaded
where. That a script leaves its own database whole is the assumption under which
`CopiesWhole` and `CopiesUsable` speak of scripts at all.

### RecoveryRestore

A process runs one restore or one backup at a time; `pc` is its next call. `over` is its
context: done by a deadline (web), a closed connection or a signal; nothing succeeds
under it any more. `clusters` holds the recovery clusters, each with the process that
created it. `Owned` are the labels at which the deferred `DeleteCluster` is registered:
`OnError` sends an error there to `cleanup` and any other to `failed`. `Cleanup` does not
look at `over`, because the code gives the deferred call a context of its own.

The stream is two goroutines, `dump` and `load`, that run concurrently with everything
else, and `moved`, the number of writes `pg_restore` has read. The pipe has no buffer:
`Move` is a write that returns. When `pg_restore` is gone before all is written, `Block`
is a write that does not, since the reading end is closed last; only the context ends it.
`StreamReturns` needs both goroutines. A goroutine is its exec, not the command: where the
exec is cut off, by the context or the connection, `pg_restore` may go on in the pod
(`adrift`) until it ends by itself (`PodExits`), which nothing in the model obliges it to.

A cluster's `orphan` is set where no code could help: the process died, the answer to its
creation was lost (the verb then returns before it has deferred anything), or the
deferred deletion itself failed. `made` is auxiliary: this process's creation took place.
The operator is `BackupProceeds` and `PodChanges`, in any order or not at all. What a
backup `has` is the set of tenants that existed when it was taken.

### Handlers and PortalServer

`Handlers` has, for each route, the fields of its request (`FieldsOf`), when the handler
calls its verb (`Calls`) and when the verb accepts its arguments (`VerbAccepts`). A field's
values are names of three kinds (those `IdentSafe` accepts, those only `DatabaseNameSafe`
accepts, others), so that any two fields may agree or differ. `Dispatched` is what the
requests that reach a verb come to.

`PortalServer` adds the actors: `ServeClusters` (`Start`, `Drain`, `Return`), its listener
(`ListenFails`), the goroutine of `WatchSIGHUP` (`WatchSIGHUP`, `Open`, `Scan`,
`WatcherEnds`) with a channel of one signal, and a goroutine per request (`Arrive` with
`IdentityMiddleware`'s precedence of bearer token, dev login, header and tailnet
fallback; `RequireAdmin`; `Dispatch`; the several ways to end). `Reload` reads in two
steps, so that the file may change after it was opened. `Cancelled` is the request's
context, which descends from the server's. Auxiliary: `versions`, every list the file has
been; `inForce`, who has been an admin since a request arrived; `announced`, SIGHUP has
been sent since the file last changed and no reload since has met an error.

### Templates and Pages

A page is its kind, the cluster and database it was made for, its links and forms
(`controls`), and whether it shows a password. `Templates` has one operator per template.
In `Pages` a tab holds a `page` and at most one `request`, which it waits for. The user
types or bookmarks an address, or switches the cluster (`Visit`); follows a link or sends
a form (`Follow`) filled in in any way a browser encodes well; or another site posts in
the user's name (`PostFromElsewhere`). The router redirects, rejects or admits, the
same-origin decision and the admin gate included; a handler then shows a page made of
whatever it finds (`ShowForm`, `ShowList`, `ShowDetail`, `ShowConnections`, `Download`) or
runs its verb (`Submit`, `Refuse`, `Succeed`, `SeeOther`, `Fail`). Handlers remember
nothing and so neither does the model: what exists, which database is managed and which
Secret is there are chosen anew at each reading. `Reload` changes who is an admin between
any two steps. Auxiliary: `granted`, the user has been an admin since the request was
sent; `trail`, the database the tab was last shown to be managed, or whose lifecycle
address was typed.

## 3. Runs

| run | question | bounds | distinct states |
|---|---|---|---|
| `verbs` | `TypeOK`, `PasswordIsolation`, `ProvisionCompletes`, `RotateCompletes`, `DropCompletes`, `LedgerImplemented` under every interleaving | 2 processes, 2 tenants with legacy databases, 3 passwords for the one and none for the other | 1,738,987 |
| `gitops` | `ManifestUpdated`, `ListedHasFile`, one verb at a time; `Converges`, `DropSettles`: do the loops settle on what was committed | 1 process, 1 tenant, 3 passwords | 47 thousand |
| `data` | `TypeOK`, `CopiesWhole`, `CopiesUsable`, `SourcesKept` | 2 processes, 2 names of which one is a legacy database, 1 object per origin | 4.2 million |
| `restore` | `TypeOK`, `NoOrphans`, `StreamJoined`, `DeletesOwn`, `DropNeedsCopy`, `Ends`, `BackupReported` | 2 processes, 1 tenant, 1 backup, 1 cluster name, 2 writes | 84,242 |
| `server` | `TypeOK`, `VerbsByAdmins`, `ArgumentsAccepted`, `ListIsWhole`, `HupObeyed`, `ServeReturns` | 3 combinations of flags, 2 logins, 1 request at a time, 1 change of the file | 134,072 |
| `pages` | `VerbOnPage`, `LifecycleManaged`, `OffersWork`, `ClusterKept`, `CredentialsToAdmins` | 1 tab, 2 clusters, 2 identifiers, a hyphenated name and one in capitals | 790,050 |
| `conventions` | `NamesValid`, `SecretsSeparate`, `BranchDefaultAccepted`, `ServerStarts`, `CommandsAgree`, `TargetsUsable`, `StringsRead`, `FileReachesRole` | names up to 6 characters (where 6 stands for 63), prefixes up to 4; 2 valid IDs and an invalid one in a marker, and a second marker above; passwords up to 4 of 11 kinds of characters | 390 thousand |
| `torn_manifest` | `ManifestReadable`, which fails | 1 process, 2 tenants | |
| `shared_name` | `OneSecretPerTenant`, which fails | 1 process, tenants `a_b` and `a__b` | |
| `restore_hang` | `StreamReturnsAfterLoad`, which fails | 1 process, 1 write | |
| `drain` | `DrainsInFlight`, which fails | as `server`, no change of the file | |
| `sync_source` | `SyncsChosenSource`, which fails | as `pages` | |

**Why the bounds suffice.** Most safety properties are proved for all values of the
constants (section 5); the runs are there to find mistakes in them cheaply and to show that
the cases occur. Two processes are what a race takes; two tenants what an exchange takes,
and the second needs no password of its own for that: either would show in the other's
stores. Three passwords let a stale one, the one in force and a new one exist at once.
`MaxGen` is the only counter. In `data` the legacy database is the only one at first, and
every other comes from a verb: two origins are enough to tell a partial load, a mixture
and a replacement apart. In `restore` a single name makes every two recovery clusters
collide; both processes come back for more, so one backup name and one tenant meet every
order of restores and backups; two writes let `pg_restore` end before the first, between
the two and after them. In `server` a request relates only to the list and to the server,
and another request follows it; the file as it was, as it became, missing and unreadable
are all there with one change. In `pages` tabs share nothing but the admin list, which
changes at any time, so one tab suffices; the second cluster is what one may be led astray
to. In `conventions` a name of six has a doubled separator between letters on both sides
and is cut where a longer one would be; the limit of 63 is scaled to 6 with the constant
parts of names; four characters hold every pair of special ones in a context.

**Deadlock** is checked in every run but `server` and `drain`, in which the program ends:
elsewhere a process can always start another verb, a tab visit another page, and the
states of `conventions` stutter.
**Symmetry** is used for processes only, and only in runs of safety properties.

**Fairness.** The verbs of `TenantVerbs` and `TenantData` have none: a process may stop
for ever after any call, a user may never run anything again. `TenantGitOps` assumes weak
fairness of the three controller actions: controllers reconcile for as long as the
cluster lives, and nothing else in the model can keep them from it. Commits are not fair;
`Converges` and `DropSettles` speak of behaviours in which the workspace does end up
committed, and `DropSettles` of those in which every verb ends.

`RecoveryRestore` assumes it of each process that has begun (`Proceed`): goroutines are
scheduled and every single call is answered, if only with an error, for client-go and the
exec stream end when their connection does. Polling is not obliged to meet an error, the
operator to finish a backup or a pod, nor a context to end: hence `Ends` says "once its
context is over", `BackupReported` "once the phase is final". `PortalServer` assumes it
of the watcher, of `ServeClusters` and of the grace period's timer, and nothing of
requests: a verb may hang, and `ServeReturns` holds nevertheless.

## 4. What the runs show

*Holding.* A verb that succeeds without company on its tenant completes whatever a history
of failed and interleaved verbs left behind, in all of file, Secret, role, database and
grants; calls stay with their tenant. Two verbs that overlap on one tenant may both succeed
and leave the stores in disagreement until the next verb: the properties say "without
company" because the code does no more. The order of steps in Provision (file first,
manifest last) and Drop (manifest before file) keeps every listed role's file in place, with
one verb at a time, and an edit for one tenant, done or broken off, leaves the entries of
the others as they are (unless it stops right after the truncation). Under the controllers
everything converges on what was committed. CNPG may create a dropped role again until a
workspace without it is committed; from then on a Drop that succeeds stays (`DropSettles`).
A Branch, Sync, import or restore that reports success has copied everything its `pg_dump`
read, and the tenant may use it, though other verbs end its sessions, drop its source, or
have left a load running somewhere else. While no uploaded script runs, a verb changes no
database but its destination.

A restore deletes its recovery cluster whenever it can, and nothing under a name whose
creation was refused because it is taken (a deletion repeated because its answer was lost
goes by name, and may meet a namesake created meanwhile); it drops the live database only
after a recovery cluster has shown the tenant's own, made from the backup asked for as long
as the restore's cluster is there; it waits for both of the stream's goroutines, and when it
reports success no `pg_restore` of its own is left in the pod; and once its context is over
it ends wherever it was. A verb runs only for somebody on a list in force during the
request; handlers and verbs agree on what they accept; a reload leaves the old list, the new
one or, without a file, none; a SIGHUP is not lost to the reload before it; and the server
stops within its grace period.

In the UI a verb runs in the cluster, and for the database, of the page its form stands
on, and not for another site's; a sync, rotation, restore or drop only for a database the
tab was last shown to be managed, or whose address was typed; every control can be carried
out; no link leaves its cluster; and the detail page, which reads the password for every
viewer, shows it to admins only. The server starts whenever the commands work, `/` and a
command without `--cluster` mean the same cluster, and `--cluster` means what
`/clusters/<id>/` shows. Secrets of canonical names, and of workspaces of which no prefix
extends another's, stay apart. A password is read back from every text it is written into
but the `.env` block.

*Not holding.* Five disagreements between a comment and the code:

1. `torn_manifest`: `clusteryaml.modify` truncates `cluster.yaml` and then writes it. A
   stop in between leaves a file no later verb parses; re-running does not recover.
   SOPS files, by contrast, are replaced atomically.
2. `shared_name`: `a_b` and `a__b` are both accepted and have one Secret and one file;
   the second Provision takes over the first one's password.
3. `restore_hang`: when `pg_restore` ends early, `pg_dump`'s goroutine stays in its write
   to the pipe, and the restore with it, until the context ends; from the command line
   nothing but a signal ends it. Closing the reading end where `pg_restore`'s goroutine
   ends would release it.
4. `drain`: SIGTERM ends the base context of every request, so that what is in flight is
   cancelled rather than drained. The verbs' properties cover a stop at any call; the
   restore's clean-up, with up to three minutes of its own, outlives a grace of 20 seconds.
5. `sync_source`: the sync form offers databases under the names they have, capitals
   included, and the handler lower-cases the one chosen: another database is copied over
   the destination, or none.

*Limits of what holds.* A Sync that stops between its DROP and its CREATE is refused when
it is re-run, by its own look-up of the destination, until the database is created again.
`ManifestUpdated`, `ListedHasFile` and the theorem `EntriesAreKept` are about one verb at a
time: two overlapping edits of `cluster.yaml` lose one of them although both verbs
return success. `CopiesWhole` says nothing of a verb that had company on its destination,
a load left behind and an uploaded script included. A restore that failed may leave a
`pg_restore` that still writes to the live database. `ListIsWhole` is about a file that
is replaced as a whole, as a mounted one is: of an edit in place a reload may read half.
A plain SQL script that was cut short loads without an error and is reported as imported;
an archive is not. A Branch that is re-run after a failed load meets the objects it
created and fails again.

Exceptions written into the properties, where the code has them too: `NamesValid` (a
`cnpgctl backup` of a name with an underscore asks for a Backup Kubernetes refuses),
`BranchDefaultAccepted` (a source of 63 characters that ends in the suffix is proposed to
itself), `TargetsUsable` (the legacy marker is not validated), `OffersWork` (lifecycle
controls of a hyphenated database and anything of a name in capitals are answered with an
error), `SourcesKept` (uploaded scripts, which run as postgres), `StreamJoined` (a
`pg_restore` whose exec was cut off, after an error), `StringsRead` and `FileReachesRole`
(the `.env` block; tabs in conninfo strings; an empty password in a file, which
`parseSecretPassword` refuses as "password field not found"; quotes, backslashes
and tabs in a SOPS file edited by hand; two dollars in a row, which end the DO block of
`ensureRole`: the portal generates none of these). That prefixes of two workspaces in one
namespace differ, as `SecretsSeparate` assumes, nothing checks.

Seen on the way, and no property's business: the `.env` block has the password in a shell's
quotes, needed or not, and is offered for "a Compose / k8s Deployment env block", where what
becomes of the quotes depends on how the line is copied; no form sends `HX-Request`, so the
page with the outcome of a backup is never shown; `cmd/cnpgctl/new.go` proposes to `git add`
a path that is `SecretPath`'s only without a prefix and for canonical names;
`generatePassword` draws 24 bytes, its comment says 32.

## 5. Proofs

TLAPS checks them for any set of tenants, processes, Secret names, recovery cluster names
and backups, dumps of any length, databases of any size, any users, requests, flags,
tabs and clusters, and names, markers and passwords of any length and number.

| module | theorem | statement |
|---|---|---|
| `TenantVerbsProofs` | `TypeCorrect` | `Spec => []TypeOK` |
| | `PasswordsIsolated`* | `Spec => []PasswordIsolation` |
| | `BystandersAreKept`* | `Spec => BystandersKept` |
| | `ProvisionsComplete`*, `RotationsComplete`*, `DropsComplete`* | `Spec => []...Completes` |
| | `CanonicalTenantsAreSafe` | the five above, for the canonical tenants of one workspace and without `DistinctNames` |
| | `VerbsImplementLedger`* | `Spec => Ledger!Spec`: the refinement |
| | `ListedRolesHaveFiles`*, `ManifestIsUpdated`*, `EntriesAreKept`* | with one process: `Spec => []ListedHasFile`, `Spec => []ManifestUpdated` (of the verb's own tenant), `Spec => EntriesKept` (of all others) |
| `TenantGitOpsProofs` | `PasswordsIsolatedUnderControllers`* | `GSpec => []PasswordIsolation` |
| | `ListedRolesHaveFilesUnderControllers`*, `ManifestIsUpdatedUnderControllers`*, `EntriesAreKeptUnderControllers`* | with one process: `GSpec => []ListedHasFile`, `GSpec => []ManifestUpdated`, `GSpec => EntriesKept` |
| | `ControllersApproach`* | `GSpec => Approaches`: the controllers only come nearer to agreement |
| | `NothingDueMeansAgreement`* | with one process: settled and not in agreement, a controller has something to do |
| | `RepeatedDropsRepair`* | `GSpec => DropsRepair`, and a released Drop that succeeds has left nothing |
| `TenantDataProofs` | `TypeCorrect`, `CopiesAreWhole`, `CopiesAreUsable`, `SourcesAreKept` | `TypeOK`, `CopiesWhole`, `CopiesUsable`, `SourcesKept` |
| `RecoveryRestoreProofs` | `TypeCorrect`, `StreamsJoined`, `OrphansExplained`, `OnlyOwnDeleted`, `DropsHaveCopy` | `TypeOK`, `StreamJoined`, `NoOrphans`, `DeletesOwn`, `DropNeedsCopy` |
| `PortalServerProofs` | `TypeCorrect`, `VerbsAreByAdmins`, `ArgumentsAreAccepted`, `ListsAreWhole` | `TypeOK`, `VerbsByAdmins`, `ArgumentsAccepted`, `ListIsWhole` |
| `PagesProofs` | `VerbsRunOnTheirPage`, `LifecycleIsManaged`, `ClusterIsKept`, `CredentialsReachAdmins`, `OffersAlwaysWork` | `VerbOnPage`, `LifecycleManaged`, `ClusterKept`, `CredentialsToAdmins`, `OffersWork` |
| `CredentialNamesProofs` | `ObjectNamesValid`, `SecretsKeptSeparate`, `BranchDefaultIsAccepted` | `NamesValid`, `SecretsSeparate`, `BranchDefaultAccepted` |
| `ConventionsProofs` | `ServerAlwaysStarts`, `CommandsAlwaysAgree`, `TargetsAlwaysUsable` | `ServerStarts`, `CommandsAgree`, `TargetsUsable` |
| | `StringsAreRead`, `FilesReachRole` | `StringsRead`, `FileReachesRole` |

Every invariant and action property that a passing run checks is a theorem here.

**Assumptions.** The constants' assumptions:

- a Secret name per tenant, bounds that are natural numbers, a dump of at least one write,
  a default among the clusters, markers that are none of the values they mark;
- for the names, that the letters are not empty, that neither they nor the digits contain
  `_` or `-`, and that a name may have five characters (`NameLimit` is 63);
- for the pages, that there are two names `IdentSafe` accepts, that the accepted names are
  in lower case already, and that no cluster's ID is empty (`identSafePattern`,
  `validClusterID`);
- for the catalog, that the default cluster ID is a label and every marker well formed
  YAML of the schema.

Where there is a star, the theorem assumes `DistinctNames`: no two tenants share a Secret
name. That is a hypothesis of the theorems and not of the module, because the code does
not ensure it: `shared_name` shows what happens without it. `CanonicalTenantsAreSafe`
discharges it for the tenants of one workspace whose names are canonical (`Canonical`: no
underscore at the end and no two in a row). The theorems about the manifest are about one
process because they are false of two: each may write back the `cluster.yaml` it has read
before the other changed it.

**Arguments.**

- *Types.* `TypeOK` is inductive by itself, because it says of each label whether the
  process has its tenant and its password there.
- *Isolation.* `IsolationInv` adds that an idle process remembers nothing
  (`IdleForgets`); otherwise a process could carry a password into the next verb. A
  password enters a process by generation (named after its tenant) or from the file of
  its own tenant; `DistinctNames` makes that file nobody else's.
- *Bystanders.* `StepFrame` collects what a call may change: pc and password of its own
  process and the holdings of its own tenant. `DistinctNames` separates the tenants.
- *Completion.* The properties only speak of `done`, so the inductive invariant has to
  say what has been achieved at each call before: `ProvisionSoFar`, `RotateSoFar`,
  `DropSoFar` are those lists, `OwnSteps` confines a process to the calls of its verb,
  and `Private` says that the tenant of a process that is `alone` is no other's, so that
  by `StepFrame` nobody undoes what it has achieved. No hypothesis on the state in which
  the verb began is needed, which is the point: any partial state will do.
- *Refinement.* A call is `Work` of its client: by `StepFrame` nothing but its tenant's
  entry changes. Where it reaches `done` the completion invariant is what the ledger
  promises (`PromiseKept`), once it is known that a Provision or Rotate past its first call
  has a password (`HasPassword`). `Start` is `Call`, `Finish` and `Fail` are `Leave`.
- *Manifest.* `EntriesKept` is proved only: the run with one verb at a time, `gitops`,
  affords one tenant. `EditInv` follows the one process through its edit: what it is going
  to write has files, has or lacks its own tenant, and agrees with what it read on every
  other; after the truncation nobody else writes. No controller writes the file or its
  snapshot, so the invariant survives them, without the completion invariant, which does
  not: a controller may undo what a verb has achieved.
- *Controllers.* What a commit holds came from the files (`CommittedIsolation`), so what
  the controllers bring back stays with its tenant.
- *Convergence.* `Distance` weighs what is off for a tenant: its Secret by four, the
  Cluster's list by two, the role by one, so that each controller may spoil what comes
  after it and still come nearer. Once a workspace is settled a controller step on the
  tenant lessens it (`ApproachStep`) and none increases it; and where no controller has
  anything to do, the manifest's invariant gives the file and thereby the agreement. With
  the weak fairness `Converges` assumes, a distance of at most seven is gone after as many
  steps: that last inference is about fairness and is left to TLC.
- *Repeated drops.* `Released` says that neither the last commit nor the Cluster has the
  tenant any more, so that no controller restores it; `OnCourse` what a Drop without
  company has removed so far if that was so from its first call, and `CompanyInv` that
  nobody else touches the tenant meanwhile.
- *Copies.* `DInv` says what a verb with its destination to itself has achieved at each
  step (`Achieved`): a replacing verb has dropped the database, then an empty one, then
  exactly what has been loaded; what has been read is what has been loaded and what is left;
  without an error all of it is usable. `OwnSteps` confines a verb to its steps and
  `Private` a destination to its verb; a session that another verb ends only moves its
  process to `killed` (`KilledSomewhere`). A script that reaches into another database ends
  the privacy of that destination and of its own verb, so `DInv` survives it (`StrayInv`).
- *Recovery cluster.* `IInv` adds to the properties what makes them inductive. `ArgsKnown`:
  a restore knows its tenant, and up to its creation an existing backup. `MadeFirst`: where
  the deletion is registered there has been a creation; hence `DeletesOwn`. `SourcesExist`,
  `FromChosen`: a cluster's backup exists, and is the one its owner was asked for.
  `UnfinishedEmpty`: a backup only gains what it has, so that what a cluster has shown
  (`Shown`) is still true at the DROP, though the cluster itself may be gone by then; hence
  `DropNeedsCopy`. `StreamJoined` follows from `Joined`, which adds that a `pg_restore` is
  adrift only beside an exec that failed, or where the stream is over and has failed;
  `NoOrphans` is inductive given the types; the two lemmas `OrphansFrame` and `ClusterGiven`
  are the two ways in which a step keeps the second.

- *Admin list.* `HandlersCheck` compares, route by route, the checks of handler and verb.
  The invariant `SInv` adds that what a reload has opened, and the list in force, are lists
  the file has been, or none, and that whoever is an admin has been one since every request
  under way arrived.
- *Pages.* `TabsInv` states for every tab what its page may offer (`PageOk`: controls of one
  cluster and one database, lifecycle controls only for the tab's `trail`) and what its
  request may be (`RequestOk`: one of the page's controls, a typed address, or a foreign
  post that has not been admitted). `FormPageOk`, `ShownPageOk`
  and `DonePageOk` show this of the three kinds of pages, from their templates.
- *Offers.* `OffersInv` says of the controls of every page which names they carry:
  `IdentSafe` ones where the handler checks for that, `DatabaseNameSafe` ones elsewhere.
  For each route a way to fill in the form is named, which is why two accepted names are
  needed: a branch wants another name than its source's.
- *Names.* Every stage of `dns1123Basename` keeps some positions of its argument. `Kept`
  picks the k-th of them, and that there is one for every k up to their number is a matter
  of counting (`RankFacts`). Lengths and alphabets follow from that for any name; for a
  canonical name every stage keeps everything, so the Secret's name determines prefix and
  tenant.
- *Catalog.* A catalog that validates has IDs that differ, so the registry's map has as
  many entries as the catalog has clusters and `NewClusterRegistry` refuses none; looking
  an ID up in either is then the same.
- *Passwords.* These are by induction over the string. The library's induction theorems
  cannot be instantiated here, but well-foundedness as a statement on sets can
  (`NatLessThanWellFounded`, `WFMin`): `NaturalsInduce` and `SequencesInduce` state
  induction for a set of values. From them come the equations of `Along` (`AlongAppend`,
  `AlongConcat`). For each reader `Understands` looks at one character: what the writer
  makes of it brings the reader back to where it was, with that character read; `ReadBack`
  carries it to every string. `DollarsEnd`, `TrimNothing` and `TrimQuotes` are about
  positions.

**Only model-checked:** `Converges`, `DropSettles`, `Ends`, `BackupReported`, `HupObeyed`
and `ServeReturns`, since liveness under fairness is out of the prover's reach; of the first
two, what they need of the steps is proved (`ControllersApproach`,
`NothingDueMeansAgreement`, `RepeatedDropsRepair`).

**What the proofs have changed in the model.** The readers of `Quoting` had guards that
overlap, and relied on the first one being taken; TLA+ lets `CASE` take any. The proof of
`ConninfoUnderstands` failed on it, and the guards are now disjoint.

## 6. What is not modelled

- Encryption and the choice of recipients, YAML text and comments, HTML, logging, metrics,
  flags and output of the command line: data and formatting no property here is about.
- The parsing of psql's output, `validatePostgresURL` and `isInClusterHost`: pure checks of
  one string that keep no state. `LatestCompleted` and the sorting of backups serve the
  display.
- `EncryptInPlace`, which no verb calls; the set-up of the Kubernetes client; embedded
  assets; the version string.
- Applications that use a tenant's database. Their sessions could make a plain
  `DROP DATABASE` fail, which is among the failures.
- Postgres and Kubernetes beyond the calls the portal makes. Each call is atomic, as those
  systems promise, and takes effect once: before its verb leaves it, which may be after its
  caller had an error, or not at all. What an uploaded script does in its own database is
  taken to be what the dump it came from had; that `pg_restore` notices a truncated archive
  is assumed.
- Edits in place of the admin list file, of which a reload may read half.
- Two requests of one tab at a time: a browser ends the first, which is a cancelled
  request of `PortalServer`.

## 7. Where it could go

The modules of the plan are written and their runs and proofs complete. What would add to
them: an abstract specification of a copying verb for `TenantData` like `TenantLedger`,
and several processes in `TenantGitOps`, which multiplies its state space by that of a
second verb.
