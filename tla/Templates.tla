------------------------------- MODULE Templates -------------------------------
(***************************************************************************)
(* The pages of the web UI (internal/web/templates): for each template,    *)
(* the links and forms it offers, and whether it shows a password.  base   *)
(* is the BasePath of the page context, which names a cluster; everything  *)
(* a template is only there to word, lay out or format is left out.        *)
(***************************************************************************)

\* Mutant of Route: a path that begins with "/" is left as it is.
RouteRooted(base) == ""

\* Route: every address a template makes is scoped to the cluster of the page.
Route(base) == base

Link(base, route, name) ==
    [method |-> "GET", cluster |-> Route(base), route |-> route, name |-> name,
     options |-> {}]

\* options: what the one select of a form lets the user choose from, and the
\* processes of a page of connections.
Form(base, route, name, options) ==
    [method |-> "POST", cluster |-> Route(base), route |-> route, name |-> name,
     options |-> options]

\* The brand links to the list; the switcher is an action of Pages.
Layout(kind, base, name, controls, password) ==
    [kind |-> kind, cluster |-> base, name |-> name, password |-> password,
     controls |-> controls \cup {Link(base, "list", "")}]

ErrorPage(base) == Layout("error", base, "", {}, FALSE)
TenantNotFound(base, name) == Layout("notFound", base, name, {}, FALSE)

-----------------------------------------------------------------------------
(* The list, the detail page and the connections *)

BackupStatus(base, canTrigger) == IF canTrigger THEN {Form(base, "backup", "", {})} ELSE {}

\* A row links the database's page and, for admins, a download of its dump.
tenantRow(base, name, isAdmin) ==
    {Link(base, "detail", name)} \cup
    (IF isAdmin THEN {Link(base, "dump", name)} ELSE {})

TenantList(base, tenants, isAdmin) ==
    Layout("list", base, "",
           (UNION {tenantRow(base, t, isAdmin) : t \in tenants})
             \cup BackupStatus(base, isAdmin)
             \cup (IF isAdmin THEN {Link(base, "new", "")} ELSE {}),
           FALSE)

\* Mutant of TenantDetail: the operations are offered whoever owns the database.
TenantDetailShared(base, name, managed, creds, isAdmin) ==
    Layout("detail", base, name,
           IF isAdmin THEN {Link(base, r, name) : r \in {"conns", "branch", "sync",
                                                          "rotate", "restore", "drop"}}
                      ELSE {},
           isAdmin /\ managed /\ creds)

\* Mutant of TenantDetail: connection strings are shown to viewers.
TenantDetailOpen(base, name, managed, creds, isAdmin) ==
    Layout("detail", base, name,
           IF isAdmin THEN {Link(base, r, name) : r \in {"conns", "branch"}} ELSE {},
           managed /\ creds)

\* managed is hasManagedRole: a login role of the database's name owns it.  creds
\* says that the Secret could be read; connectionStrings shows its password.
TenantDetail(base, name, managed, creds, isAdmin) ==
    Layout("detail", base, name,
           IF ~isAdmin THEN {}
           ELSE {Link(base, r, name) :
                    r \in {"conns", "branch"} \cup
                          (IF managed THEN {"sync", "rotate", "restore", "drop"}
                                      ELSE {})},
           isAdmin /\ managed /\ creds)

\* One form per session that can be terminated.
TenantConnections(base, name, pids, isAdmin) ==
    Layout("conns", base, name,
           {Link(base, "detail", name), Link(base, "conns", name)} \cup
           (IF isAdmin /\ pids # {} THEN {Form(base, "terminate", name, pids)} ELSE {}),
           FALSE)

-----------------------------------------------------------------------------
(* The forms, each of which is also its own error page *)

NewTenantForm(base) ==
    Layout("newForm", base, "",
           {Form(base, "new", "", {}), Link(base, "import", "")}, FALSE)

ImportDumpForm(base) ==
    Layout("importForm", base, "",
           {Form(base, "import", "", {}), Link(base, "new", "")}, FALSE)

TenantForm(kind, base, route, name, options) ==
    Layout(kind, base, name,
           {Form(base, route, name, options), Link(base, "detail", name)}, FALSE)

BranchTenantForm(base, src) == TenantForm("branchForm", base, "branch", src, {})
DropTenantForm(base, app) == TenantForm("dropForm", base, "drop", app, {})
RotateTenantForm(base, app) == TenantForm("rotateForm", base, "rotate", app, {})

\* Without a database to choose, or a backup, there is no form.
ChoiceForm(kind, base, route, name, options) ==
    IF options = {} THEN Layout(kind, base, name, {Link(base, "detail", name)}, FALSE)
                    ELSE TenantForm(kind, base, route, name, options)

SyncTenantForm(base, dst, sources) == ChoiceForm("syncForm", base, "sync", dst, sources)
RestoreTenantForm(base, app, backups) ==
    ChoiceForm("restoreForm", base, "restore", app, backups)

-----------------------------------------------------------------------------
(* The pages that report a success; three of them show the new DSN *)

DonePage(kind, base, name, password) ==
    Layout(kind, base, name, {Link(base, "detail", name)}, password)

NewTenantCreated(base, app) == DonePage("created", base, app, TRUE)
BranchTenantCreated(base, dst) == DonePage("branchDone", base, dst, TRUE)
RotateTenantDone(base, app) == DonePage("rotateDone", base, app, TRUE)
SyncTenantDone(base, dst) == DonePage("syncDone", base, dst, FALSE)
RestoreTenantDone(base, app) == DonePage("restoreDone", base, app, FALSE)
DropTenantDone(base) == Layout("dropDone", base, "", {}, FALSE)
================================================================================
