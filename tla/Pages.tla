--------------------------------- MODULE Pages ---------------------------------
(***************************************************************************)
(* A browser in front of the portal: what its tabs show, the requests they *)
(* send, and how the router of internal/web/server.go and the handlers of  *)
(* internal/web/handlers.go answer them, with the pages of Templates.      *)
(*                                                                         *)
(* Handlers keep no state between requests: what they read of a cluster is *)
(* chosen anew each time.  PortalServer models the identity of a request   *)
(* and the life of the server, TenantData and TenantVerbs what verbs do.   *)
(***************************************************************************)
EXTENDS Handlers

Tpl == INSTANCE Templates

CONSTANTS
    Tabs,
    Clusters,           \* ClusterRegistry.Targets
    Default,            \* ClusterRegistry.Default
    AllowedOrigins,     \* --allowed-origin
    Lower               \* strings.ToLower of a database's name

\* WorkspaceCatalog!ServerStarts: the server never starts without its default.
ASSUME DefaultAssumption == Default \in Clusters

\* validClusterID refuses the empty name.
ASSUME ClustersAssumption == "" \notin Clusters

\* identSafePattern matches more than one name, and no capitals, nor does
\* databaseNameSafePattern.
ASSUME IdentsAssumption == \E d, e \in Idents : d # e
ASSUME LowerAssumption == \A n \in Idents \cup Hyphenated : Lower[n] = n

\* "other" stands for every origin that is not allowed, and "none" for a missing
\* one or "null", which canonicalOrigin refuses.
ASSUME OriginsAssumption == {"other", "none"} \cap AllowedOrigins = {}

VARIABLES
    admin,      \* whether the user is on the admin list
    page,       \* page[t]: what the tab shows
    request,    \* request[t]: what the tab waits for
    trail       \* trail[t]: the last database that the tab was shown to be
                \* managed, or for which the user typed a lifecycle address
vars == <<admin, page, request, trail>>

-----------------------------------------------------------------------------
(* Routes and forms *)

Lifecycle == {"sync", "rotate", "restore", "drop"}
FormRoutes == {"new", "import", "branch"} \cup Lifecycle
GetRoutes == ViewRoutes \cup FormRoutes \cup {"conns", "dump"}
Nameless == {"list", "new", "import", "backup"}

\* What a user can send with a form: browsers encode a form well, only an upload
\* can be cut short; src is what the handler makes of the option chosen.
Filled(c, choice) ==
    {f \in InputsOf(FieldsOf[c.route]) :
        /\ f.deps = Deps
        /\ f.wellFormed \/ c.route = "import"
        /\ c.route \notin Nameless => f.name = c.name
        /\ c.route = "sync" => f.src = Lower[choice]
        /\ c.route = "restore" => f.backup = choice
        /\ c.route = "terminate" => f.pid = choice}

\* The name check a form's page starts with.
NameSafe(route, name) ==
    CASE route \in {"new", "import"} -> TRUE
      [] route \in {"branch", "detail", "conns", "dump"} -> DatabaseNameSafe(name)
      [] OTHER -> IdentSafe(name)

-----------------------------------------------------------------------------
(* Pages *)

\* A page of another site, or the plain text of an http.Error or a 404.
Foreign(kind) ==
    [kind |-> kind, cluster |-> "", name |-> "", password |-> FALSE, controls |-> {}]

\* What a form's page can be: its data is read when it is made.
FormPages(route, base, name) ==
    IF ~NameSafe(route, name) THEN {Tpl!ErrorPage(base)}
    ELSE CASE route = "new" -> {Tpl!NewTenantForm(base)}
           [] route = "import" -> {Tpl!ImportDumpForm(base)}
           [] route = "branch" -> {Tpl!BranchTenantForm(base, name)}
           [] route = "drop" -> {Tpl!DropTenantForm(base, name)}
           [] route = "rotate" -> {Tpl!RotateTenantForm(base, name)}
           [] route = "sync" ->
                {Tpl!ErrorPage(base)} \cup
                {Tpl!SyncTenantForm(base, name, S \ {name}) : S \in SUBSET Names}
           [] route = "restore" ->
                {Tpl!ErrorPage(base)} \cup
                {Tpl!RestoreTenantForm(base, name, B) : B \in SUBSET {"valid"}}
           [] OTHER -> {Tpl!ErrorPage(base)}

DonePage(route, base, form) ==
    CASE route \in {"new", "import"} -> Tpl!NewTenantCreated(base, form.app)
      [] route = "branch" -> Tpl!BranchTenantCreated(base, form.dst)
      [] route = "sync" -> Tpl!SyncTenantDone(base, form.name)
      [] route = "rotate" -> Tpl!RotateTenantDone(base, form.name)
      [] route = "restore" -> Tpl!RestoreTenantDone(base, form.name)
      [] OTHER -> Tpl!DropTenantDone(base)

-----------------------------------------------------------------------------
(* The browser *)

None == [at |-> "none"]

\* granted says that the user has been an admin at some time since the request.
Ask(t, r) ==
    request' = [request EXCEPT ![t] =
        [at |-> "sent", how |-> r.how, method |-> r.method, cluster |-> r.cluster,
         route |-> r.route, name |-> r.name, form |-> r.form, choice |-> r.choice,
         origin |-> r.origin, site |-> r.site, workspace |-> "", granted |-> admin]]

Get(how, cluster, route, name) ==
    [how |-> how, method |-> "GET", cluster |-> cluster, route |-> route, name |-> name,
     form |-> [name |-> name, deps |-> Deps], choice |-> "",
     origin |-> "none", site |-> "same-origin"]

\* An address typed or bookmarked, or a cluster chosen in the switcher.  Pages
\* are not cached (no-store), so going back is asking again.
Visit(t) ==
    /\ request[t].at = "none"
    /\ \E c \in Clusters \cup {"", "unknown"}, r \in GetRoutes, n \in Names :
          /\ Ask(t, Get("typed", c, r, IF r \in Nameless THEN "" ELSE n))
          /\ trail' = IF r \in Lifecycle THEN [trail EXCEPT ![t] = <<c, n>>] ELSE trail
    /\ UNCHANGED <<admin, page>>

\* A link or a form of the page.  A proxy may change the Host the portal sees,
\* and browsers may withhold the Origin.
Follow(t) ==
    /\ request[t].at = "none"
    /\ \E c \in page[t].controls :
          \/ /\ c.method = "GET"
             /\ Ask(t, Get("followed", c.cluster, c.route, c.name))
          \/ /\ c.method = "POST"
             /\ \E choice \in (IF c.options = {} THEN {""} ELSE c.options) :
                \E f \in Filled(c, choice), o \in {"host", "proxy", "none"} :
                   Ask(t, [how |-> "followed", method |-> "POST", cluster |-> c.cluster,
                           route |-> c.route, name |-> c.name, form |-> f,
                           choice |-> choice, origin |-> o, site |-> "same-origin"])
    /\ UNCHANGED <<admin, page, trail>>

\* A page of another site posts to the portal.
PostFromElsewhere(t) ==
    /\ request[t].at = "none"
    /\ page[t].kind = "elsewhere"
    /\ \E c \in Clusters, r \in AdminRoutes \ {"conns", "dump"}, o \in {"other", "none"} :
       \E f \in InputsOf(FieldsOf[r]) :
          Ask(t, [how |-> "posted", method |-> "POST", cluster |-> c, route |-> r,
                  name |-> f.name, form |-> f, choice |-> "", origin |-> o,
                  site |-> "cross-site"])
    /\ UNCHANGED <<admin, page, trail>>

-----------------------------------------------------------------------------
(* The router *)

\* Mutant of SameOrigin: a missing Origin is let through.
SameOriginLax(r) ==
    \/ r.method = "GET"
    \/ r.origin \in {"host", "none"} \cup AllowedOrigins

\* SameOriginMiddleware.
SameOrigin(r) ==
    \/ r.method = "GET"
    \/ r.origin \in {"host"} \cup AllowedOrigins
    \/ r.origin = "none" /\ r.site = "same-origin"

\* RequireAdmin guards the routes of its group.
Routed(r) == r.cluster \in Clusters /\ (r.route \in AdminRoutes => admin)

\* Mutant of DepsOf: every cluster's handlers are built with the default's Deps.
DepsOfDefault(cluster) == Default

\* RouterClusters builds the handlers of a cluster with the Deps of its target.
DepsOf(cluster) == cluster

ToDefault(r) == r.cluster = "" /\ r.route = "list" /\ r.method = "GET"

\* GET / and GET /clusters.
Redirect(t) ==
    /\ request[t].at = "sent"
    /\ ToDefault(request[t])
    /\ request' = [request EXCEPT ![t].cluster = Default]
    /\ UNCHANGED <<admin, page, trail>>

\* 403 or 404, in plain text.
Reject(t) ==
    /\ request[t].at = "sent"
    /\ ~ToDefault(request[t])
    /\ ~(SameOrigin(request[t]) /\ Routed(request[t]))
    /\ page' = [page EXCEPT ![t] = Foreign("plain")]
    /\ request' = [request EXCEPT ![t] = None]
    /\ UNCHANGED <<admin, trail>>

Admit(t) ==
    /\ request[t].at = "sent"
    /\ SameOrigin(request[t])
    /\ Routed(request[t])
    /\ request' = [request EXCEPT ![t].at = "handler",
                                  ![t].workspace = DepsOf(request[t].cluster)]
    /\ UNCHANGED <<admin, page, trail>>

-----------------------------------------------------------------------------
(* The handlers that show something.  isAdmin is read when the page is made. *)

Render(t, p) ==
    /\ page' = [page EXCEPT ![t] = p]
    /\ request' = [request EXCEPT ![t] = None]

Handling(t, method, routes) ==
    /\ request[t].at = "handler"
    /\ request[t].method = method
    /\ request[t].route \in routes

ShowForm(t) ==
    /\ Handling(t, "GET", FormRoutes)
    /\ \E p \in FormPages(request[t].route, request[t].cluster, request[t].name) :
          Render(t, p)
    /\ UNCHANGED <<admin, trail>>

ShowList(t) ==
    /\ Handling(t, "GET", {"list"})
    /\ \/ Render(t, Tpl!ErrorPage(request[t].cluster))
       \/ \E S \in SUBSET Names : Render(t, Tpl!TenantList(request[t].cluster, S, admin))
    /\ UNCHANGED <<admin, trail>>

\* Status, then the Secret of a managed database, whoever asks.
ShowDetail(t) ==
    LET base == request[t].cluster
        name == request[t].name
    IN
    /\ Handling(t, "GET", {"detail"})
    /\ UNCHANGED admin
    /\ \/ Render(t, Tpl!ErrorPage(base)) /\ UNCHANGED trail
       \/ /\ TenantDetail(request[t].form)
          /\ \/ Render(t, Tpl!TenantNotFound(base, name)) /\ UNCHANGED trail
             \/ \E managed, creds \in BOOLEAN :
                   /\ creds => managed
                   /\ Render(t, Tpl!TenantDetail(base, name, managed, creds, admin))
                   /\ trail' = IF managed THEN [trail EXCEPT ![t] = <<base, name>>]
                                          ELSE trail

ShowConnections(t) ==
    /\ Handling(t, "GET", {"conns"})
    /\ \/ Render(t, Tpl!ErrorPage(request[t].cluster))
       \/ /\ TenantConnections(request[t].form)
          /\ \E pids \in SUBSET {"positive"} :
                Render(t, Tpl!TenantConnections(request[t].cluster, request[t].name,
                                                pids, admin))
    /\ UNCHANGED <<admin, trail>>

\* A download leaves the page as it is.
Download(t) ==
    /\ Handling(t, "GET", {"dump"})
    /\ IF DumpTenant(request[t].form)
       THEN request' = [request EXCEPT ![t] = None] /\ UNCHANGED page
       ELSE Render(t, Tpl!ErrorPage(request[t].cluster))
    /\ UNCHANGED <<admin, trail>>

-----------------------------------------------------------------------------
(* The handlers that run a verb *)

\* Mutant of h_route: a path without the BasePath.
h_routeBare(r) == ""

\* Handlers.route, the address of a redirect after a POST.
h_route(r) == r.cluster

Submit(t) ==
    /\ Handling(t, "POST", AdminRoutes)
    /\ Calls(request[t].route, request[t].form)
    /\ request' = [request EXCEPT ![t].at = "verb"]
    /\ UNCHANGED <<admin, page, trail>>

\* The form again, with a message, or an error page.
Refuse(t) ==
    /\ Handling(t, "POST", AdminRoutes)
    /\ ~Calls(request[t].route, request[t].form)
    /\ \E p \in FormPages(request[t].route, request[t].cluster, request[t].name) :
          Render(t, p)
    /\ UNCHANGED <<admin, trail>>

Succeed(t) ==
    /\ request[t].at = "verb"
    /\ request[t].route \notin {"terminate", "backup"}
    /\ Render(t, DonePage(request[t].route, request[t].cluster, request[t].form))
    /\ UNCHANGED <<admin, trail>>

\* A terminated session goes back to the sessions; a backup, whatever came of
\* it, to the list, for no form of the UI sends HX-Request.
SeeOther(t) ==
    /\ request[t].at = "verb"
    /\ request[t].route \in {"terminate", "backup"}
    /\ Ask(t, Get("followed", h_route(request[t]),
                  IF request[t].route = "backup" THEN "list" ELSE "conns",
                  IF request[t].route = "backup" THEN "" ELSE request[t].name))
    /\ UNCHANGED <<admin, page, trail>>

\* Only a restore that fails shows its form again.
Fail(t) ==
    /\ request[t].at = "verb"
    /\ request[t].route # "backup"
    /\ \E p \in (IF request[t].route = "restore"
                 THEN FormPages("restore", request[t].cluster, request[t].name)
                 ELSE {Tpl!ErrorPage(request[t].cluster)}) : Render(t, p)
    /\ UNCHANGED <<admin, trail>>

\* SIGHUP: the admin list changes while requests are under way.
Reload ==
    /\ admin' = ~admin
    /\ request' = [t \in Tabs |->
                     IF request[t].at = "none" \/ admin THEN request[t]
                     ELSE [request[t] EXCEPT !.granted = TRUE]]
    /\ UNCHANGED <<page, trail>>

-----------------------------------------------------------------------------

Init ==
    /\ admin \in BOOLEAN
    /\ page = [t \in Tabs |-> Foreign("elsewhere")]
    /\ request = [t \in Tabs |-> None]
    /\ trail = [t \in Tabs |-> <<>>]

Next ==
    \/ \E t \in Tabs :
          \/ Visit(t) \/ Follow(t) \/ PostFromElsewhere(t)
          \/ Redirect(t) \/ Reject(t) \/ Admit(t)
          \/ ShowForm(t) \/ ShowList(t) \/ ShowDetail(t) \/ ShowConnections(t)
          \/ Download(t)
          \/ Submit(t) \/ Refuse(t) \/ Succeed(t) \/ SeeOther(t) \/ Fail(t)
    \/ Reload

Spec == Init /\ [][Next]_vars

-----------------------------------------------------------------------------
(* Properties *)

Running(t) == request[t].at = "verb"

(* A verb that changes something runs in the cluster of the page its form      *)
(* stands on, for the database of that page, and never for a page of another  *)
(* site: "switching a cluster in one tab cannot retarget another tab's         *)
(* destructive form submission" (server.go).                                   *)
VerbOnPage ==
    \A t \in Tabs : Running(t) =>
        /\ page[t].kind # "elsewhere"
        /\ request[t].workspace = page[t].cluster
        /\ request[t].route \notin Nameless => request[t].form.name = page[t].name

(* Sync, rotate, restore and drop run only for a database that the tab was     *)
(* last shown to be managed, or whose operation the user typed the address     *)
(* of: databases of a shared owner role do not expose these controls           *)
(* (docs/multi-cluster-spec.md).                                               *)
LifecycleManaged ==
    \A t \in Tabs : Running(t) /\ request[t].route \in Lifecycle =>
        trail[t] = <<request[t].workspace, request[t].form.name>>

(* What a page offers for a database the portal can manage can be carried out: *)
(* its handler shows a page, or accepts some way of filling in the form.  For  *)
(* a hyphenated name, detail, sessions, dump and branching remain.             *)
OffersWork ==
    \A t \in Tabs : \A c \in page[t].controls :
        \/ IF c.method = "GET" THEN c.route \in Nameless \/ NameSafe(c.route, c.name)
           ELSE \E o \in (IF c.options = {} THEN {""} ELSE c.options) :
                   \E f \in Filled(c, o) : Calls(c.route, f)
        \/ c.name \in Others
        \/ c.name \in Hyphenated /\ c.route \in Lifecycle
        \/ c.route = "sync" /\ c.options \subseteq Others

(* An address the user follows, and a redirect after a form, never lead into   *)
(* another cluster.                                                            *)
ClusterKept ==
    [][\A t \in Tabs :
          page'[t].cluster \in Clusters /\ page'[t].cluster # page[t].cluster
            => request[t].how = "typed"]_vars

(* A password is shown only to a user who has been an admin since asking, of   *)
(* the portal's pages the detail page included, which every viewer may open.   *)
CredentialsToAdmins ==
    [][\A t \in Tabs :
          page'[t].password /\ page'[t] # page[t] => request[t].granted]_vars

(* "The form picks a source from the dropdown of all other tenants and         *)
(* overwrites this tenant's database with the source" (handlers.go).           *)
SyncsChosenSource ==
    \A t \in Tabs : Running(t) /\ request[t].route = "sync" =>
        request[t].form.src = request[t].choice
================================================================================
