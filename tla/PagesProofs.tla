------------------------------ MODULE PagesProofs ------------------------------
(***************************************************************************)
(* What holds in every tab, for any number of tabs, clusters and names,    *)
(* and whatever the clusters hold when a page is made.                     *)
(***************************************************************************)
EXTENDS Pages, TLAPS

-----------------------------------------------------------------------------
(* What is known of a page, given the tab's trail *)

ControlOk(c, base, name, tr) ==
    /\ c.cluster = base
    /\ c.method = "POST" /\ c.route \notin Nameless => c.name = name
    /\ c.route \in Lifecycle => tr = <<base, c.name>>

PageOk(p, tr) ==
    /\ p.cluster \in Clusters \cup {""}
    /\ p.controls # {} => p.kind # "elsewhere" /\ p.cluster \in Clusters
    /\ \A c \in p.controls : ControlOk(c, p.cluster, p.name, tr)

LEMMA LinkOk ==
  ASSUME NEW base, NEW route, NEW name, NEW n, NEW tr,
         route \in Lifecycle => tr = <<base, n>>
  PROVE  ControlOk(Tpl!Link(base, route, n), base, name, tr)
  BY DEF ControlOk, Tpl!Link, Tpl!Route

LEMMA FormOk ==
  ASSUME NEW base, NEW route, NEW name, NEW n, NEW tr, NEW options,
         route \notin Nameless => n = name,
         route \in Lifecycle => tr = <<base, n>>
  PROVE  ControlOk(Tpl!Form(base, route, n, options), base, name, tr)
  BY DEF ControlOk, Tpl!Form, Tpl!Route

PageOf(p, base, tr) == PageOk(p, tr) /\ p.cluster = base

\* A page whose kind is one of the portal's, with its controls.
LEMMA LayoutOk ==
  ASSUME NEW base \in Clusters, NEW kind, kind # "elsewhere", NEW name, NEW tr,
         NEW controls, NEW password,
         \A c \in controls : ControlOk(c, base, name, tr)
  PROVE  PageOf(Tpl!Layout(kind, base, name, controls, password), base, tr)
<1>1. ControlOk(Tpl!Link(base, "list", ""), base, name, tr)
  BY LinkOk DEF Lifecycle
<1> QED
  BY <1>1 DEF Tpl!Layout, PageOk, PageOf

\* The page of a form, of a database whose operations the user may be on.
LEMMA TenantFormOk ==
  ASSUME NEW base \in Clusters, NEW kind, kind # "elsewhere", NEW route, NEW name,
         NEW tr, NEW options, route \in Lifecycle => tr = <<base, name>>
  PROVE  /\ PageOf(Tpl!TenantForm(kind, base, route, name, options), base, tr)
         /\ PageOf(Tpl!ChoiceForm(kind, base, route, name, options), base, tr)
<1>1. ControlOk(Tpl!Link(base, "detail", name), base, name, tr)
  BY LinkOk DEF Lifecycle
<1>2. ControlOk(Tpl!Form(base, route, name, options), base, name, tr)
  BY FormOk
<1>3. ASSUME NEW C, \A c \in C : ControlOk(c, base, name, tr)
      PROVE  PageOf(Tpl!Layout(kind, base, name, C, FALSE), base, tr)
  BY <1>3, LayoutOk
<1>4. \A c \in {Tpl!Form(base, route, name, options), Tpl!Link(base, "detail", name)} :
         ControlOk(c, base, name, tr)
  BY <1>1, <1>2
<1>5. \A c \in {Tpl!Link(base, "detail", name)} : ControlOk(c, base, name, tr)
  BY <1>1
<1>6. PageOf(Tpl!TenantForm(kind, base, route, name, options), base, tr)
  BY <1>3, <1>4 DEF Tpl!TenantForm
<1>7. PageOf(Tpl!Layout(kind, base, name, {Tpl!Link(base, "detail", name)}, FALSE), base, tr)
  BY <1>3, <1>5
<1> QED
  BY <1>6, <1>7 DEF Tpl!ChoiceForm

\* A form's page: the form again, or an error.
LEMMA FormPageOk ==
  ASSUME NEW base \in Clusters, NEW route, NEW name, NEW tr,
         route \in Lifecycle => tr = <<base, name>>,
         NEW p \in FormPages(route, base, name)
  PROVE  PageOf(p, base, tr)
<1>0. ASSUME NEW kind, kind # "elsewhere", NEW n, NEW C,
             \A c \in C : ControlOk(c, base, n, tr)
      PROVE  PageOf(Tpl!Layout(kind, base, n, C, FALSE), base, tr)
  BY <1>0, LayoutOk
<1>1. PageOf(Tpl!ErrorPage(base), base, tr)
  BY <1>0 DEF Tpl!ErrorPage
<1>2. ControlOk(Tpl!Form(base, "new", "", {}), base, "", tr)
  BY FormOk DEF Lifecycle
<1>3. ControlOk(Tpl!Form(base, "import", "", {}), base, "", tr)
  BY FormOk DEF Lifecycle
<1>4. /\ ControlOk(Tpl!Link(base, "new", ""), base, "", tr)
      /\ ControlOk(Tpl!Link(base, "import", ""), base, "", tr)
  BY LinkOk DEF Lifecycle
<1>5. PageOf(Tpl!NewTenantForm(base), base, tr)
  <2>1. \A c \in {Tpl!Form(base, "new", "", {}), Tpl!Link(base, "import", "")} :
           ControlOk(c, base, "", tr)
    BY <1>2, <1>4
  <2> QED
    BY <2>1, <1>0 DEF Tpl!NewTenantForm
<1>6. PageOf(Tpl!ImportDumpForm(base), base, tr)
  <2>1. \A c \in {Tpl!Form(base, "import", "", {}), Tpl!Link(base, "new", "")} :
           ControlOk(c, base, "", tr)
    BY <1>3, <1>4
  <2> QED
    BY <2>1, <1>0 DEF Tpl!ImportDumpForm
<1>7. CASE route = "branch" /\ p = Tpl!BranchTenantForm(base, name)
  BY <1>7, TenantFormOk DEF Tpl!BranchTenantForm
<1>8. CASE route = "drop" /\ p = Tpl!DropTenantForm(base, name)
  BY <1>8, TenantFormOk DEF Tpl!DropTenantForm
<1>9. CASE route = "rotate" /\ p = Tpl!RotateTenantForm(base, name)
  BY <1>9, TenantFormOk DEF Tpl!RotateTenantForm
<1>10. ASSUME route = "sync", NEW S, p = Tpl!SyncTenantForm(base, name, S)
       PROVE  PageOf(p, base, tr)
  BY <1>10, TenantFormOk DEF Tpl!SyncTenantForm
<1>11. ASSUME route = "restore", NEW B, p = Tpl!RestoreTenantForm(base, name, B)
       PROVE  PageOf(p, base, tr)
  BY <1>11, TenantFormOk DEF Tpl!RestoreTenantForm
<1>12. \/ p = Tpl!ErrorPage(base)
       \/ p = Tpl!NewTenantForm(base)
       \/ p = Tpl!ImportDumpForm(base)
       \/ route = "branch" /\ p = Tpl!BranchTenantForm(base, name)
       \/ route = "drop" /\ p = Tpl!DropTenantForm(base, name)
       \/ route = "rotate" /\ p = Tpl!RotateTenantForm(base, name)
       \/ route = "sync" /\ \E S : p = Tpl!SyncTenantForm(base, name, S)
       \/ route = "restore" /\ \E B : p = Tpl!RestoreTenantForm(base, name, B)
  BY DEF FormPages
<1> QED
  BY <1>1, <1>5, <1>6, <1>7, <1>8, <1>9, <1>10, <1>11, <1>12

\* The list, the detail page, the sessions, and the reports.
LEMMA ShownPageOk ==
  ASSUME NEW base \in Clusters, NEW name, NEW S, NEW tr,
         NEW managed \in BOOLEAN, NEW creds \in BOOLEAN, NEW isAdmin \in BOOLEAN,
         managed => tr = <<base, name>>
  PROVE  /\ PageOf(Tpl!ErrorPage(base), base, tr)
         /\ PageOf(Tpl!TenantNotFound(base, name), base, tr)
         /\ PageOf(Tpl!TenantList(base, S, isAdmin), base, tr)
         /\ PageOf(Tpl!TenantDetail(base, name, managed, creds, isAdmin), base, tr)
         /\ PageOf(Tpl!TenantConnections(base, name, S, isAdmin), base, tr)
<1>0. ASSUME NEW kind, kind # "elsewhere", NEW n, NEW pw, NEW C,
             \A c \in C : ControlOk(c, base, n, tr)
      PROVE  PageOf(Tpl!Layout(kind, base, n, C, pw), base, tr)
  BY <1>0, LayoutOk
<1>1. PageOf(Tpl!ErrorPage(base), base, tr) /\ PageOf(Tpl!TenantNotFound(base, name), base, tr)
  BY <1>0 DEF Tpl!ErrorPage, Tpl!TenantNotFound
<1>2. PageOf(Tpl!TenantList(base, S, isAdmin), base, tr)
  <2> DEFINE Rows == UNION {Tpl!tenantRow(base, t, isAdmin) : t \in S}
             Create == IF isAdmin THEN {Tpl!Link(base, "new", "")} ELSE {}
             C == Rows \cup Tpl!BackupStatus(base, isAdmin) \cup Create
  <2>1. ASSUME NEW c \in C PROVE ControlOk(c, base, "", tr)
    <3>1. ASSUME c \in Rows PROVE ControlOk(c, base, "", tr)
      <4>1. PICK t \in S : c \in Tpl!tenantRow(base, t, isAdmin)
        BY <3>1
      <4> QED
        BY <4>1, LinkOk DEF Tpl!tenantRow, Lifecycle
    <3>2. CASE c \in Tpl!BackupStatus(base, isAdmin)
      BY <3>2, FormOk DEF Tpl!BackupStatus, Lifecycle
    <3>3. ASSUME c \in Create PROVE ControlOk(c, base, "", tr)
      BY <3>3, LinkOk DEF Lifecycle
    <3> HIDE DEF Rows, Create
    <3> QED
      BY <3>1, <3>2, <3>3
  <2>2. \A c \in C : ControlOk(c, base, "", tr)
    BY <2>1
  <2>3. Tpl!TenantList(base, S, isAdmin) = Tpl!Layout("list", base, "", C, FALSE)
    BY DEF Tpl!TenantList
  <2>4. PageOf(Tpl!Layout("list", base, "", C, FALSE), base, tr)
    BY <2>2, <1>0
  <2> QED
    BY <2>3, <2>4
<1>3. PageOf(Tpl!TenantDetail(base, name, managed, creds, isAdmin), base, tr)
  <2> DEFINE R == {"conns", "branch"} \cup
                  (IF managed THEN {"sync", "rotate", "restore", "drop"} ELSE {})
             C == IF ~isAdmin THEN {} ELSE {Tpl!Link(base, r, name) : r \in R}
  <2>1. ASSUME NEW r \in R PROVE ControlOk(Tpl!Link(base, r, name), base, name, tr)
    <3>1. r \in Lifecycle => tr = <<base, name>>
      BY DEF Lifecycle
    <3> QED
      BY <3>1, LinkOk
  <2>2. \A c \in C : ControlOk(c, base, name, tr)
    BY <2>1
  <2> QED
    BY <2>2, <1>0 DEF Tpl!TenantDetail
<1>4. PageOf(Tpl!TenantConnections(base, name, S, isAdmin), base, tr)
  <2> DEFINE C == {Tpl!Link(base, "detail", name), Tpl!Link(base, "conns", name)} \cup
                  (IF isAdmin /\ S # {} THEN {Tpl!Form(base, "terminate", name, S)} ELSE {})
  <2>1. /\ ControlOk(Tpl!Link(base, "detail", name), base, name, tr)
        /\ ControlOk(Tpl!Link(base, "conns", name), base, name, tr)
    BY LinkOk DEF Lifecycle
  <2>2. ControlOk(Tpl!Form(base, "terminate", name, S), base, name, tr)
    BY FormOk DEF Lifecycle
  <2>3. \A c \in C : ControlOk(c, base, name, tr)
    BY <2>1, <2>2
  <2> QED
    BY <2>3, <1>0 DEF Tpl!TenantConnections
<1> QED
  BY <1>1, <1>2, <1>3, <1>4

LEMMA DonePageOk ==
  ASSUME NEW base \in Clusters, NEW route, NEW form, NEW tr
  PROVE  PageOf(DonePage(route, base, form), base, tr)
<1>1. ASSUME NEW kind, kind # "elsewhere", NEW n, NEW pw
      PROVE  PageOf(Tpl!DonePage(kind, base, n, pw), base, tr)
  <2>1. \A c \in {Tpl!Link(base, "detail", n)} : ControlOk(c, base, n, tr)
    BY LinkOk DEF Lifecycle
  <2> QED
    BY <1>1, <2>1, LayoutOk DEF Tpl!DonePage
<1>2. PageOf(Tpl!DropTenantDone(base), base, tr)
  BY LayoutOk DEF Tpl!DropTenantDone
<1> QED
  BY <1>1, <1>2 DEF DonePage, Tpl!NewTenantCreated, Tpl!BranchTenantCreated,
     Tpl!SyncTenantDone, Tpl!RotateTenantDone, Tpl!RestoreTenantDone

-----------------------------------------------------------------------------
(* What is known of a request, given the page it comes from and the trail *)

Fields(r) ==
    r = [at |-> r.at, how |-> r.how, method |-> r.method, cluster |-> r.cluster,
         route |-> r.route, name |-> r.name, form |-> r.form, choice |-> r.choice,
         origin |-> r.origin, site |-> r.site, workspace |-> r.workspace,
         granted |-> r.granted]

OfOwnPage(r, p) ==
    /\ p.kind # "elsewhere"
    /\ r.cluster = p.cluster /\ r.cluster \in Clusters
    /\ r.method = "POST" /\ r.route \notin Nameless =>
          r.form.name = r.name /\ r.name = p.name

OfOtherSite(r) ==
    /\ r.at = "sent" /\ r.method = "POST"
    /\ r.origin \in {"other", "none"} /\ r.site = "cross-site"

Admitted(r) ==
    /\ r.workspace = r.cluster /\ r.cluster \in Clusters
    /\ r.route \in AdminRoutes => r.granted

RequestOk(r, p, tr, adm) ==
    /\ Fields(r)
    /\ r.at \in {"sent", "handler", "verb"}
    /\ r.method \in {"GET", "POST"}
    /\ \/ r.how = "typed" /\ r.method = "GET"
       \/ r.how = "followed" /\ OfOwnPage(r, p)
       \/ r.how = "posted" /\ OfOtherSite(r)
    /\ r.how # "posted" /\ r.route \in Lifecycle => tr = <<r.cluster, r.name>>
    /\ r.at # "sent" => Admitted(r)
    /\ r.at = "verb" => r.method = "POST" /\ r.route \in AdminRoutes
    /\ adm => r.granted

\* A lifecycle address was typed over a page that may be about another database.
Retargeted(r) == r # None /\ r.how = "typed" /\ r.route \in Lifecycle

TabOk(r, p, tr, adm) ==
    /\ r = None \/ RequestOk(r, p, tr, adm)
    /\ ~Retargeted(r) => PageOk(p, tr)

Shape ==
    /\ admin \in BOOLEAN
    /\ page = [t \in Tabs |-> page[t]]
    /\ request = [t \in Tabs |-> request[t]]
    /\ trail = [t \in Tabs |-> trail[t]]

TabsInv == Shape /\ \A t \in Tabs : TabOk(request[t], page[t], trail[t], admin)

\* A step of one tab.
Step(t) ==
    \/ Visit(t) \/ Follow(t) \/ PostFromElsewhere(t)
    \/ Redirect(t) \/ Reject(t) \/ Admit(t)
    \/ ShowForm(t) \/ ShowList(t) \/ ShowDetail(t) \/ ShowConnections(t)
    \/ Download(t)
    \/ Submit(t) \/ Refuse(t) \/ Succeed(t) \/ SeeOther(t) \/ Fail(t)

\* A step of one tab leaves the others, and the admin list, as they are.
LEMMA Frame ==
  ASSUME Shape, NEW t \in Tabs, Step(t)
  PROVE  /\ Shape' /\ admin' = admin
         /\ \A u \in Tabs \ {t} :
               page'[u] = page[u] /\ request'[u] = request[u] /\ trail'[u] = trail[u]
<1> USE DEF Shape
<1>1. ASSUME NEW p, Render(t, p)
      PROVE  /\ page' = [u \in Tabs |-> page'[u]] /\ request' = [u \in Tabs |-> request'[u]]
             /\ \A u \in Tabs \ {t} : page'[u] = page[u] /\ request'[u] = request[u]
  BY <1>1 DEF Render
<1>2. ASSUME NEW r, Ask(t, r)
      PROVE  /\ request' = [u \in Tabs |-> request'[u]]
             /\ \A u \in Tabs \ {t} : request'[u] = request[u]
  BY <1>2 DEF Ask
<1>3. CASE Visit(t)
  BY <1>2, <1>3 DEF Visit
<1>4. CASE Follow(t)
  BY <1>2, <1>4 DEF Follow
<1>5. CASE PostFromElsewhere(t)
  BY <1>2, <1>5 DEF PostFromElsewhere
<1>6. CASE Redirect(t) \/ Admit(t) \/ Submit(t)
  BY <1>6 DEF Redirect, Admit, Submit
<1>7. CASE Reject(t)
  BY <1>7 DEF Reject
<1>8. CASE ShowForm(t) \/ ShowList(t) \/ ShowConnections(t) \/ Refuse(t) \/ Succeed(t) \/ Fail(t)
  BY <1>1, <1>8 DEF ShowForm, ShowList, ShowConnections, Refuse, Succeed, Fail
<1>9. CASE ShowDetail(t)
  BY <1>1, <1>9 DEF ShowDetail
<1>10. CASE Download(t)
  BY <1>1, <1>10 DEF Download
<1>11. CASE SeeOther(t)
  BY <1>2, <1>11 DEF SeeOther
<1> QED
  BY <1>3, <1>4, <1>5, <1>6, <1>7, <1>8, <1>9, <1>10, <1>11 DEF Step

-----------------------------------------------------------------------------
(* The tab that takes the step *)

\* A page that answers: the request is over.
LEMMA RenderOk ==
  ASSUME Shape, NEW t \in Tabs, NEW base, NEW p, Render(t, p),
         PageOf(p, base, trail[t]), UNCHANGED <<admin, trail>>
  PROVE  TabOk(request'[t], page'[t], trail'[t], admin')
  BY DEF Shape, Render, TabOk, PageOf, Retargeted

\* A request the user sends from the page, or by typing an address.
LEMMA AskOk ==
  ASSUME Shape, NEW t \in Tabs, NEW r, Ask(t, r), UNCHANGED <<admin, page>>,
         trail' = [u \in Tabs |-> trail'[u]],
         r.method \in {"GET", "POST"},
         \/ r.how = "typed" /\ r.method = "GET"
         \/ r.how = "followed" /\ OfOwnPage(r, page[t])
         \/ /\ r.how = "posted" /\ r.method = "POST"
            /\ r.origin \in {"other", "none"} /\ r.site = "cross-site",
         r.how # "posted" /\ r.route \in Lifecycle => trail'[t] = <<r.cluster, r.name>>,
         \/ r.how = "typed" /\ r.route \in Lifecycle
         \/ PageOk(page[t], trail'[t])
  PROVE  TabOk(request'[t], page'[t], trail'[t], admin')
<1> DEFINE q == [at |-> "sent", how |-> r.how, method |-> r.method, cluster |-> r.cluster,
                 route |-> r.route, name |-> r.name, form |-> r.form, choice |-> r.choice,
                 origin |-> r.origin, site |-> r.site, workspace |-> "", granted |-> admin]
<1>1. request'[t] = q
  BY DEF Ask, Shape
<1>2. RequestOk(q, page[t], trail'[t], admin)
  BY DEF RequestOk, Fields, OfOwnPage, OfOtherSite, Shape
<1>3. q # None
  BY DEF None
<1>4. Retargeted(q) \/ PageOk(page[t], trail'[t])
  BY <1>3 DEF Retargeted
<1> QED
  BY <1>1, <1>2, <1>4 DEF TabOk

LEMMA StepOk ==
  ASSUME TabsInv, NEW t \in Tabs, Step(t)
  PROVE  TabOk(request'[t], page'[t], trail'[t], admin')
<1> USE DefaultAssumption, ClustersAssumption, OriginsAssumption
<1> DEFINE r == request[t]
<1>a. Shape /\ TabOk(r, page[t], trail[t], admin)
  BY DEF TabsInv
<1>b. r = None <=> r.at = "none"
  <2>1. None.at = "none"
    BY DEF None
  <2>2. RequestOk(r, page[t], trail[t], admin) => r.at # "none"
    BY DEF RequestOk
  <2> QED
    BY <1>a, <2>1, <2>2 DEF TabOk
<1>c. r.at # "none" => RequestOk(r, page[t], trail[t], admin)
  BY <1>a, <1>b DEF TabOk
<1>d. r.at = "none" => PageOk(page[t], trail[t])
  BY <1>a, <1>b DEF TabOk, Retargeted
<1>e. r.at # "sent" /\ r.at # "none" =>
        /\ r.cluster \in Clusters
        /\ r.route \in Lifecycle => trail[t] = <<r.cluster, r.name>>
  BY <1>c DEF RequestOk, Admitted, OfOtherSite
<1>1. CASE Visit(t)
  <2>1. PICK c \in Clusters \cup {"", "unknown"}, g \in GetRoutes, n \in Names :
          /\ Ask(t, Get("typed", c, g, IF g \in Nameless THEN "" ELSE n))
          /\ trail' = IF g \in Lifecycle THEN [trail EXCEPT ![t] = <<c, n>>] ELSE trail
    BY <1>1 DEF Visit
  <2> DEFINE q == Get("typed", c, g, IF g \in Nameless THEN "" ELSE n)
  <2>2. /\ q.how = "typed" /\ q.method = "GET" /\ q.route = g /\ q.cluster = c
        /\ g \notin Nameless => q.name = n
    BY DEF Get
  <2>3. g \in Lifecycle => trail'[t] = <<c, n>> /\ g \notin Nameless
    BY <2>1, <1>a DEF Shape, Lifecycle, Nameless
  <2>4. trail' = [u \in Tabs |-> trail'[u]] /\ (g \notin Lifecycle => trail' = trail)
    BY <2>1, <1>a DEF Shape
  <2>5. UNCHANGED <<admin, page>> /\ PageOk(page[t], trail[t])
    BY <1>1, <1>d DEF Visit
  <2> HIDE DEF q
  <2> QED
    BY <2>1, <2>2, <2>3, <2>4, <2>5, <1>a, AskOk DEF q
<1>2. CASE Follow(t)
  <2>1. PICK c \in page[t].controls :
          \/ /\ c.method = "GET"
             /\ Ask(t, Get("followed", c.cluster, c.route, c.name))
          \/ /\ c.method = "POST"
             /\ \E choice, o : \E f \in Filled(c, choice) :
                   Ask(t, [how |-> "followed", method |-> "POST", cluster |-> c.cluster,
                           route |-> c.route, name |-> c.name, form |-> f,
                           choice |-> choice, origin |-> o, site |-> "same-origin"])
    BY <1>2 DEF Follow
  <2>2. /\ UNCHANGED <<admin, page, trail>> /\ PageOk(page[t], trail[t])
        /\ trail' = [u \in Tabs |-> trail'[u]]
    BY <1>2, <1>a, <1>d DEF Follow, Shape
  <2>3. /\ page[t].kind # "elsewhere" /\ page[t].cluster \in Clusters
        /\ ControlOk(c, page[t].cluster, page[t].name, trail[t])
    BY <2>2 DEF PageOk
  <2>4. ASSUME NEW q, Ask(t, q), q.how = "followed", q.method \in {"GET", "POST"},
               q.cluster = c.cluster, q.route = c.route, q.name = c.name,
               q.method = "POST" => c.method = "POST" /\
                                    (c.route \notin Nameless => q.form.name = c.name)
        PROVE  TabOk(request'[t], page'[t], trail'[t], admin')
    <3>1. OfOwnPage(q, page[t])
      BY <2>3, <2>4 DEF OfOwnPage, ControlOk
    <3>2. q.route \in Lifecycle => trail'[t] = <<q.cluster, q.name>>
      BY <2>2, <2>3, <2>4 DEF ControlOk
    <3> QED
      BY <2>2, <2>4, <3>1, <3>2, <1>a, AskOk
  <2>5. CASE Ask(t, Get("followed", c.cluster, c.route, c.name))
    <3> DEFINE q == Get("followed", c.cluster, c.route, c.name)
    <3>1. /\ q.how = "followed" /\ q.method = "GET" /\ q.cluster = c.cluster
          /\ q.route = c.route /\ q.name = c.name
      BY DEF Get
    <3> HIDE DEF q
    <3> QED
      BY <2>4, <2>5, <3>1 DEF q
  <2>6. ASSUME c.method = "POST", NEW choice, NEW o, NEW f \in Filled(c, choice),
               Ask(t, [how |-> "followed", method |-> "POST", cluster |-> c.cluster,
                       route |-> c.route, name |-> c.name, form |-> f,
                       choice |-> choice, origin |-> o, site |-> "same-origin"])
        PROVE  TabOk(request'[t], page'[t], trail'[t], admin')
    <3>1. c.route \notin Nameless => f.name = c.name
      BY DEF Filled
    <3> QED
      BY <2>4, <2>6, <3>1
  <2> QED
    BY <2>1, <2>5, <2>6
<1>3. CASE PostFromElsewhere(t)
  <2>1. PICK c \in Clusters, g \in AdminRoutes \ {"conns", "dump"}, o \in {"other", "none"} :
          \E f \in InputsOf(FieldsOf[g]) :
          Ask(t, [how |-> "posted", method |-> "POST", cluster |-> c, route |-> g,
                  name |-> f.name, form |-> f, choice |-> "", origin |-> o,
                  site |-> "cross-site"])
    BY <1>3 DEF PostFromElsewhere
  <2>2. /\ UNCHANGED <<admin, page, trail>> /\ PageOk(page[t], trail[t])
        /\ trail' = [u \in Tabs |-> trail'[u]]
    BY <1>3, <1>a, <1>d DEF PostFromElsewhere, Shape
  <2> QED
    BY <2>1, <2>2, <1>a, AskOk
<1>4. CASE Redirect(t)
  <2>1. /\ r.at = "sent" /\ r.cluster = "" /\ r.route = "list" /\ r.method = "GET"
        /\ UNCHANGED <<admin, page, trail>>
        /\ request'[t] = [r EXCEPT !.cluster = Default]
    BY <1>4, <1>a DEF Redirect, ToDefault, Shape
  <2>2. RequestOk(r, page[t], trail[t], admin)
    BY <2>1, <1>c
  <2>3. RequestOk([r EXCEPT !.cluster = Default], page[t], trail[t], admin)
    BY <2>1, <2>2 DEF RequestOk, Fields, OfOwnPage, OfOtherSite, Lifecycle
  <2>4. PageOk(page[t], trail[t])
    BY <2>1, <1>a DEF TabOk, Retargeted, Lifecycle
  <2> QED
    BY <2>1, <2>3, <2>4 DEF TabOk
<1>5. CASE Reject(t)
  <2>1. page'[t] = Foreign("plain") /\ request'[t] = None
    BY <1>5, <1>a DEF Reject, Shape
  <2>2. PageOk(Foreign("plain"), trail'[t])
    BY DEF PageOk, Foreign
  <2> QED
    BY <2>1, <2>2 DEF TabOk
<1>6. CASE Admit(t)
  <2>1. /\ r.at = "sent" /\ r.cluster \in Clusters
        /\ r.route \in AdminRoutes => admin
        /\ SameOrigin(r)
        /\ UNCHANGED <<admin, page, trail>>
        /\ request'[t] = [r EXCEPT !.at = "handler", !.workspace = r.cluster]
    BY <1>6, <1>a DEF Admit, Routed, Shape, DepsOf
  <2>2. RequestOk(r, page[t], trail[t], admin)
    BY <2>1, <1>c
  <2>3. r.how # "posted"
    BY <2>1, <2>2 DEF SameOrigin, RequestOk, OfOtherSite
  <2> DEFINE q == [r EXCEPT !.at = "handler", !.workspace = r.cluster]
  <2>4. RequestOk(q, page[t], trail[t], admin)
    BY <2>1, <2>2, <2>3 DEF RequestOk, Fields, OfOwnPage, Admitted
  <2>5. q.how = r.how /\ q.route = r.route
    BY <2>2 DEF RequestOk, Fields
  <2>6. ~Retargeted(q) => PageOk(page[t], trail[t])
    <3>1. q # None
      BY <2>4, <2>2 DEF None, RequestOk, Fields
    <3> QED
      BY <3>1, <2>5, <1>a DEF TabOk, Retargeted
  <2> QED
    BY <2>1, <2>4, <2>6 DEF TabOk
<1>7. CASE ShowForm(t)
  <2>1. PICK p \in FormPages(r.route, r.cluster, r.name) : Render(t, p)
    BY <1>7 DEF ShowForm
  <2>2. PageOf(p, r.cluster, trail[t])
    BY <1>7, <1>e, FormPageOk DEF ShowForm, Handling
  <2> QED
    BY <2>1, <2>2, <1>7, <1>a, RenderOk DEF ShowForm
<1>8. CASE ShowList(t)
  <2>1. r.cluster \in Clusters /\ admin \in BOOLEAN
    BY <1>8, <1>a, <1>e DEF ShowList, Handling, Shape
  <2>2. PICK p : /\ Render(t, p)
                 /\ \/ p = Tpl!ErrorPage(r.cluster)
                    \/ \E S : p = Tpl!TenantList(r.cluster, S, admin)
    BY <1>8 DEF ShowList
  <2>3. PageOf(p, r.cluster, trail[t])
    BY <2>1, <2>2, ShownPageOk
  <2> QED
    BY <2>2, <2>3, <1>8, <1>a, RenderOk DEF ShowList
<1>9. CASE ShowDetail(t)
  <2>1. r.cluster \in Clusters /\ admin \in BOOLEAN /\ admin' = admin
    BY <1>9, <1>a, <1>e DEF ShowDetail, Handling, Shape
  <2>2. ASSUME NEW p, Render(t, p), PageOf(p, r.cluster, trail'[t])
        PROVE  TabOk(request'[t], page'[t], trail'[t], admin')
    BY <2>2, <1>a DEF Shape, Render, TabOk, PageOf, Retargeted
  <2>3. ASSUME UNCHANGED trail, NEW p, Render(t, p),
               p \in {Tpl!ErrorPage(r.cluster), Tpl!TenantNotFound(r.cluster, r.name)}
        PROVE  TabOk(request'[t], page'[t], trail'[t], admin')
    <3>1. PageOf(p, r.cluster, trail'[t])
      <4>1. /\ PageOf(Tpl!ErrorPage(r.cluster), r.cluster, trail'[t])
            /\ PageOf(Tpl!TenantNotFound(r.cluster, r.name), r.cluster, trail'[t])
        BY <2>1, ShownPageOk
      <4> QED
        BY <4>1, <2>3
    <3> QED
      BY <2>2, <2>3, <3>1
  <2>4. ASSUME NEW managed \in BOOLEAN, NEW creds \in BOOLEAN,
               Render(t, Tpl!TenantDetail(r.cluster, r.name, managed, creds, admin)),
               trail' = IF managed THEN [trail EXCEPT ![t] = <<r.cluster, r.name>>]
                                   ELSE trail
        PROVE  TabOk(request'[t], page'[t], trail'[t], admin')
    <3>1. managed => trail'[t] = <<r.cluster, r.name>>
      BY <2>4, <1>a DEF Shape
    <3>2. PageOf(Tpl!TenantDetail(r.cluster, r.name, managed, creds, admin), r.cluster,
                 trail'[t])
      BY <2>1, <3>1, ShownPageOk
    <3> QED
      BY <2>2, <2>4, <3>2
  <2> QED
    BY <1>9, <2>3, <2>4 DEF ShowDetail
<1>10. CASE ShowConnections(t)
  <2>1. r.cluster \in Clusters /\ admin \in BOOLEAN
    BY <1>10, <1>a, <1>e DEF ShowConnections, Handling, Shape
  <2>2. PICK p : /\ Render(t, p)
                 /\ \/ p = Tpl!ErrorPage(r.cluster)
                    \/ \E S : p = Tpl!TenantConnections(r.cluster, r.name, S, admin)
    BY <1>10 DEF ShowConnections
  <2>3. PageOf(p, r.cluster, trail[t])
    BY <2>1, <2>2, ShownPageOk
  <2> QED
    BY <2>2, <2>3, <1>10, <1>a, RenderOk DEF ShowConnections
<1>11. CASE Download(t)
  <2>1. /\ r.cluster \in Clusters /\ r.route = "dump" /\ UNCHANGED <<admin, trail>>
    BY <1>11, <1>e DEF Download, Handling
  <2>2. CASE Render(t, Tpl!ErrorPage(r.cluster))
    BY <2>1, <2>2, <1>a, ShownPageOk, RenderOk
  <2>3. CASE request' = [request EXCEPT ![t] = None] /\ UNCHANGED page
    <3>1. PageOk(page[t], trail[t])
      BY <2>1, <1>a DEF TabOk, Retargeted, Lifecycle
    <3>2. request'[t] = None
      BY <2>3, <1>a DEF Shape
    <3> QED
      BY <2>1, <2>3, <3>1, <3>2 DEF TabOk
  <2> QED
    BY <1>11, <2>2, <2>3 DEF Download
<1>12. CASE Submit(t)
  <2>1. /\ r.at = "handler" /\ r.method = "POST" /\ r.route \in AdminRoutes
        /\ UNCHANGED <<admin, page, trail>>
        /\ request'[t] = [r EXCEPT !.at = "verb"]
    BY <1>12, <1>a DEF Submit, Handling, Shape
  <2>2. RequestOk(r, page[t], trail[t], admin)
    BY <2>1, <1>c
  <2> DEFINE q == [r EXCEPT !.at = "verb"]
  <2>3. RequestOk(q, page[t], trail[t], admin)
    BY <2>1, <2>2 DEF RequestOk, Fields, OfOwnPage, OfOtherSite, Admitted
  <2>4. r.how # "typed"
    BY <2>1, <2>2 DEF RequestOk
  <2>5. PageOk(page[t], trail[t])
    BY <2>4, <1>a DEF TabOk, Retargeted
  <2> QED
    BY <2>1, <2>3, <2>5 DEF TabOk
<1>13. CASE Refuse(t)
  <2>1. PICK p \in FormPages(r.route, r.cluster, r.name) : Render(t, p)
    BY <1>13 DEF Refuse
  <2>2. PageOf(p, r.cluster, trail[t])
    BY <1>13, <1>e, FormPageOk DEF Refuse, Handling
  <2> QED
    BY <2>1, <2>2, <1>13, <1>a, RenderOk DEF Refuse
<1>14. CASE Succeed(t)
  <2>1. r.cluster \in Clusters
    BY <1>14, <1>e DEF Succeed
  <2> QED
    BY <2>1, <1>14, <1>a, DonePageOk, RenderOk DEF Succeed
<1>15. CASE SeeOther(t)
  <2> DEFINE g == IF r.route = "backup" THEN "list" ELSE "conns"
             n == IF r.route = "backup" THEN "" ELSE r.name
             q == Get("followed", r.cluster, g, n)
  <2>1. Ask(t, q) /\ r.at = "verb" /\ UNCHANGED <<admin, page, trail>>
    BY <1>15 DEF SeeOther, h_route
  <2>2. q.how = "followed" /\ q.method = "GET" /\ q.cluster = r.cluster /\ q.route = g
    BY DEF Get
  <2>3. RequestOk(r, page[t], trail[t], admin)
    BY <2>1, <1>c
  <2>4. r.how = "followed" /\ OfOwnPage(r, page[t])
    BY <2>1, <2>3 DEF RequestOk, OfOtherSite
  <2>5. OfOwnPage(q, page[t]) /\ q.route \notin Lifecycle
    BY <2>2, <2>4 DEF OfOwnPage, Lifecycle
  <2>6. PageOk(page[t], trail[t])
    BY <2>4, <1>a DEF TabOk, Retargeted
  <2>7. trail' = [u \in Tabs |-> trail'[u]]
    BY <2>1, <1>a DEF Shape
  <2> HIDE DEF q
  <2> QED
    BY <2>1, <2>2, <2>5, <2>6, <2>7, <1>a, AskOk
<1>16. CASE Fail(t)
  <2>1. r.cluster \in Clusters /\ r.at = "verb" /\ UNCHANGED <<admin, trail>>
    BY <1>16, <1>e DEF Fail
  <2>2. CASE Render(t, Tpl!ErrorPage(r.cluster))
    BY <2>1, <2>2, <1>a, ShownPageOk, RenderOk
  <2>3. ASSUME r.route = "restore", NEW p \in FormPages("restore", r.cluster, r.name),
               Render(t, p)
        PROVE  TabOk(request'[t], page'[t], trail'[t], admin')
    <3>1. PageOf(p, r.cluster, trail[t])
      BY <2>1, <2>3, <1>e, FormPageOk DEF Lifecycle
    <3> QED
      BY <2>1, <2>3, <3>1, <1>a, RenderOk
  <2> QED
    BY <1>16, <2>2, <2>3 DEF Fail
<1> QED
  BY <1>1, <1>2, <1>3, <1>4, <1>5, <1>6, <1>7, <1>8, <1>9, <1>10, <1>11, <1>12, <1>13,
     <1>14, <1>15, <1>16 DEF Step

-----------------------------------------------------------------------------
(* What a page that answers a request shows *)

LEMMA NoPassword ==
  ASSUME NEW base, NEW route, NEW name, NEW S, NEW isAdmin \in BOOLEAN,
         NEW p \in FormPages(route, base, name) \cup
                   {Tpl!ErrorPage(base), Tpl!TenantNotFound(base, name),
                    Tpl!TenantList(base, S, isAdmin),
                    Tpl!TenantConnections(base, name, S, isAdmin)}
  PROVE  ~p.password
<1>1. ASSUME NEW kind, NEW n, NEW C PROVE ~Tpl!Layout(kind, base, n, C, FALSE).password
  BY DEF Tpl!Layout
<1>2. ~Tpl!ErrorPage(base).password /\ ~Tpl!TenantNotFound(base, name).password
  BY <1>1 DEF Tpl!ErrorPage, Tpl!TenantNotFound
<1>3. ~Tpl!TenantList(base, S, isAdmin).password
  BY <1>1 DEF Tpl!TenantList
<1>4. ~Tpl!TenantConnections(base, name, S, isAdmin).password
  BY <1>1 DEF Tpl!TenantConnections
<1>5. ~Tpl!NewTenantForm(base).password /\ ~Tpl!ImportDumpForm(base).password
  BY <1>1 DEF Tpl!NewTenantForm, Tpl!ImportDumpForm
<1>6. ASSUME NEW kind, NEW o
      PROVE  /\ ~Tpl!TenantForm(kind, base, route, name, o).password
             /\ ~Tpl!ChoiceForm(kind, base, route, name, o).password
  BY <1>1 DEF Tpl!TenantForm, Tpl!ChoiceForm
<1>7. CASE p \in FormPages(route, base, name)
  <2>1. \/ p = Tpl!ErrorPage(base)
        \/ p = Tpl!NewTenantForm(base)
        \/ p = Tpl!ImportDumpForm(base)
        \/ route = "branch" /\ p = Tpl!BranchTenantForm(base, name)
        \/ route = "drop" /\ p = Tpl!DropTenantForm(base, name)
        \/ route = "rotate" /\ p = Tpl!RotateTenantForm(base, name)
        \/ route = "sync" /\ \E o : p = Tpl!SyncTenantForm(base, name, o)
        \/ route = "restore" /\ \E o : p = Tpl!RestoreTenantForm(base, name, o)
    BY <1>7 DEF FormPages
  <2> QED
    BY <2>1, <1>2, <1>5, <1>6 DEF Tpl!BranchTenantForm, Tpl!DropTenantForm,
       Tpl!RotateTenantForm, Tpl!SyncTenantForm, Tpl!RestoreTenantForm
<1> QED
  BY <1>2, <1>3, <1>4, <1>7

LEMMA FormPageCluster ==
  ASSUME NEW base \in Clusters, NEW route, NEW name,
         NEW p \in FormPages(route, base, name)
  PROVE  p.cluster = base
<1>1. PageOf(p, base, <<base, name>>)
  BY FormPageOk
<1> QED
  BY <1>1 DEF PageOf

Answered(t) ==
    \/ page'[t] = page[t]
    \/ page'[t] = Foreign("plain")
    \/ /\ request[t].at \in {"handler", "verb"}
       /\ page'[t].cluster = request[t].cluster
       /\ page'[t].password => request[t].granted

LEMMA StepAnswered ==
  ASSUME TabsInv, NEW t \in Tabs, Step(t)
  PROVE  Answered(t)
<1> DEFINE r == request[t]
<1>a. Shape /\ TabOk(r, page[t], trail[t], admin)
  BY DEF TabsInv
<1>b. r.at \in {"handler", "verb"} => RequestOk(r, page[t], trail[t], admin)
  BY <1>a DEF TabOk, None
<1>c. r.at \in {"handler", "verb"} =>
        r.cluster \in Clusters /\ (admin => r.granted) /\ (r.at = "verb" => r.granted)
  BY <1>b DEF RequestOk, Admitted
<1>d. ASSUME NEW p, Render(t, p), r.at \in {"handler", "verb"}, p.cluster = r.cluster,
             p.password => r.granted
      PROVE  Answered(t)
  BY <1>d, <1>a DEF Render, Answered, Shape
<1>e. admin \in BOOLEAN
  BY <1>a DEF Shape
<1>f. ASSUME NEW p \in FormPages(r.route, r.cluster, r.name), Render(t, p),
             r.at \in {"handler", "verb"}
      PROVE  Answered(t)
  BY <1>c, <1>d, <1>e, <1>f, FormPageCluster, NoPassword
<1>g. r.cluster \in Clusters =>
        /\ Tpl!ErrorPage(r.cluster).cluster = r.cluster
        /\ Tpl!TenantNotFound(r.cluster, r.name).cluster = r.cluster
        /\ \A S : Tpl!TenantList(r.cluster, S, admin).cluster = r.cluster
        /\ \A S : Tpl!TenantConnections(r.cluster, r.name, S, admin).cluster = r.cluster
  BY DEF Tpl!ErrorPage, Tpl!TenantNotFound, Tpl!TenantList, Tpl!TenantConnections,
     Tpl!Layout
<1>h. ASSUME NEW p, Render(t, p), r.at \in {"handler", "verb"}, NEW S,
             p \in {Tpl!ErrorPage(r.cluster), Tpl!TenantNotFound(r.cluster, r.name),
                    Tpl!TenantList(r.cluster, S, admin),
                    Tpl!TenantConnections(r.cluster, r.name, S, admin)}
      PROVE  Answered(t)
  BY <1>c, <1>d, <1>e, <1>g, <1>h, NoPassword
<1>1. CASE \/ Visit(t) \/ Follow(t) \/ PostFromElsewhere(t) \/ Redirect(t) \/ Admit(t)
           \/ Submit(t) \/ SeeOther(t)
  BY <1>1 DEF Answered, Visit, Follow, PostFromElsewhere, Redirect, Admit, Submit, SeeOther
<1>2. CASE Reject(t)
  BY <1>2, <1>a DEF Answered, Reject, Shape
<1>3. CASE ShowForm(t) \/ Refuse(t)
  BY <1>3, <1>f DEF ShowForm, Refuse, Handling
<1>4. CASE ShowList(t)
  BY <1>4, <1>h DEF ShowList, Handling
<1>5. CASE ShowConnections(t)
  BY <1>5, <1>h DEF ShowConnections, Handling
<1>6. CASE Download(t)
  BY <1>6, <1>h DEF Download, Handling, Answered
<1>7. CASE Fail(t)
  BY <1>7, <1>f, <1>h DEF Fail
<1>8. CASE Succeed(t)
  <2>1. r.at = "verb" /\ Render(t, DonePage(r.route, r.cluster, r.form))
    BY <1>8 DEF Succeed
  <2>2. PageOf(DonePage(r.route, r.cluster, r.form), r.cluster, trail[t])
    BY <2>1, <1>c, DonePageOk
  <2> QED
    BY <2>1, <2>2, <1>c, <1>d DEF PageOf
<1>9. CASE ShowDetail(t)
  <2>1. r.at = "handler"
    BY <1>9 DEF ShowDetail, Handling
  <2>2. ASSUME NEW managed \in BOOLEAN, NEW creds \in BOOLEAN,
               Render(t, Tpl!TenantDetail(r.cluster, r.name, managed, creds, admin))
        PROVE  Answered(t)
    <3> DEFINE p == Tpl!TenantDetail(r.cluster, r.name, managed, creds, admin)
    <3>1. p.cluster = r.cluster
      BY DEF Tpl!TenantDetail, Tpl!Layout
    <3>2. p.password => admin
      BY DEF Tpl!TenantDetail, Tpl!Layout
    <3> HIDE DEF p
    <3> QED
      BY <2>1, <2>2, <3>1, <3>2, <1>c, <1>d DEF p
  <2> QED
    BY <1>9, <2>1, <2>2, <1>h DEF ShowDetail
<1> QED
  BY <1>1, <1>2, <1>3, <1>4, <1>5, <1>6, <1>7, <1>8, <1>9 DEF Step

-----------------------------------------------------------------------------
(* Theorems *)

\* SIGHUP changes what is known of who has been an admin, and nothing else.
LEMMA ReloadOk ==
  ASSUME TabsInv, Reload
  PROVE  TabsInv'
<1>1. Shape'
  BY DEF TabsInv, Shape, Reload
<1>2. ASSUME NEW t \in Tabs
      PROVE  TabOk(request'[t], page'[t], trail'[t], admin')
  <2>1. TabOk(request[t], page[t], trail[t], admin) /\ UNCHANGED <<page, trail>>
    BY DEF TabsInv, Reload
  <2>2. CASE request[t].at = "none" \/ admin
    <3>1. request'[t] = request[t] /\ admin' = ~admin
      BY <2>2 DEF Reload
    <3>2. CASE request[t] = None
      BY <2>1, <3>1, <3>2 DEF TabOk
    <3>3. CASE RequestOk(request[t], page[t], trail[t], admin)
      <4>1. admin
        BY <2>2, <3>3 DEF RequestOk
      <4>2. RequestOk(request[t], page[t], trail[t], admin')
        BY <3>1, <3>3, <4>1 DEF RequestOk
      <4> QED
        BY <2>1, <3>1, <4>2 DEF TabOk
    <3> QED
      BY <2>1, <3>2, <3>3 DEF TabOk
  <2>3. CASE ~(request[t].at = "none" \/ admin)
    <3> DEFINE r == request[t]
               q == [r EXCEPT !.granted = TRUE]
    <3>1. request'[t] = q
      BY <2>3 DEF Reload
    <3>2. RequestOk(r, page[t], trail[t], admin)
      BY <2>1, <2>3 DEF TabOk, None
    <3>3. RequestOk(q, page[t], trail[t], admin')
      <4>1. Fields(r)
        BY <3>2 DEF RequestOk
      <4>2. /\ q.at = r.at /\ q.how = r.how /\ q.method = r.method
            /\ q.cluster = r.cluster /\ q.route = r.route /\ q.name = r.name
            /\ q.form = r.form /\ q.origin = r.origin /\ q.site = r.site
            /\ q.workspace = r.workspace
        BY <4>1 DEF Fields
      <4>3. q.granted
        BY <4>1 DEF Fields
      <4>4. Fields(q)
        <5> DEFINE With(g) ==
              [at |-> r.at, how |-> r.how, method |-> r.method, cluster |-> r.cluster,
               route |-> r.route, name |-> r.name, form |-> r.form, choice |-> r.choice,
               origin |-> r.origin, site |-> r.site, workspace |-> r.workspace,
               granted |-> g]
        <5>1. \A g : [r EXCEPT !.granted = g] = With(g)
          BY <4>1 DEF Fields
        <5>2. \A g : Fields(With(g))
          BY DEF Fields
        <5> HIDE DEF With
        <5> QED
          BY <5>1, <5>2
      <4> HIDE DEF q
      <4> QED
        BY <3>2, <4>2, <4>3, <4>4 DEF RequestOk, OfOwnPage, OfOtherSite, Admitted
    <3>4. q.how = r.how /\ q.route = r.route /\ q.at = r.at
      BY <3>2 DEF RequestOk, Fields
    <3>5. Retargeted(r) => Retargeted(q)
      BY <2>3, <3>4 DEF Retargeted, None
    <3> QED
      BY <2>1, <3>1, <3>3, <3>5 DEF TabOk
  <2> QED
    BY <2>2, <2>3
<1> QED
  BY <1>1, <1>2 DEF TabsInv

LEMMA TabsInvNext ==
  ASSUME TabsInv, [Next]_vars
  PROVE  TabsInv'
<1>1. CASE Reload
  BY <1>1, ReloadOk
<1>2. ASSUME NEW t \in Tabs, Step(t)
      PROVE  TabsInv'
  <2>1. /\ Shape' /\ admin' = admin
        /\ \A u \in Tabs \ {t} :
              page'[u] = page[u] /\ request'[u] = request[u] /\ trail'[u] = trail[u]
    BY <1>2, Frame DEF TabsInv
  <2>2. TabOk(request'[t], page'[t], trail'[t], admin')
    BY <1>2, StepOk
  <2>3. ASSUME NEW u \in Tabs \ {t}
        PROVE  TabOk(request'[u], page'[u], trail'[u], admin')
    BY <2>1 DEF TabsInv
  <2> QED
    BY <2>1, <2>2, <2>3 DEF TabsInv
<1>3. CASE UNCHANGED vars
  BY <1>3 DEF vars, TabsInv, Shape
<1> QED
  BY <1>1, <1>2, <1>3 DEF Next, Step

LEMMA TabsInvariant == Spec => []TabsInv
<1>1. Init => TabsInv
  <2> SUFFICES ASSUME Init PROVE TabsInv
    OBVIOUS
  <2>1. PageOk(Foreign("elsewhere"), <<>>)
    BY DEF PageOk, Foreign
  <2> QED
    BY <2>1 DEF Init, TabsInv, Shape, TabOk
<1>2. TabsInv /\ [Next]_vars => TabsInv'
  BY TabsInvNext
<1> QED
  BY <1>1, <1>2, PTL DEF Spec

(* Whatever is typed, followed or posted from other sites, and whenever the    *)
(* admin list changes, a verb runs in the cluster, and for the database, of    *)
(* the page that shows its form.                                               *)
THEOREM VerbsRunOnTheirPage == Spec => []VerbOnPage
<1>1. TabsInv => VerbOnPage
  BY DEF TabsInv, TabOk, RequestOk, OfOwnPage, OfOtherSite, Admitted, VerbOnPage, Running,
     None
<1> QED
  BY <1>1, TabsInvariant, PTL

(* A lifecycle verb runs only for a database that was shown to be managed, or  *)
(* whose operation was typed.                                                  *)
THEOREM LifecycleIsManaged == Spec => []LifecycleManaged
<1>1. TabsInv => LifecycleManaged
  BY DEF TabsInv, TabOk, RequestOk, OfOwnPage, OfOtherSite, Admitted, LifecycleManaged,
     Running, Lifecycle, Nameless, None
<1> QED
  BY <1>1, TabsInvariant, PTL

(* Links, forms and redirects stay in their cluster.                           *)
THEOREM ClusterIsKept == Spec => ClusterKept
<1>1. TabsInv /\ [Next]_vars =>
        [\A t \in Tabs :
           page'[t].cluster \in Clusters /\ page'[t].cluster # page[t].cluster
             => request[t].how = "typed"]_vars
  <2> SUFFICES ASSUME TabsInv, Next, NEW t \in Tabs,
                      page'[t].cluster \in Clusters, page'[t].cluster # page[t].cluster
               PROVE  request[t].how = "typed"
    OBVIOUS
  <2>1. PICK u \in Tabs : Step(u)
    BY DEF Next, Step, Reload
  <2>2. u = t
    BY <2>1, Frame DEF TabsInv
  <2>3. Answered(t)
    BY <2>1, <2>2, StepAnswered
  <2>4. request[t].at \in {"handler", "verb"} /\ page'[t].cluster = request[t].cluster
    <3>1. Foreign("plain").cluster = ""
      BY DEF Foreign
    <3> QED
      BY <2>3, <3>1, ClustersAssumption DEF Answered
  <2>5. RequestOk(request[t], page[t], trail[t], admin)
    BY <2>4 DEF TabsInv, TabOk, None
  <2> QED
    BY <2>4, <2>5 DEF RequestOk, OfOwnPage, OfOtherSite
<1> QED
  BY <1>1, TabsInvariant, PTL DEF Spec, ClusterKept

(* A page with a password is made only for someone who has been an admin       *)
(* since asking for it.                                                        *)
THEOREM CredentialsReachAdmins == Spec => CredentialsToAdmins
<1>1. TabsInv /\ [Next]_vars =>
        [\A t \in Tabs :
           page'[t].password /\ page'[t] # page[t] => request[t].granted]_vars
  <2> SUFFICES ASSUME TabsInv, Next, NEW t \in Tabs,
                      page'[t].password, page'[t] # page[t]
               PROVE  request[t].granted
    OBVIOUS
  <2>1. PICK u \in Tabs : Step(u)
    BY DEF Next, Step, Reload
  <2>2. u = t
    BY <2>1, Frame DEF TabsInv
  <2>3. Answered(t)
    BY <2>1, <2>2, StepAnswered
  <2>4. page'[t] # Foreign("plain")
    <3>1. ~Foreign("plain").password
      BY DEF Foreign
    <3> QED
      BY <3>1
  <2> QED
    BY <2>3, <2>4 DEF Answered
<1> QED
  BY <1>1, TabsInvariant, PTL DEF Spec, CredentialsToAdmins

-----------------------------------------------------------------------------
(* What pages offer *)

Works(c) ==
    \/ IF c.method = "GET" THEN c.route \in Nameless \/ NameSafe(c.route, c.name)
       ELSE \E o \in (IF c.options = {} THEN {""} ELSE c.options) :
               \E f \in Filled(c, o) : Calls(c.route, f)
    \/ c.name \in Others
    \/ c.name \in Hyphenated /\ c.route \in Lifecycle
    \/ c.route = "sync" /\ c.options \subseteq Others

\* A control is about a database that exists under some name, and can be used.
Offered(c) == (c.route \notin Nameless => c.name \in Names) /\ Works(c)

\* A request names what its page was about, and its form holds names.
FormNamed(f) == f.name \in Names /\ f.app \in Names /\ f.dst \in Names
Named(r) ==
    /\ r.route \notin Nameless => r.name \in Names
    /\ r.method = "POST" => FormNamed(r.form)

OffersInv ==
    \A t \in Tabs :
        /\ \A c \in page[t].controls : Offered(c)
        /\ request[t].at # "none" => Named(request[t])

LEMMA TypicalIsIdent == Typical \in Idents /\ Typical \in Names
BY IdentsAssumption DEF Typical, Names

LEMMA InputsNamed ==
  ASSUME NEW fields, NEW f \in InputsOf(fields)
  PROVE  FormNamed(f)
BY TypicalIsIdent DEF InputsOf, FormNamed

LEMMA LinkOffered ==
  ASSUME NEW base, NEW route \in GetRoutes, NEW n,
         route \in Nameless \/ n \in Names
  PROVE  Offered(Tpl!Link(base, route, n))
<1> DEFINE c == Tpl!Link(base, route, n)
<1>1. c.method = "GET" /\ c.route = route /\ c.name = n
  BY DEF Tpl!Link
<1> HIDE DEF c
<1>0. SUFFICES Offered(c)
  BY DEF c
<1>2. CASE route \in Nameless
  BY <1>1, <1>2 DEF Offered, Works
<1>3. CASE route \notin Nameless /\ n \in Names
  <2>1. NameSafe(route, n) \/ n \in Others \/ (n \in Hyphenated /\ route \in Lifecycle)
    BY <1>3 DEF NameSafe, IdentSafe, DatabaseNameSafe, Names, GetRoutes, FormRoutes,
       ViewRoutes, Lifecycle, Nameless
  <2> QED
    BY <1>1, <1>3, <2>1 DEF Offered, Works
<1> QED
  BY <1>2, <1>3

\* A form with its fields filled in, of which a route reads the ones it has.
Filling(n, app, dst, src, confirm, backup, dump, pid) ==
    [name |-> n, app |-> app, dst |-> dst, src |-> src, wellFormed |-> TRUE,
     confirm |-> confirm, backup |-> backup, targetTime |-> "", dump |-> dump,
     pid |-> pid, deps |-> Deps]

\* The forms of the templates, with what their selects let the user choose from.
ProperForm(route, n, options) ==
    \/ route \in {"new", "import", "backup"} /\ options = {}
    \/ route \in {"branch", "drop", "rotate"} /\ n \in Names /\ options = {}
    \/ route = "sync" /\ n \in Names /\ options \in SUBSET (Names \ {n}) /\ options # {}
    \/ route = "restore" /\ n \in Names /\ options = {"valid"}
    \/ route = "terminate" /\ n \in Names /\ options = {"positive"}

LEMMA FormOffered ==
  ASSUME NEW base, NEW route, NEW n, NEW options, ProperForm(route, n, options)
  PROVE  Offered(Tpl!Form(base, route, n, options))
<1> DEFINE c == Tpl!Form(base, route, n, options)
           d == Typical
<1>1. c.method = "POST" /\ c.route = route /\ c.name = n /\ c.options = options
  BY DEF Tpl!Form
<1> HIDE DEF c
<1>2. d \in Idents /\ d \in Names
  BY TypicalIsIdent
<1> HIDE DEF d
<1>3. route \notin Nameless => n \in Names
  BY DEF ProperForm, Nameless
<1>0. SUFFICES Offered(c)
  BY DEF c
<1>4. SUFFICES ASSUME n \notin Others, ~(n \in Hyphenated /\ route \in Lifecycle),
                      ~(route = "sync" /\ options \subseteq Others)
               PROVE  \E o \in (IF options = {} THEN {""} ELSE options) :
                         \E f \in Filled(c, o) : Calls(route, f)
  BY <1>1, <1>3 DEF Offered, Works
<1>5. CASE route = "new"
  <2> DEFINE f == Filling(d, d, d, d, d, "", "missing", "positive")
  <2>1. f \in InputsOf(FieldsOf[route])
    BY <1>2, <1>5 DEF Filling, InputsOf, FieldsOf, d
  <2>2. f \in Filled(c, "") /\ Calls(route, f)
    BY <1>1, <1>2, <1>5, <2>1 DEF Filling, Filled, Nameless, Calls, NewTenantSubmit, IdentSafe
  <2> QED
    BY <1>5, <2>2 DEF ProperForm
<1>6. CASE route = "import"
  <2> DEFINE f == Filling(d, d, d, d, d, "", "custom", "positive")
  <2>1. f \in InputsOf(FieldsOf[route])
    BY <1>2, <1>6 DEF Filling, InputsOf, FieldsOf, d
  <2>2. f \in Filled(c, "") /\ Calls(route, f)
    BY <1>1, <1>2, <1>6, <2>1 DEF Filling, Filled, Nameless, Calls, ImportDumpSubmit, IdentSafe
  <2> QED
    BY <1>6, <2>2 DEF ProperForm
<1>7. CASE route = "backup"
  <2> DEFINE f == Filling(d, d, d, d, d, "", "missing", "positive")
  <2>1. f \in InputsOf(FieldsOf[route])
    BY <1>2, <1>7 DEF Filling, InputsOf, FieldsOf, d
  <2>2. f \in Filled(c, "") /\ Calls(route, f)
    BY <1>1, <1>2, <1>7, <2>1 DEF Filling, Filled, Nameless, Calls, TriggerBackup, Deps
  <2> QED
    BY <1>7, <2>2 DEF ProperForm
<1>8. CASE route = "branch"
  <2>1. PICK e \in Idents : e # n
    BY IdentsAssumption
  <2> DEFINE f == Filling(n, d, e, d, d, "", "missing", "positive")
  <2>2. n \in Names /\ n \in Idents \cup Hyphenated /\ options = {}
    BY <1>4, <1>8 DEF ProperForm, Names
  <2>3. f \in InputsOf(FieldsOf[route])
    BY <1>2, <1>8, <2>1, <2>2 DEF Filling, InputsOf, FieldsOf, d, Names
  <2>4. f \in Filled(c, "") /\ Calls(route, f)
    BY <1>1, <1>8, <2>1, <2>2, <2>3
       DEF Filling, Filled, Nameless, Calls, BranchTenantSubmit, IdentSafe, DatabaseNameSafe
  <2> QED
    BY <2>2, <2>4
<1>9. CASE route \in {"drop", "rotate"}
  <2> DEFINE f == Filling(n, d, d, d, n, "", "missing", "positive")
  <2>2. n \in Names /\ n \in Idents /\ options = {}
    BY <1>4, <1>9 DEF ProperForm, Names, Lifecycle
  <2>3. f \in InputsOf(FieldsOf[route])
    BY <1>2, <1>9, <2>2 DEF Filling, InputsOf, FieldsOf, d
  <2>4. f \in Filled(c, "") /\ Calls(route, f)
    BY <1>1, <1>9, <2>2, <2>3
       DEF Filling, Filled, Nameless, Calls, DropTenantSubmit, RotateTenantSubmit, IdentSafe
  <2> QED
    BY <2>2, <2>4
<1>10. CASE route = "sync"
  <2>1. PICK o \in options : o \notin Others
    BY <1>4, <1>10
  <2>2. /\ n \in Names /\ n \in Idents /\ options # {}
        /\ o \in Names /\ o \in Idents \cup Hyphenated /\ o # n
    BY <1>4, <1>10, <2>1 DEF ProperForm, Names, Lifecycle
  <2>3. Lower[o] = o
    BY <2>2, LowerAssumption
  <2> DEFINE f == Filling(n, d, d, o, n, "", "missing", "positive")
  <2>4. f \in InputsOf(FieldsOf[route])
    BY <1>2, <1>10, <2>2 DEF Filling, InputsOf, FieldsOf, d
  <2>5. f \in Filled(c, o) /\ Calls(route, f)
    BY <1>1, <1>10, <2>2, <2>3, <2>4
       DEF Filling, Filled, Nameless, Calls, SyncTenantSubmit, IdentSafe, DatabaseNameSafe
  <2> QED
    BY <2>2, <2>5
<1>11. CASE route = "restore"
  <2> DEFINE f == Filling(n, d, d, d, n, "valid", "missing", "positive")
  <2>2. n \in Names /\ n \in Idents /\ options = {"valid"}
    BY <1>4, <1>11 DEF ProperForm, Names, Lifecycle
  <2>3. f \in InputsOf(FieldsOf[route])
    BY <1>2, <1>11, <2>2 DEF Filling, InputsOf, FieldsOf, d
  <2>4. f \in Filled(c, "valid") /\ Calls(route, f)
    BY <1>1, <1>11, <2>2, <2>3
       DEF Filling, Filled, Nameless, Calls, RestoreTenantSubmit, IdentSafe
  <2> QED
    BY <2>2, <2>4
<1>12. CASE route = "terminate"
  <2> DEFINE f == Filling(n, d, d, d, d, "", "missing", "positive")
  <2>2. n \in Names /\ n \in Idents \cup Hyphenated /\ options = {"positive"}
    BY <1>4, <1>12 DEF ProperForm, Names
  <2>3. f \in InputsOf(FieldsOf[route])
    BY <1>2, <1>12, <2>2 DEF Filling, InputsOf, FieldsOf, d
  <2>4. f \in Filled(c, "positive") /\ Calls(route, f)
    BY <1>1, <1>12, <2>2, <2>3
       DEF Filling, Filled, Nameless, Calls, TerminateTenantConnection, DatabaseNameSafe, Deps
  <2> QED
    BY <2>2, <2>4
<1> QED
  BY <1>5, <1>6, <1>7, <1>8, <1>9, <1>10, <1>11, <1>12 DEF ProperForm

\* Every page of the portal.
AllOffered(p) == \A c \in p.controls : Offered(c)

LEMMA LayoutOffered ==
  ASSUME NEW kind, NEW base, NEW name, NEW C, NEW password, \A c \in C : Offered(c)
  PROVE  AllOffered(Tpl!Layout(kind, base, name, C, password))
<1>1. Offered(Tpl!Link(base, "list", ""))
  BY LinkOffered DEF Nameless, GetRoutes, ViewRoutes
<1> QED
  BY <1>1 DEF AllOffered, Tpl!Layout

LEMMA TenantFormOffered ==
  ASSUME NEW kind, NEW base, NEW route, NEW n \in Names, NEW options
  PROVE  /\ ProperForm(route, n, options)
              => AllOffered(Tpl!TenantForm(kind, base, route, n, options))
         /\ options = {} \/ ProperForm(route, n, options)
              => AllOffered(Tpl!ChoiceForm(kind, base, route, n, options))
<1>1. Offered(Tpl!Link(base, "detail", n))
  BY LinkOffered DEF GetRoutes, ViewRoutes
<1>2. ASSUME NEW C, \A c \in C : Offered(c)
      PROVE  AllOffered(Tpl!Layout(kind, base, n, C, FALSE))
  BY <1>2, LayoutOffered
<1>3. ASSUME ProperForm(route, n, options)
      PROVE  AllOffered(Tpl!TenantForm(kind, base, route, n, options))
  <2>1. Offered(Tpl!Form(base, route, n, options))
    BY <1>3, FormOffered
  <2>2. \A c \in {Tpl!Form(base, route, n, options), Tpl!Link(base, "detail", n)} : Offered(c)
    BY <1>1, <2>1
  <2> QED
    BY <1>2, <2>2 DEF Tpl!TenantForm
<1>4. AllOffered(Tpl!Layout(kind, base, n, {Tpl!Link(base, "detail", n)}, FALSE))
  <2>1. \A c \in {Tpl!Link(base, "detail", n)} : Offered(c)
    BY <1>1
  <2> QED
    BY <1>2, <2>1
<1> QED
  BY <1>3, <1>4 DEF Tpl!ChoiceForm

LEMMA FormPageOffered ==
  ASSUME NEW base, NEW route, NEW name, route \notin Nameless => name \in Names,
         NEW p \in FormPages(route, base, name)
  PROVE  AllOffered(p)
<1>0. ASSUME NEW kind, NEW n, NEW C, \A c \in C : Offered(c)
      PROVE  AllOffered(Tpl!Layout(kind, base, n, C, FALSE))
  BY <1>0, LayoutOffered
<1>1. AllOffered(Tpl!ErrorPage(base))
  BY <1>0 DEF Tpl!ErrorPage
<1>2. /\ Offered(Tpl!Form(base, "new", "", {}))
      /\ Offered(Tpl!Form(base, "import", "", {}))
  BY FormOffered DEF ProperForm
<1>3. /\ Offered(Tpl!Link(base, "new", ""))
      /\ Offered(Tpl!Link(base, "import", ""))
  BY LinkOffered DEF Nameless, GetRoutes, FormRoutes
<1>4. AllOffered(Tpl!NewTenantForm(base))
  <2>1. \A c \in {Tpl!Form(base, "new", "", {}), Tpl!Link(base, "import", "")} : Offered(c)
    BY <1>2, <1>3
  <2> QED
    BY <2>1, <1>0 DEF Tpl!NewTenantForm
<1>5. AllOffered(Tpl!ImportDumpForm(base))
  <2>1. \A c \in {Tpl!Form(base, "import", "", {}), Tpl!Link(base, "new", "")} : Offered(c)
    BY <1>2, <1>3
  <2> QED
    BY <2>1, <1>0 DEF Tpl!ImportDumpForm
<1>6. \/ p = Tpl!ErrorPage(base)
      \/ p = Tpl!NewTenantForm(base)
      \/ p = Tpl!ImportDumpForm(base)
      \/ route = "branch" /\ p = Tpl!BranchTenantForm(base, name)
      \/ route = "drop" /\ p = Tpl!DropTenantForm(base, name)
      \/ route = "rotate" /\ p = Tpl!RotateTenantForm(base, name)
      \/ /\ route = "sync"
         /\ \E S \in SUBSET Names : p = Tpl!SyncTenantForm(base, name, S \ {name})
      \/ /\ route = "restore"
         /\ \E B \in SUBSET {"valid"} : p = Tpl!RestoreTenantForm(base, name, B)
  BY DEF FormPages
<1>7. CASE route = "branch" /\ p = Tpl!BranchTenantForm(base, name)
  BY <1>7, TenantFormOffered DEF Tpl!BranchTenantForm, ProperForm, Nameless
<1>8. CASE route = "drop" /\ p = Tpl!DropTenantForm(base, name)
  BY <1>8, TenantFormOffered DEF Tpl!DropTenantForm, ProperForm, Nameless
<1>9. CASE route = "rotate" /\ p = Tpl!RotateTenantForm(base, name)
  BY <1>9, TenantFormOffered DEF Tpl!RotateTenantForm, ProperForm, Nameless
<1>10. ASSUME route = "sync", NEW S \in SUBSET Names,
              p = Tpl!SyncTenantForm(base, name, S \ {name})
       PROVE  AllOffered(p)
  <2>1. name \in Names
    BY <1>10 DEF Nameless
  <2>2. S \ {name} = {} \/ ProperForm("sync", name, S \ {name})
    BY <2>1 DEF ProperForm
  <2> QED
    BY <1>10, <2>1, <2>2, TenantFormOffered DEF Tpl!SyncTenantForm
<1>11. ASSUME route = "restore", NEW B \in SUBSET {"valid"},
              p = Tpl!RestoreTenantForm(base, name, B)
       PROVE  AllOffered(p)
  <2>1. name \in Names
    BY <1>11 DEF Nameless
  <2>2. B = {} \/ ProperForm("restore", name, B)
    <3>1. B = {} \/ B = {"valid"}
      OBVIOUS
    <3> QED
      BY <2>1, <3>1 DEF ProperForm
  <2> QED
    BY <1>11, <2>1, <2>2, TenantFormOffered DEF Tpl!RestoreTenantForm
<1> QED
  BY <1>1, <1>4, <1>5, <1>6, <1>7, <1>8, <1>9, <1>10, <1>11

LEMMA ShownPageOffered ==
  ASSUME NEW base, NEW name \in Names, NEW managed \in BOOLEAN, NEW creds \in BOOLEAN,
         NEW isAdmin \in BOOLEAN, NEW pids \in SUBSET {"positive"}
  PROVE  /\ AllOffered(Tpl!TenantNotFound(base, name))
         /\ AllOffered(Tpl!TenantDetail(base, name, managed, creds, isAdmin))
         /\ AllOffered(Tpl!TenantConnections(base, name, pids, isAdmin))
<1>0. ASSUME NEW kind, NEW n, NEW pw, NEW C, \A c \in C : Offered(c)
      PROVE  AllOffered(Tpl!Layout(kind, base, n, C, pw))
  BY <1>0, LayoutOffered
<1>1. ASSUME NEW r \in {"detail", "conns", "branch", "sync", "rotate", "restore", "drop"}
      PROVE  Offered(Tpl!Link(base, r, name))
  BY LinkOffered DEF GetRoutes, ViewRoutes, FormRoutes, Lifecycle
<1>2. AllOffered(Tpl!TenantNotFound(base, name))
  BY <1>0 DEF Tpl!TenantNotFound
<1>3. AllOffered(Tpl!TenantDetail(base, name, managed, creds, isAdmin))
  <2> DEFINE R == {"conns", "branch"} \cup
                  (IF managed THEN {"sync", "rotate", "restore", "drop"} ELSE {})
             C == IF ~isAdmin THEN {} ELSE {Tpl!Link(base, r, name) : r \in R}
  <2>1. \A c \in C : Offered(c)
    BY <1>1
  <2> QED
    BY <2>1, <1>0 DEF Tpl!TenantDetail
<1>4. AllOffered(Tpl!TenantConnections(base, name, pids, isAdmin))
  <2> DEFINE C == {Tpl!Link(base, "detail", name), Tpl!Link(base, "conns", name)} \cup
                  (IF isAdmin /\ pids # {} THEN {Tpl!Form(base, "terminate", name, pids)}
                                         ELSE {})
  <2>1. pids # {} => Offered(Tpl!Form(base, "terminate", name, pids))
    <3>1. pids # {} => pids = {"positive"}
      OBVIOUS
    <3> QED
      BY <3>1, FormOffered DEF ProperForm
  <2>2. \A c \in C : Offered(c)
    BY <1>1, <2>1
  <2> QED
    BY <2>2, <1>0 DEF Tpl!TenantConnections
<1> QED
  BY <1>2, <1>3, <1>4

LEMMA ListOffered ==
  ASSUME NEW base, NEW S \in SUBSET Names, NEW isAdmin \in BOOLEAN
  PROVE  /\ AllOffered(Tpl!ErrorPage(base))
         /\ AllOffered(Tpl!TenantList(base, S, isAdmin))
<1>1. AllOffered(Tpl!ErrorPage(base))
  BY LayoutOffered DEF Tpl!ErrorPage
<1> DEFINE Rows == UNION {Tpl!tenantRow(base, t, isAdmin) : t \in S}
           Create == IF isAdmin THEN {Tpl!Link(base, "new", "")} ELSE {}
           C == Rows \cup Tpl!BackupStatus(base, isAdmin) \cup Create
<1>2. ASSUME NEW c \in C PROVE Offered(c)
  <2>1. ASSUME c \in Rows PROVE Offered(c)
    <3>1. PICK t \in S : c \in Tpl!tenantRow(base, t, isAdmin)
      BY <2>1
    <3>2. Offered(Tpl!Link(base, "detail", t)) /\ Offered(Tpl!Link(base, "dump", t))
      BY LinkOffered DEF GetRoutes, ViewRoutes
    <3> QED
      BY <3>1, <3>2 DEF Tpl!tenantRow
  <2>2. ASSUME c \in Tpl!BackupStatus(base, isAdmin) PROVE Offered(c)
    <3>1. Offered(Tpl!Form(base, "backup", "", {}))
      BY FormOffered DEF ProperForm
    <3> QED
      BY <2>2, <3>1 DEF Tpl!BackupStatus
  <2>3. ASSUME c \in Create PROVE Offered(c)
    <3>1. Offered(Tpl!Link(base, "new", ""))
      BY LinkOffered DEF GetRoutes, FormRoutes, Nameless
    <3> QED
      BY <2>3, <3>1
  <2> HIDE DEF Rows, Create
  <2> QED
    BY <2>1, <2>2, <2>3
<1>3. \A c \in C : Offered(c)
  BY <1>2
<1>4. AllOffered(Tpl!Layout("list", base, "", C, FALSE))
  <2> HIDE DEF C
  <2> QED
    BY <1>3, LayoutOffered
<1> QED
  BY <1>1, <1>4 DEF Tpl!TenantList

LEMMA DonePageOffered ==
  ASSUME NEW base, NEW route, NEW form, FormNamed(form)
  PROVE  AllOffered(DonePage(route, base, form))
<1>1. ASSUME NEW kind, NEW n \in Names, NEW pw
      PROVE  AllOffered(Tpl!DonePage(kind, base, n, pw))
  <2>1. Offered(Tpl!Link(base, "detail", n))
    BY LinkOffered DEF GetRoutes, ViewRoutes
  <2>2. \A c \in {Tpl!Link(base, "detail", n)} : Offered(c)
    BY <2>1
  <2> QED
    BY <2>2, LayoutOffered DEF Tpl!DonePage
<1>2. AllOffered(Tpl!DropTenantDone(base))
  BY LayoutOffered DEF Tpl!DropTenantDone
<1> QED
  BY <1>1, <1>2 DEF DonePage, FormNamed, Tpl!NewTenantCreated, Tpl!BranchTenantCreated,
     Tpl!SyncTenantDone, Tpl!RotateTenantDone, Tpl!RestoreTenantDone

\* The tab that takes the step, and the others.
LEMMA OffersStep ==
  ASSUME TabsInv, OffersInv, NEW t \in Tabs, Step(t)
  PROVE  OffersInv'
<1> DEFINE r == request[t]
<1>a. Shape /\ TabOk(r, page[t], trail[t], admin) /\ admin \in BOOLEAN
  BY DEF TabsInv, Shape
<1>b. r.at # "none" => Fields(r) /\ (r.at = "verb" => r.method = "POST")
  BY <1>a DEF TabOk, RequestOk, None
<1>c. /\ AllOffered(page[t])
      /\ r.at # "none" => Named(r)
  BY DEF OffersInv, AllOffered
<1>d. SUFFICES /\ AllOffered(page'[t])
               /\ request'[t].at # "none" => Named(request'[t])
  BY Frame DEF OffersInv, AllOffered, TabsInv
<1>e. ASSUME NEW p, Render(t, p), AllOffered(p)
      PROVE  page'[t] = p /\ request'[t] = None /\ AllOffered(page'[t]) /\ request'[t].at = "none"
  BY <1>a, <1>e DEF Shape, Render, None
<1>f. ASSUME NEW q, Ask(t, q), page' = page,
             q.route \notin Nameless => q.name \in Names,
             q.method = "POST" => FormNamed(q.form)
      PROVE  AllOffered(page'[t]) /\ Named(request'[t])
  BY <1>a, <1>c, <1>f DEF Shape, Ask, Named
<1>g. AllOffered(Tpl!ErrorPage(r.cluster))
  BY <1>a, ListOffered
<1>1. CASE Visit(t)
  <2>1. PICK c \in Clusters \cup {"", "unknown"}, g \in GetRoutes, n \in Names :
          Ask(t, Get("typed", c, g, IF g \in Nameless THEN "" ELSE n))
    BY <1>1 DEF Visit
  <2> DEFINE q == Get("typed", c, g, IF g \in Nameless THEN "" ELSE n)
  <2>2. /\ q.method = "GET" /\ q.route = g
        /\ g \notin Nameless => q.name = n
    BY DEF Get
  <2> HIDE DEF q
  <2> QED
    BY <1>1, <1>f, <2>1, <2>2 DEF Visit, q
<1>2. CASE Follow(t)
  <2>1. PICK c \in page[t].controls :
          \/ Ask(t, Get("followed", c.cluster, c.route, c.name))
          \/ \E choice, o : \E f \in Filled(c, choice) :
                Ask(t, [how |-> "followed", method |-> "POST", cluster |-> c.cluster,
                        route |-> c.route, name |-> c.name, form |-> f,
                        choice |-> choice, origin |-> o, site |-> "same-origin"])
    BY <1>2 DEF Follow
  <2>2. c.route \notin Nameless => c.name \in Names
    BY <1>c DEF AllOffered, Offered
  <2>3. CASE Ask(t, Get("followed", c.cluster, c.route, c.name))
    <3> DEFINE q == Get("followed", c.cluster, c.route, c.name)
    <3>1. q.method = "GET" /\ q.route = c.route /\ q.name = c.name
      BY DEF Get
    <3> HIDE DEF q
    <3> QED
      BY <1>2, <1>f, <2>2, <2>3, <3>1 DEF Follow, q
  <2>4. ASSUME NEW choice, NEW o, NEW f \in Filled(c, choice),
               Ask(t, [how |-> "followed", method |-> "POST", cluster |-> c.cluster,
                       route |-> c.route, name |-> c.name, form |-> f,
                       choice |-> choice, origin |-> o, site |-> "same-origin"])
        PROVE  AllOffered(page'[t]) /\ Named(request'[t])
    <3>1. FormNamed(f)
      BY InputsNamed DEF Filled
    <3> QED
      BY <1>2, <1>f, <2>2, <2>4, <3>1 DEF Follow
  <2> QED
    BY <2>1, <2>3, <2>4
<1>3. CASE PostFromElsewhere(t)
  <2>1. PICK c, g, o : \E f \in InputsOf(FieldsOf[g]) :
          Ask(t, [how |-> "posted", method |-> "POST", cluster |-> c, route |-> g,
                  name |-> f.name, form |-> f, choice |-> "", origin |-> o,
                  site |-> "cross-site"])
    BY <1>3 DEF PostFromElsewhere
  <2>2. PICK f \in InputsOf(FieldsOf[g]) :
          Ask(t, [how |-> "posted", method |-> "POST", cluster |-> c, route |-> g,
                  name |-> f.name, form |-> f, choice |-> "", origin |-> o,
                  site |-> "cross-site"])
    BY <2>1
  <2>3. FormNamed(f) /\ f.name \in Names
    BY InputsNamed DEF FormNamed
  <2> QED
    BY <1>3, <1>f, <2>2, <2>3 DEF PostFromElsewhere
<1>4. CASE Redirect(t) \/ Admit(t) \/ Submit(t)
  <2>1. /\ page' = page /\ r.at # "none"
        /\ \/ request'[t] = [r EXCEPT !.cluster = Default]
           \/ request'[t] = [r EXCEPT !.at = "handler", !.workspace = DepsOf(r.cluster)]
           \/ request'[t] = [r EXCEPT !.at = "verb"]
    BY <1>4, <1>a DEF Redirect, Admit, Submit, Handling, Shape
  <2>2. Fields(r) /\ Named(r)
    BY <2>1, <1>b, <1>c
  <2>3. /\ request'[t].route = r.route /\ request'[t].name = r.name
        /\ request'[t].method = r.method /\ request'[t].form = r.form
    BY <2>1, <2>2 DEF Fields
  <2> QED
    BY <1>c, <2>1, <2>2, <2>3 DEF Named
<1>5. CASE Reject(t)
  <2>1. page'[t] = Foreign("plain") /\ request'[t] = None
    BY <1>5, <1>a DEF Reject, Shape
  <2>2. Foreign("plain").controls = {} /\ None.at = "none"
    BY DEF Foreign, None
  <2> QED
    BY <2>1, <2>2 DEF AllOffered
<1>6. ASSUME r.at # "none", NEW p \in FormPages(r.route, r.cluster, r.name), Render(t, p)
      PROVE  AllOffered(page'[t]) /\ request'[t].at = "none"
  <2>1. AllOffered(p)
    BY <1>6, <1>c, FormPageOffered DEF Named
  <2> QED
    BY <1>6, <1>e, <2>1
<1>7. CASE ShowForm(t) \/ Refuse(t)
  BY <1>6, <1>7 DEF ShowForm, Refuse, Handling
<1>8. CASE ShowList(t)
  <2>1. \/ Render(t, Tpl!ErrorPage(r.cluster))
        \/ \E S \in SUBSET Names : Render(t, Tpl!TenantList(r.cluster, S, admin))
    BY <1>8 DEF ShowList
  <2> QED
    BY <2>1, <1>a, <1>e, <1>g, ListOffered
<1>9. CASE ShowDetail(t)
  <2>1. r.name \in Names
    BY <1>9, <1>c DEF ShowDetail, Handling, Named, Nameless
  <2>2. \/ Render(t, Tpl!ErrorPage(r.cluster))
        \/ Render(t, Tpl!TenantNotFound(r.cluster, r.name))
        \/ \E managed, creds \in BOOLEAN :
              Render(t, Tpl!TenantDetail(r.cluster, r.name, managed, creds, admin))
    BY <1>9 DEF ShowDetail
  <2>3. /\ AllOffered(Tpl!TenantNotFound(r.cluster, r.name))
        /\ \A managed, creds \in BOOLEAN :
              AllOffered(Tpl!TenantDetail(r.cluster, r.name, managed, creds, admin))
    BY <2>1, <1>a, ShownPageOffered
  <2> QED
    BY <2>2, <2>3, <1>e, <1>g
<1>10. CASE ShowConnections(t)
  <2>1. r.name \in Names
    BY <1>10, <1>c DEF ShowConnections, Handling, Named, Nameless
  <2>2. \/ Render(t, Tpl!ErrorPage(r.cluster))
        \/ \E pids \in SUBSET {"positive"} :
              Render(t, Tpl!TenantConnections(r.cluster, r.name, pids, admin))
    BY <1>10 DEF ShowConnections
  <2>3. \A pids \in SUBSET {"positive"} :
           AllOffered(Tpl!TenantConnections(r.cluster, r.name, pids, admin))
    BY <2>1, <1>a, ShownPageOffered
  <2> QED
    BY <2>2, <2>3, <1>e, <1>g
<1>11. CASE Download(t)
  <2>1. CASE Render(t, Tpl!ErrorPage(r.cluster))
    BY <2>1, <1>e, <1>g
  <2>2. CASE request' = [request EXCEPT ![t] = None] /\ page' = page
    BY <2>2, <1>a, <1>c DEF Shape, None
  <2> QED
    BY <1>11, <2>1, <2>2 DEF Download
<1>12. CASE Succeed(t)
  <2>1. r.at = "verb" /\ Render(t, DonePage(r.route, r.cluster, r.form))
    BY <1>12 DEF Succeed
  <2>2. FormNamed(r.form)
    BY <2>1, <1>b, <1>c DEF Named
  <2> QED
    BY <2>1, <2>2, <1>e, DonePageOffered
<1>13. CASE SeeOther(t)
  <2> DEFINE g == IF r.route = "backup" THEN "list" ELSE "conns"
             n == IF r.route = "backup" THEN "" ELSE r.name
             q == Get("followed", h_route(r), g, n)
  <2>1. Ask(t, q) /\ r.at = "verb" /\ r.route \in {"terminate", "backup"} /\ page' = page
    BY <1>13 DEF SeeOther
  <2>2. q.method = "GET" /\ q.route = g /\ q.name = n
    BY DEF Get
  <2>3. g \notin Nameless => n \in Names
    BY <2>1, <1>c DEF Named, Nameless
  <2> HIDE DEF q, g, n
  <2> QED
    BY <2>1, <2>2, <2>3, <1>f
<1>14. CASE Fail(t)
  <2>1. CASE Render(t, Tpl!ErrorPage(r.cluster))
    BY <2>1, <1>e, <1>g
  <2>2. CASE r.route = "restore" /\ \E p \in FormPages("restore", r.cluster, r.name) : Render(t, p)
    BY <1>14, <2>2, <1>6 DEF Fail
  <2> QED
    BY <1>14, <2>1, <2>2 DEF Fail
<1> QED
  BY <1>1, <1>2, <1>3, <1>4, <1>5, <1>7, <1>8, <1>9, <1>10, <1>11, <1>12, <1>13,
     <1>14 DEF Step

LEMMA OffersNext ==
  ASSUME TabsInv, OffersInv, [Next]_vars
  PROVE  OffersInv'
<1>1. CASE Reload
  <2>1. ASSUME NEW t \in Tabs, request'[t].at # "none"
        PROVE  Named(request'[t])
    <3> DEFINE r == request[t]
    <3>1. request'[t] = r \/ request'[t] = [r EXCEPT !.granted = TRUE]
      BY <1>1 DEF Reload
    <3>2. r = None => request'[t] = r
      BY <1>1 DEF Reload, None
    <3>3. r # None => Fields(r) /\ r.at # "none"
      BY DEF TabsInv, TabOk, RequestOk
    <3>4. r # None
      BY <2>1, <3>2 DEF None
    <3>5. /\ request'[t].route = r.route /\ request'[t].name = r.name
          /\ request'[t].method = r.method /\ request'[t].form = r.form
      BY <3>1, <3>3, <3>4 DEF Fields
    <3> QED
      BY <3>3, <3>4, <3>5 DEF OffersInv, Named
  <2> QED
    BY <1>1, <2>1 DEF Reload, OffersInv
<1>2. ASSUME NEW t \in Tabs, Step(t)
      PROVE  OffersInv'
  BY <1>2, OffersStep
<1>3. CASE UNCHANGED vars
  BY <1>3 DEF vars, OffersInv
<1> QED
  BY <1>1, <1>2, <1>3 DEF Next, Step

(* Whatever the clusters hold and however a tab came to its page, each link of *)
(* it leads to a page, and each form can be filled in so that its handler runs *)
(* the verb, unless the database is not the portal's to manage.                *)
THEOREM OffersAlwaysWork == Spec => []OffersWork
<1>1. Init => OffersInv
  <2>1. Foreign("elsewhere").controls = {} /\ None.at = "none"
    BY DEF Foreign, None
  <2> QED
    BY <2>1 DEF Init, OffersInv
<1>2. TabsInv /\ OffersInv /\ [Next]_vars => OffersInv'
  BY OffersNext
<1>3. OffersInv => OffersWork
  BY DEF OffersInv, Offered, Works, OffersWork
<1> QED
  BY <1>1, <1>2, <1>3, TabsInvariant, PTL DEF Spec
================================================================================
