--------------------------- MODULE PortalServerProofs ---------------------------
(***************************************************************************)
(* Proofs about PortalServer, for any number of users, requests, flags and *)
(* changes of the admin list.                                              *)
(***************************************************************************)
EXTENDS PortalServer, TLAPS

-----------------------------------------------------------------------------
(* What handlers check is what verbs check *)

\* A handler that calls its verb has made the checks the verb makes of its arguments.
LEMMA HandlersCheck ==
    ASSUME NEW d \in Dispatched
    PROVE  d.accepted = TRUE
<1>1. PICK route \in ViewRoutes \cup AdminRoutes :
         d \in {[route |-> route, accepted |-> VerbAccepts(route, i)] : i \in Reaching(route)}
  BY DEF Dispatched
<1>1a. PICK r \in Reaching(route) :
         d = [route |-> route, accepted |-> VerbAccepts(route, r)]
  BY <1>1
<1>2. Calls(route, r)
  BY DEF Reaching
<1>3. VerbAccepts(route, r)
  <2> USE DEF VerbAccepts
  <2>1. CASE route = "new" /\ NewTenantSubmit(r)
    BY <2>1 DEF NewTenantSubmit, Provision
  <2>2. CASE route = "import" /\ ImportDumpSubmit(r)
    BY <2>2 DEF ImportDumpSubmit, Provision
  <2>3. CASE route = "branch" /\ BranchTenantSubmit(r)
    BY <2>3 DEF BranchTenantSubmit, Branch, Provision, Deps
  <2>4. CASE route = "sync" /\ SyncTenantSubmit(r)
    BY <2>4 DEF SyncTenantSubmit, Sync, Confirmed, Deps
  <2>5. CASE route = "drop" /\ DropTenantSubmit(r)
    BY <2>5 DEF DropTenantSubmit, Drop, Confirmed
  <2>6. CASE route = "rotate" /\ RotateTenantSubmit(r)
    BY <2>6 DEF RotateTenantSubmit, Rotate, Confirmed
  <2>7. CASE route = "restore" /\ RestoreTenantSubmit(r)
    BY <2>7 DEF RestoreTenantSubmit, RestoreFromBackup, Confirmed
  <2>8. CASE route = "terminate" /\ TerminateTenantConnection(r)
    BY <2>8 DEF TerminateTenantConnection, TerminateConnection
  <2>9. CASE route = "conns" /\ TenantConnections(r)
    BY <2>9 DEF TenantConnections, OfDatabase
  <2>10. CASE route = "dump" /\ DumpTenant(r)
    BY <2>10 DEF DumpTenant, OfDatabase
  <2>11. CASE route = "backup" /\ TriggerBackup(r)
    BY <2>11
  <2>12. CASE route = "list" /\ ListTenants(r)
    BY <2>12 DEF ListTenants
  <2>13. CASE route = "detail" /\ TenantDetail(r)
    BY <2>13 DEF TenantDetail, OfDatabase
  <2> QED
    BY <1>2, <2>1, <2>2, <2>3, <2>4, <2>5, <2>6, <2>7, <2>8, <2>9, <2>10, <2>11, <2>12, <2>13
       DEF Calls
<1> QED
  BY <1>1a, <1>3

-----------------------------------------------------------------------------
(* The invariant *)

\* Before ServeClusters has read the list, nothing else has begun.
QuietAtStart ==
    server = "starting" =>
        watcher = "off" /\ listener = "off" /\ \A r \in Requests : at[r] = "none"

\* As long as the list is watched, what the file is has been recorded.
FileKnown == watcher # "off" => file = Unreadable \/ ListOf(file) \in versions

\* Reload reads a list the file has been.
ScanIsList == watcher = "scanning" => opened \in versions

\* Who is an admin now was one during every request.
AdminsRecorded == \A r \in Requests : at[r] # "none" => Admins(logins) \subseteq inForce[r]

\* Behind RequireAdmin a request's user has been an admin.
AdmittedRecorded ==
    \A r \in Requests : at[r] \in {"handler", "verb"} => login[r] \in inForce[r]

SInv ==
    /\ TypeOK
    /\ QuietAtStart
    /\ FileKnown
    /\ ScanIsList
    /\ AdminsRecorded
    /\ AdmittedRecorded
    /\ ArgumentsAccepted
    /\ ListIsWhole

\* What the flags add to the list are logins.
LEMMA AdminsAreLogins ==
    ASSUME TypeOK, NEW l \in SUBSET Logins
    PROVE  Admins(l) \in SUBSET Logins
BY ConfigsAssumption DEF TypeOK, Admins, Flags

LEMMA InitInv == Init => SInv
<1> SUFFICES ASSUME Init PROVE SInv
  OBVIOUS
<1>1. edits \in 0 .. MaxEdits /\ opened \in Files
  BY ConfigsAssumption DEF Init, Files
<1>2. TypeOK
  BY <1>1 DEF Init, TypeOK
<1> QED
  BY <1>2 DEF Init, SInv, QuietAtStart, FileKnown, ScanIsList, AdminsRecorded,
     AdmittedRecorded, ArgumentsAccepted, ListIsWhole

-----------------------------------------------------------------------------
(* The steps *)

\* A list the file has been takes the place of the old one.
LEMMA ListReplaced ==
    ASSUME SInv, NEW l \in SUBSET Logins, SetLogins(l), UNCHANGED <<config, at, login>>
    PROVE  /\ logins' \in SUBSET Logins
           /\ inForce' \in [Requests -> SUBSET Logins]
           /\ AdminsRecorded' /\ AdmittedRecorded'
<1>1. Admins(l) \in SUBSET Logins
  BY AdminsAreLogins DEF SInv
<1>2. inForce' \in [Requests -> SUBSET Logins]
  BY <1>1 DEF SInv, TypeOK, SetLogins
<1>3. AdminsRecorded' /\ AdmittedRecorded'
  BY <1>1 DEF SInv, TypeOK, SetLogins, AdminsRecorded, AdmittedRecorded, Admins
<1> QED
  BY <1>2, <1>3 DEF SetLogins

LEMMA EditFileInv == SInv /\ EditFile => SInv'
<1> SUFFICES ASSUME SInv, EditFile PROVE SInv'
  OBVIOUS
<1> USE DEF SInv, EditFile, serving, request
<1>1. PICK f \in Files \ {file} :
         /\ file' = f
         /\ versions' = IF f = Unreadable THEN versions ELSE versions \cup {ListOf(f)}
  OBVIOUS
<1>2. f # Unreadable => ListOf(f) \in SUBSET Logins
  BY DEF Files, ListOf
<1>3. edits' \in 0 .. MaxEdits /\ versions' \in SUBSET SUBSET Logins
  BY <1>1, <1>2, ConfigsAssumption DEF TypeOK
<1>4. TypeOK'
  BY <1>1, <1>3 DEF TypeOK
<1>5. FileKnown' /\ ScanIsList' /\ ListIsWhole'
  BY <1>1 DEF FileKnown, ScanIsList, ListIsWhole, ListOf
<1> QED
  BY <1>4, <1>5 DEF QuietAtStart, AdminsRecorded, AdmittedRecorded, ArgumentsAccepted, Admins

\* The steps of the watcher that leave list and file alone.
LEMMA SignalsInv == SInv /\ (Hup \/ WatchSIGHUP \/ WatcherEnds) => SInv'
<1> SUFFICES ASSUME SInv, Hup \/ WatchSIGHUP \/ WatcherEnds PROVE SInv'
  OBVIOUS
<1> USE DEF SInv, serving, request
<1>1. CASE Hup
  <2>1. hup' \in BOOLEAN
    BY <1>1 DEF Hup, Buffered
  <2> QED
    BY <1>1, <2>1 DEF Hup, TypeOK, QuietAtStart, FileKnown, ScanIsList, AdminsRecorded,
       AdmittedRecorded, ArgumentsAccepted, ListIsWhole, Admins
<1>2. CASE WatchSIGHUP
  BY <1>2 DEF WatchSIGHUP, TypeOK, QuietAtStart, FileKnown, ScanIsList, AdminsRecorded,
     AdmittedRecorded, ArgumentsAccepted, ListIsWhole, Admins
<1>3. CASE WatcherEnds
  BY <1>3 DEF WatcherEnds, TypeOK, QuietAtStart, FileKnown, ScanIsList, AdminsRecorded,
     AdmittedRecorded, ArgumentsAccepted, ListIsWhole, Admins
<1> QED
  BY <1>1, <1>2, <1>3

LEMMA OpenInv == SInv /\ Open => SInv'
<1> SUFFICES ASSUME SInv, Open PROVE SInv'
  OBVIOUS
<1> USE DEF SInv, Open, serving
<1>1. /\ logins' \in SUBSET Logins
      /\ inForce' \in [Requests -> SUBSET Logins]
      /\ AdminsRecorded' /\ AdmittedRecorded'
  <2>1. CASE file = Missing
    BY <2>1, ListReplaced
  <2>2. CASE file # Missing
    BY <2>2 DEF TypeOK, AdminsRecorded, AdmittedRecorded, Admins
  <2> QED
    BY <2>1, <2>2
<1>2. opened' \in Files /\ announced' \in BOOLEAN
  BY DEF TypeOK, Files
<1>3. TypeOK'
  BY <1>1, <1>2 DEF TypeOK
<1>4. logins' \in {logins, {}} /\ (logins' # logins => file = Missing)
  BY DEF SetLogins
<1>5. FileKnown' /\ ScanIsList' /\ ListIsWhole'
  BY <1>4, MarkersAssumption DEF FileKnown, ScanIsList, ListIsWhole, ListOf
<1> QED
  BY <1>1, <1>3, <1>5 DEF QuietAtStart, ArgumentsAccepted

LEMMA ScanInv == SInv /\ Scan => SInv'
<1> SUFFICES ASSUME SInv, Scan PROVE SInv'
  OBVIOUS
<1> USE DEF SInv, Scan, serving
<1>1. opened \in versions /\ opened \in SUBSET Logins
  BY DEF ScanIsList, TypeOK
<1>2. /\ logins' \in SUBSET Logins
      /\ inForce' \in [Requests -> SUBSET Logins]
      /\ AdminsRecorded' /\ AdmittedRecorded'
      /\ logins' \in {logins, opened}
  <2>1. CASE SetLogins(opened)
    BY <1>1, <2>1, ListReplaced DEF SetLogins
  <2>2. CASE UNCHANGED <<logins, inForce>>
    BY <2>2 DEF TypeOK, AdminsRecorded, AdmittedRecorded, Admins
  <2> QED
    BY <2>1, <2>2
<1>3. TypeOK'
  BY <1>2 DEF TypeOK, Files
<1> QED
  BY <1>1, <1>2, <1>3 DEF QuietAtStart, ArgumentsAccepted, FileKnown, ScanIsList, ListIsWhole

LEMMA StartInv == SInv /\ Start => SInv'
<1> SUFFICES ASSUME SInv, Start PROVE SInv'
  OBVIOUS
<1> USE DEF SInv, Start, request
<1>1. file # Unreadable => ListOf(file) \in SUBSET Logins
  BY DEF TypeOK, Files, ListOf
<1>2. Granted \in SUBSET Logins
  BY ConfigsAssumption DEF TypeOK, Granted, Flags
<1>3. /\ logins' \in SUBSET Logins /\ versions' \in SUBSET SUBSET Logins
      /\ watcher' \in {"off", "waiting"} /\ listener' \in {"off", "on"}
      /\ server' \in {"listening", "returned"}
  BY <1>1, <1>2 DEF TypeOK, QuietAtStart
<1>4. TypeOK'
  BY <1>3 DEF TypeOK
<1>5. FileKnown' /\ ScanIsList' /\ ListIsWhole'
  BY <1>3 DEF FileKnown, ScanIsList, ListIsWhole, QuietAtStart, ListOf
<1> QED
  BY <1>3, <1>4, <1>5 DEF QuietAtStart, AdminsRecorded, AdmittedRecorded, ArgumentsAccepted

\* Listener, signals and shutdown.
LEMMA ServingInv == SInv /\ (ListenFails \/ Signal \/ Drain \/ GracePasses \/ Return) => SInv'
<1> SUFFICES ASSUME SInv, ListenFails \/ Signal \/ Drain \/ GracePasses \/ Return
             PROVE  SInv'
  OBVIOUS
<1>1. /\ UNCHANGED <<config, file, logins, hup, opened, announced, versions, edits,
                     at, login, gone, accepted, inForce>>
      /\ watcher' \in {watcher, "off"}
      /\ server' \in {server, "draining", "returned"}
      /\ listener' \in {listener, "closed", "failed"}
      /\ server' = "starting" => server = "starting" /\ listener' = listener
      /\ ctxDone' \in {ctxDone, TRUE} /\ graceOver' \in {graceOver, TRUE}
  BY DEF ListenFails, Signal, Drain, GracePasses, Return, Exit, list, request
<1>2. /\ watcher' \in {"off", "waiting", "opening", "scanning"}
      /\ server' \in {"starting", "listening", "draining", "returned"}
      /\ listener' \in {"off", "on", "closed", "failed"}
      /\ ctxDone' \in BOOLEAN /\ graceOver' \in BOOLEAN
  BY <1>1 DEF SInv, TypeOK
<1>3. TypeOK'
  BY <1>1, <1>2, Zenon DEF SInv, TypeOK
<1> QED
  BY <1>1, <1>3 DEF SInv, QuietAtStart, FileKnown, ScanIsList, AdminsRecorded,
     AdmittedRecorded, ArgumentsAccepted, ListIsWhole, Admins, ListOf

\* A request is admitted as its user's list says.
LEMMA ArriveInv == ASSUME NEW r \in Requests PROVE SInv /\ Arrive(r) => SInv'
<1> SUFFICES ASSUME SInv, Arrive(r) PROVE SInv'
  OBVIOUS
<1> USE DEF SInv, Arrive, list, serving
<1>1. \A c \in Credentials : Identity(c) \in Logins \cup {None}
  BY ConfigsAssumption DEF Credentials, Identity, TypeOK, Flags
<1>2. PICK l \in Logins : login' = [login EXCEPT ![r] = l]
  BY <1>1
<1>3. Admins(logins) \in SUBSET Logins
  BY AdminsAreLogins DEF TypeOK
<1>4. TypeOK'
  BY <1>2, <1>3, MarkersAssumption DEF TypeOK
<1>5. AdminsRecorded' /\ AdmittedRecorded' /\ ArgumentsAccepted'
  BY <1>2 DEF TypeOK, AdminsRecorded, AdmittedRecorded, ArgumentsAccepted, Admins
<1> QED
  BY <1>4, <1>5 DEF QuietAtStart, FileKnown, ScanIsList, ListIsWhole

\* A request that ends is forgotten.
LEMMA AnswerInv == ASSUME NEW r \in Requests PROVE SInv /\ Answer(r) => SInv'
<1> SUFFICES ASSUME SInv, Answer(r) PROVE SInv'
  OBVIOUS
<1> USE DEF SInv, Answer, list, serving
<1>1. TypeOK'
  BY DEF TypeOK
<1>2. AdminsRecorded' /\ AdmittedRecorded' /\ ArgumentsAccepted' /\ QuietAtStart'
  BY DEF TypeOK, AdminsRecorded, AdmittedRecorded, ArgumentsAccepted, QuietAtStart, Admins
<1> QED
  BY <1>1, <1>2 DEF FileKnown, ScanIsList, ListIsWhole

\* RequireAdmin looks at the list of the moment, which is recorded.
LEMMA RequireAdminInv == ASSUME NEW r \in Requests PROVE SInv /\ RequireAdmin(r) => SInv'
<1> SUFFICES ASSUME SInv, RequireAdmin(r) PROVE SInv'
  OBVIOUS
<1> USE DEF SInv, RequireAdmin, Running, list, serving
<1>1. TypeOK'
  BY DEF TypeOK
<1>2. AdminsRecorded' /\ AdmittedRecorded' /\ ArgumentsAccepted' /\ QuietAtStart'
  BY DEF TypeOK, AdminsRecorded, AdmittedRecorded, ArgumentsAccepted, QuietAtStart,
         Admins, Has
<1> QED
  BY <1>1, <1>2 DEF FileKnown, ScanIsList, ListIsWhole

LEMMA DispatchInv == ASSUME NEW r \in Requests PROVE SInv /\ Dispatch(r) => SInv'
<1> SUFFICES ASSUME SInv, Dispatch(r) PROVE SInv'
  OBVIOUS
<1> USE DEF SInv, Dispatch, Running, list, serving
<1>1. accepted' = [accepted EXCEPT ![r] = TRUE]
  BY HandlersCheck
<1>2. TypeOK'
  BY <1>1 DEF TypeOK
<1>3. AdminsRecorded' /\ AdmittedRecorded' /\ ArgumentsAccepted' /\ QuietAtStart'
  BY <1>1 DEF TypeOK, AdminsRecorded, AdmittedRecorded, ArgumentsAccepted, QuietAtStart, Admins
<1> QED
  BY <1>2, <1>3 DEF FileKnown, ScanIsList, ListIsWhole

LEMMA ClientGoneInv == ASSUME NEW r \in Requests PROVE SInv /\ ClientGone(r) => SInv'
BY DEF SInv, ClientGone, Running, list, serving, TypeOK, AdminsRecorded, AdmittedRecorded,
       ArgumentsAccepted, QuietAtStart, FileKnown, ScanIsList, ListIsWhole, Admins

LEMMA NextInv == SInv /\ [Next]_vars => SInv'
<1> SUFFICES ASSUME SInv, [Next]_vars PROVE SInv'
  OBVIOUS
<1>1. CASE Watcher
  BY <1>1, SignalsInv, OpenInv, ScanInv DEF Watcher
<1>2. CASE Serve
  BY <1>2, StartInv, ServingInv DEF Serve
<1>3. CASE EditFile \/ Hup
  BY <1>3, EditFileInv, SignalsInv
<1>4. CASE ListenFails \/ Signal \/ GracePasses
  BY <1>4, ServingInv
<1>5. ASSUME NEW r \in Requests, Handle(r) PROVE SInv'
  BY <1>5, ArriveInv, AnswerInv, RequireAdminInv, DispatchInv, ClientGoneInv
     DEF Handle, View, Refuse, Respond, Abort
<1>6. CASE UNCHANGED vars
  BY <1>6 DEF SInv, vars, TypeOK, AdminsRecorded, AdmittedRecorded, ArgumentsAccepted,
              QuietAtStart, FileKnown, ScanIsList, ListIsWhole, Admins, ListOf
<1> QED
  BY <1>1, <1>2, <1>3, <1>4, <1>5, <1>6 DEF Next

LEMMA Invariant == Spec => []SInv
BY InitInv, NextInv, PTL DEF Spec

-----------------------------------------------------------------------------
(* Theorems *)

\* Every variable has its type, and a request that was let in has a login.
THEOREM TypeCorrect == Spec => []TypeOK
<1>1. SInv => TypeOK
  BY DEF SInv
<1> QED
  BY <1>1, Invariant, PTL

\* However often the admin list is edited and reloaded, and whatever the flags, a verb
\* runs only for a login that has been an admin since its request arrived.
THEOREM VerbsAreByAdmins == Spec => []VerbsByAdmins
<1>1. SInv => VerbsByAdmins
  BY DEF SInv, AdmittedRecorded, VerbsByAdmins
<1> QED
  BY <1>1, Invariant, PTL

\* For any names and any form, no verb a handler starts is refused for its arguments, and
\* none that destroys a database was confirmed by another name than the database's.
THEOREM ArgumentsAreAccepted == Spec => []ArgumentsAccepted
<1>1. SInv => ArgumentsAccepted
  BY DEF SInv
<1> QED
  BY <1>1, Invariant, PTL

\* No reload, failed or overtaken by another edit, leaves a list the file never was,
\* as long as an edit replaces the file.
THEOREM ListsAreWhole == Spec => []ListIsWhole
<1>1. SInv => ListIsWhole
  BY DEF SInv
<1> QED
  BY <1>1, Invariant, PTL
=============================================================================
