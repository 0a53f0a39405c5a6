----------------------------- MODULE PortalServer -----------------------------
(***************************************************************************)
(* The web server (internal/web): start and shutdown (ServeClusters), the  *)
(* admin list and its reloads on SIGHUP (identity.go), and the way of a    *)
(* request through IdentityMiddleware, RequireAdmin and its handler to a   *)
(* verb.  What a verb does is in TenantVerbs, TenantData, RecoveryRestore. *)
(***************************************************************************)
EXTENDS Handlers, Naturals

CONSTANTS
    Logins,         \* logins of users
    Requests,       \* requests served at a time
    Configs,        \* the combinations of flags it may be started with
    MaxEdits,       \* bound: how often the admin list file changes
    None,           \* no login
    Missing,        \* what the admin list file is when it does not exist
    Unreadable      \* what it is when it cannot be read

Flags == [adminListPath : BOOLEAN, dev : Logins \cup {None},
          tailnet : Logins \cup {None}, bearer : Logins \cup {None}]

ASSUME ConfigsAssumption == Configs \subseteq Flags /\ MaxEdits \in Nat
ASSUME MarkersAssumption ==
    /\ None \notin Logins
    /\ \A list \in SUBSET Logins : list \notin {Missing, Unreadable}
    /\ Missing # Unreadable

Files == (SUBSET Logins) \cup {Missing, Unreadable}

VARIABLES
    config,     \* the flags
    \* the admin list
    file,       \* the file at AdminListPath
    logins,     \* AdminList.logins
    hup,        \* a signal is in the channel of WatchSIGHUP
    watcher,    \* where WatchSIGHUP is
    opened,     \* the file Reload is reading
    announced,  \* SIGHUP has been sent since the file last changed, and no
                \* Reload since has met an error
    versions,   \* every list the file has been
    edits,      \* how often it has changed
    \* the server
    ctxDone,    \* SIGINT or SIGTERM has come
    server,     \* where ServeClusters is
    listener,   \* where its goroutine is, and what it has put in errCh
    graceOver,  \* ShutdownGrace has passed since
    \* the requests
    at, login,
    gone,       \* the client has closed the connection
    accepted,   \* the verb accepts the arguments it is given
    inForce     \* who has been an admin since the request arrived

list == <<file, logins, hup, watcher, opened, announced, versions, edits>>
serving == <<ctxDone, server, listener, graceOver>>
request == <<at, login, gone, accepted, inForce>>
vars == <<config, file, logins, hup, watcher, opened, announced, versions, edits,
          ctxDone, server, listener, graceOver, at, login, gone, accepted, inForce>>

TypeOK ==
    /\ config \in Configs
    /\ file \in Files /\ opened \in Files
    /\ logins \subseteq Logins
    /\ hup \in BOOLEAN /\ announced \in BOOLEAN /\ ctxDone \in BOOLEAN
    /\ graceOver \in BOOLEAN
    /\ watcher \in {"off", "waiting", "opening", "scanning"}
    /\ versions \subseteq SUBSET Logins /\ edits \in 0 .. MaxEdits
    /\ server \in {"starting", "listening", "draining", "returned"}
    /\ listener \in {"off", "on", "closed", "failed"}
    /\ at \in [Requests -> {"none", "identified", "handler", "verb"}]
    /\ login \in [Requests -> Logins \cup {None}]
    /\ gone \in [Requests -> BOOLEAN]
    /\ accepted \in [Requests -> BOOLEAN]
    /\ inForce \in [Requests -> SUBSET Logins]
    /\ \A r \in Requests : at[r] # "none" => login[r] # None

\* An empty file is an empty list, and so is a missing one.
ListOf(f) == IF f = Missing THEN {} ELSE f

Init ==
    /\ config \in Configs
    /\ file \in Files
    /\ logins = {}
    /\ hup = FALSE
    /\ watcher = "off"
    /\ opened = Missing
    /\ announced = FALSE
    /\ versions = {}
    /\ edits = 0
    /\ ctxDone = FALSE
    /\ server = "starting"
    /\ listener = "off"
    /\ graceOver = FALSE
    /\ at = [r \in Requests |-> "none"]
    /\ login = [r \in Requests |-> None]
    /\ gone = [r \in Requests |-> FALSE]
    /\ accepted = [r \in Requests |-> TRUE]
    /\ inForce = [r \in Requests |-> {}]

-----------------------------------------------------------------------------
(* The admin list *)

Admins(l) == l \cup ({config.bearer} \ {None})
Has(l) == l \in Admins(logins)

\* Everything that replaces the list goes through here.
SetLogins(l) ==
    /\ logins' = l
    /\ inForce' = [r \in Requests |->
                     IF at[r] = "none" THEN {} ELSE inForce[r] \cup Admins(l)]

\* Somebody edits the file, or the ConfigMap behind it is replaced.
EditFile ==
    /\ config.adminListPath
    /\ server # "starting"
    /\ edits < MaxEdits
    /\ edits' = edits + 1
    /\ \E f \in Files \ {file} :
          /\ file' = f
          /\ versions' = IF f = Unreadable THEN versions ELSE versions \cup {ListOf(f)}
    /\ announced' = FALSE
    /\ UNCHANGED <<config, logins, hup, watcher, opened, serving, request>>

\* Mutant of Buffered: the channel has no room for a signal.
BufferedNone == watcher = "waiting"

\* signal.Notify does not wait: with room for one, a signal is dropped only
\* while another one is there.
Buffered == TRUE

Hup ==
    /\ watcher # "off"
    /\ hup' = (hup \/ Buffered)
    /\ announced' = TRUE
    /\ UNCHANGED <<config, file, logins, watcher, opened, versions, edits, serving, request>>

WatchSIGHUP ==
    /\ watcher = "waiting"
    /\ hup
    /\ hup' = FALSE
    /\ watcher' = "opening"
    /\ UNCHANGED <<config, file, logins, opened, announced, versions, edits, serving, request>>

\* Its context is done; a pending signal may be taken first.
WatcherEnds ==
    /\ watcher = "waiting"
    /\ ctxDone
    /\ watcher' = "off"
    /\ UNCHANGED <<config, file, logins, hup, opened, announced, versions, edits, serving, request>>

\* Mutant of Open: the old list is cleared before the new one is read.
OpenClearing ==
    /\ watcher = "opening"
    /\ opened' = IF file = Unreadable THEN Missing ELSE file
    /\ watcher' = IF file \in {Missing, Unreadable} THEN "waiting" ELSE "scanning"
    /\ announced' = (announced /\ file # Unreadable)
    /\ SetLogins({})
    /\ UNCHANGED <<config, file, hup, versions, edits, serving, at, login, gone, accepted>>

\* Reload: a missing file means no admins, any other error keeps the old ones.
Open ==
    /\ watcher = "opening"
    /\ opened' = IF file = Unreadable THEN Missing ELSE file
    /\ watcher' = IF file \in {Missing, Unreadable} THEN "waiting" ELSE "scanning"
    /\ announced' = (announced /\ file # Unreadable)
    /\ IF file = Missing THEN SetLogins({}) ELSE UNCHANGED <<logins, inForce>>
    /\ UNCHANGED <<config, file, hup, versions, edits, serving, at, login, gone, accepted>>

\* The scanner is through, or has met an error.  Between open and the last line it has
\* one version of the file before it: the file is replaced as a whole, as one that is
\* "mounted into the container" (README) is.  Of an edit in place it may read half.
Scan ==
    /\ watcher = "scanning"
    /\ watcher' = "waiting"
    /\ opened' = Missing
    /\ \/ SetLogins(opened) /\ UNCHANGED announced
       \/ announced' = FALSE /\ UNCHANGED <<logins, inForce>>
    /\ UNCHANGED <<config, file, hup, versions, edits, serving, at, login, gone, accepted>>

-----------------------------------------------------------------------------
(* Start and shutdown *)

\* GrantDevFallback, for --dev-login and for --tailnet-fallback-login.
Granted == IF config.adminListPath THEN {} ELSE {config.dev, config.tailnet} \ {None}

\* NewAdminList and what follows up to ListenAndServe.
Start ==
    /\ server = "starting"
    /\ IF config.adminListPath /\ file = Unreadable
         THEN /\ server' = "returned"
              /\ UNCHANGED <<logins, versions, watcher, listener>>
         ELSE /\ server' = "listening"
              /\ listener' = "on"
              /\ logins' = IF config.adminListPath THEN ListOf(file) ELSE Granted
              /\ versions' = {logins'}
              /\ watcher' = IF config.adminListPath THEN "waiting" ELSE "off"
    /\ UNCHANGED <<config, file, hup, opened, announced, edits, ctxDone, graceOver, request>>

ListenFails ==
    /\ listener = "on"
    /\ server = "listening"
    /\ listener' = "failed"
    /\ UNCHANGED <<config, list, ctxDone, server, graceOver, request>>

Signal ==
    /\ ~ctxDone
    /\ server # "returned"
    /\ ctxDone' = TRUE
    /\ UNCHANGED <<config, list, server, listener, graceOver, request>>

\* The select of ServeClusters takes ctx.Done and calls Shutdown, which closes
\* the listener first.
Drain ==
    /\ server = "listening"
    /\ ctxDone
    /\ server' = "draining"
    /\ listener' = IF listener = "on" THEN "closed" ELSE listener
    /\ UNCHANGED <<config, list, ctxDone, graceOver, request>>

GracePasses ==
    /\ server = "draining"
    /\ ~graceOver
    /\ graceOver' = TRUE
    /\ UNCHANGED <<config, list, ctxDone, server, listener, request>>

Active == {r \in Requests : at[r] # "none"}

\* The process ends: its requests and its goroutines with it.
Exit ==
    /\ server' = "returned"
    /\ watcher' = "off"
    /\ UNCHANGED <<config, file, logins, hup, opened, announced, versions, edits,
                   ctxDone, listener, graceOver, request>>

\* Mutant of Return: Shutdown is given a context without a deadline.
ReturnUnbounded ==
    /\ \/ server = "listening" /\ listener = "failed"
       \/ server = "draining" /\ Active = {}
    /\ Exit

\* Shutdown returns when no connection is active or the grace period is over.
Return ==
    /\ \/ server = "listening" /\ listener = "failed"
       \/ server = "draining" /\ (Active = {} \/ graceOver)
    /\ Exit

-----------------------------------------------------------------------------
(* A request *)

Credentials == [token : {"none", "good", "bad"}, header : Logins \cup {None},
                tailnet : BOOLEAN]

\* IdentityMiddleware: None is a refusal.
Identity(c) ==
    CASE config.bearer # None /\ c.token = "good" -> config.bearer
      [] config.bearer # None /\ c.token = "bad" -> None
      [] OTHER ->
           IF config.dev # None THEN config.dev
           ELSE IF c.header = None /\ config.tailnet # None /\ c.tailnet
                  THEN config.tailnet ELSE c.header

\* Mutant of Arrive: a request without a login is passed on.
ArriveAnonymous(r) ==
    /\ listener = "on"
    /\ server # "returned"
    /\ at[r] = "none"
    /\ \E l \in {Identity(c) : c \in Credentials} :
          login' = [login EXCEPT ![r] = l]
    /\ at' = [at EXCEPT ![r] = "identified"]
    /\ inForce' = [inForce EXCEPT ![r] = Admins(logins)]
    /\ UNCHANGED <<config, list, serving, gone, accepted>>

\* RequestIDMiddleware to IdentityMiddleware; a request that one of them refuses
\* leaves no trace.
Arrive(r) ==
    /\ listener = "on"
    /\ server # "returned"
    /\ at[r] = "none"
    /\ \E l \in {Identity(c) : c \in Credentials} \ {None} :
          login' = [login EXCEPT ![r] = l]
    /\ at' = [at EXCEPT ![r] = "identified"]
    /\ inForce' = [inForce EXCEPT ![r] = Admins(logins)]
    /\ UNCHANGED <<config, list, serving, gone, accepted>>

Answer(r) ==
    /\ at' = [at EXCEPT ![r] = "none"]
    /\ login' = [login EXCEPT ![r] = None]
    /\ gone' = [gone EXCEPT ![r] = FALSE]
    /\ accepted' = [accepted EXCEPT ![r] = TRUE]
    /\ inForce' = [inForce EXCEPT ![r] = {}]
    /\ UNCHANGED <<config, list, serving>>

Running == server # "returned"

\* Mutant of RequireAdmin: whoever was identified passes.
RequireIdentity(r) ==
    /\ Running
    /\ at[r] = "identified"
    /\ at' = [at EXCEPT ![r] = "handler"]
    /\ UNCHANGED <<config, list, serving, login, gone, accepted, inForce>>

RequireAdmin(r) ==
    /\ Running
    /\ at[r] = "identified"
    /\ Has(login[r])
    /\ at' = [at EXCEPT ![r] = "handler"]
    /\ UNCHANGED <<config, list, serving, login, gone, accepted, inForce>>

\* A view, which needs no admin; or RequireAdmin's 403.
View(r) == Running /\ at[r] = "identified" /\ Answer(r)

\* The handler's checks are made and it calls the verb.
Dispatch(r) ==
    /\ Running
    /\ at[r] = "handler"
    /\ \E d \in Dispatched :
          /\ d.route \in AdminRoutes
          /\ accepted' = [accepted EXCEPT ![r] = d.accepted]
    /\ at' = [at EXCEPT ![r] = "verb"]
    /\ UNCHANGED <<config, list, serving, login, gone, inForce>>

\* A form, an error page, or a handler that panics.
Refuse(r) == Running /\ at[r] = "handler" /\ Answer(r)

\* The verb returns, with or without an error, or panics.
Respond(r) == Running /\ at[r] = "verb" /\ ~gone[r] /\ ~ctxDone /\ Answer(r)

ClientGone(r) ==
    /\ Running
    /\ at[r] # "none"
    /\ ~gone[r]
    /\ gone' = [gone EXCEPT ![r] = TRUE]
    /\ UNCHANGED <<config, list, serving, at, login, accepted, inForce>>

\* BaseContext is the context of ServeClusters: when it is done, so is every
\* request's, and the verb's next call fails.
Cancelled(r) == gone[r] \/ ctxDone

Abort(r) == Running /\ at[r] = "verb" /\ Cancelled(r) /\ Answer(r)

-----------------------------------------------------------------------------
Watcher == WatchSIGHUP \/ WatcherEnds \/ Open \/ Scan
Serve == Start \/ Drain \/ Return
Handle(r) == Arrive(r) \/ RequireAdmin(r) \/ View(r) \/ Dispatch(r) \/ Refuse(r)
                \/ Respond(r) \/ ClientGone(r) \/ Abort(r)

Next ==
    \/ Watcher \/ Serve
    \/ EditFile \/ Hup
    \/ ListenFails \/ Signal \/ GracePasses
    \/ \E r \in Requests : Handle(r)

\* Goroutines are scheduled and time passes.  Nothing obliges a verb to end.
Spec ==
    /\ Init
    /\ [][Next]_vars
    /\ WF_vars(Watcher)
    /\ WF_vars(Serve)
    /\ WF_vars(GracePasses)

-----------------------------------------------------------------------------
(* Properties *)

\* A verb runs only for a login that was an admin at some time during its
\* request, however the list is reloaded meanwhile.
VerbsByAdmins == \A r \in Requests : at[r] = "verb" => login[r] \in inForce[r]

\* A verb that a handler starts is not refused for its arguments: handlers and
\* verbs check the same, and what destroys a database was confirmed by its name.
ArgumentsAccepted == \A r \in Requests : at[r] = "verb" => accepted[r]

\* "Read-locked so SIGHUP reload doesn't tear a snapshot" (identity.go): the
\* list in force is at all times one the file has been, as a whole (a file edited in
\* place is excepted: see Scan).
ListIsWhole == config.adminListPath /\ watcher # "off" => logins \in versions

\* SIGHUP after an edit is never lost, also not to a Reload that is reading the
\* file as it was before.
HupObeyed ==
    announced ~> (logins = ListOf(file) \/ ~announced \/ ctxDone \/ server = "returned")

\* The server stops after SIGTERM, whatever its requests do.
ServeReturns == ctxDone ~> server = "returned"

\* "Drains in-flight requests up to cfg.ShutdownGrace before returning" (Serve):
\* until then no verb is aborted whose client is still there.
DrainsInFlight ==
    \A r \in Requests : Running /\ at[r] = "verb" /\ ~gone[r] /\ ~graceOver => ~Cancelled(r)
=============================================================================
