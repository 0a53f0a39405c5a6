----------------------------- MODULE TenantLedger -----------------------------
(***************************************************************************)
(* What the callers of Provision, Rotate and Drop are promised, with one   *)
(* ledger in place of the stores: a verb touches its own tenant only; it   *)
(* may end at any time, and leave that tenant's entry in any state; but    *)
(* when it returns nil, and no other verb ran on the tenant since it       *)
(* started, the entry is what the verb is for, with the password it shows. *)
(***************************************************************************)
CONSTANTS
    Tenants,
    Clients,    \* who calls verbs
    Verbs,
    None

VARIABLES
    ledger,     \* the file, Secret, role, database and grants of a tenant
    verb, app, pw,  \* a client's verb, its tenant, the password it shows
    ok,         \* its verb returned nil
    alone       \* no other verb ran on the tenant since this one started

vars == <<ledger, verb, app, pw, ok, alone>>

Nothing == [file |-> None, secret |-> None, role |-> None, db |-> "absent", grants |-> {}]

\* Databases there were before the portal belong to postgres.
Init ==
    /\ ledger \in [Tenants -> {[Nothing EXCEPT !.db = o] : o \in {"absent", "postgres"}}]
    /\ verb = [c \in Clients |-> None]
    /\ app = [c \in Clients |-> None]
    /\ pw = [c \in Clients |-> None]
    /\ ok = [c \in Clients |-> FALSE]
    /\ alone = [c \in Clients |-> FALSE]

Call(c, v, t) ==
    /\ app[c] = None
    /\ verb' = [verb EXCEPT ![c] = v]
    /\ app' = [app EXCEPT ![c] = t]
    /\ alone' = [d \in Clients |-> IF d = c THEN \A e \in Clients : app[e] # t
                                            ELSE alone[d] /\ app[d] # t]
    /\ UNCHANGED <<ledger, pw, ok>>

\* What a verb v on t that shows the password w makes of the entry.
Promised(v, t, w, entry) ==
    /\ v \in {"provision", "rotate"} =>
           /\ entry.file = [user |-> t, pw |-> w]
           /\ entry.secret = [user |-> t, pw |-> w]
           /\ entry.role = w
           /\ w.for = t
    /\ v = "provision" => entry.db = "tenant" /\ entry.grants = {"connect", "public"}
    /\ v = "drop" => entry = Nothing

\* Anything may become of the verb's own tenant until it returns.
Work(c) ==
    /\ app[c] # None
    /\ ~ok[c]
    /\ ledger' = [ledger EXCEPT ![app[c]] = ledger'[app[c]]]
    /\ pw' = [pw EXCEPT ![c] = pw'[c]]
    /\ ok' = [ok EXCEPT ![c] = ok'[c]]
    /\ ok'[c] /\ alone[c] => Promised(verb[c], app[c], pw'[c], ledger'[app[c]])
    /\ UNCHANGED <<verb, app, alone>>

\* After an answer, an error, a cancelled context or the death of the process.
Leave(c) ==
    /\ app[c] # None
    /\ verb' = [verb EXCEPT ![c] = None]
    /\ app' = [app EXCEPT ![c] = None]
    /\ pw' = [pw EXCEPT ![c] = None]
    /\ ok' = [ok EXCEPT ![c] = FALSE]
    /\ alone' = [alone EXCEPT ![c] = FALSE]
    /\ UNCHANGED ledger

Next ==
    \E c \in Clients :
        \/ \E v \in Verbs, t \in Tenants : Call(c, v, t)
        \/ Work(c)
        \/ Leave(c)

Spec == Init /\ [][Next]_vars
=============================================================================
