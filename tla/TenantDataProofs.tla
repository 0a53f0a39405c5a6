--------------------------- MODULE TenantDataProofs ---------------------------
(***************************************************************************)
(* Proofs about TenantData, for any number of tenants and processes, any   *)
(* databases at first and databases of any size.                           *)
(***************************************************************************)
EXTENDS TenantData, TLAPS

-----------------------------------------------------------------------------
(* Types *)

\* An idle process remembers no verb.
IdleForgets ==
    \A p \in Procs : pc[p] = "idle" => dst[p] = None /\ verb[p] = None /\ ~alone[p]

\* Where a verb may be.
OwnStep(v, l) ==
    /\ l \in {"checkSource", "checkTarget", "dropForce"} => v = "sync"
    /\ l \in {"ensureRole", "grantFirst"} => v \in Provisioning
    /\ l \in {"terminate", "drop"} => v \in {"restore", "drop"}
    /\ l = "dropRole" => v = "drop"
    /\ l \in {"query", "alter"} => v \in Provisioning \cup {"restore"}
    /\ l \in {"create", "dump", "connect", "loading", "killed", "grant"} => v # "drop"

OwnSteps == \A p \in Procs : OwnStep(verb[p], pc[p])

Typed == TypeOK /\ IdleForgets /\ OwnSteps

LEMMA SomeDatabase == None \notin Database
BY NoneAssumption

\* An owner, or grants, make a database of a database.
LEMMA ChangedDatabase ==
    ASSUME NEW copy \in Database
    PROVE  /\ [copy EXCEPT !.owned = TRUE] \in Database
           /\ [copy EXCEPT !.granted = TRUE] \in Database
BY DEF Database

\* After the end of a session, or of a verb's own step, everybody is somewhere.
LEMMA KilledSomewhere ==
    ASSUME NEW p \in Procs, NEW t, NEW l, Kill(p, t, l)
    PROVE  /\ pc'[p] = l
           /\ pc' = [q \in Procs |-> pc'[q]]
           /\ \A q \in Procs \ {p} :
                 /\ pc'[q] \in {pc[q], "killed"}
                 /\ pc'[q] = "killed" => pc[q] \in {"connect", "loading", "killed"}
                 /\ OnTarget(q, t) => pc'[q] = "killed"
<1>1. PICK ended \in SUBSET {q \in Procs : OnSource(q, t)} :
        pc' = [q \in Procs |-> CASE q = p -> l
                                 [] q # p /\ (OnTarget(q, t) \/ q \in ended) -> "killed"
                                 [] OTHER -> pc[q]]
  BY DEF Kill
<1>2. pc'[p] = l /\ pc' = [q \in Procs |-> pc'[q]]
  BY <1>1
<1>3. ASSUME NEW q \in Procs \ {p}
      PROVE  /\ pc'[q] \in {pc[q], "killed"}
             /\ pc'[q] = "killed" => pc[q] \in {"connect", "loading", "killed"}
             /\ OnTarget(q, t) => pc'[q] = "killed"
  <2>1. q \in ended => pc[q] \in {"connect", "loading"}
    BY DEF OnSource
  <2>2. OnTarget(q, t) => pc[q] = "loading"
    BY DEF OnTarget
  <2>3. CASE OnTarget(q, t) \/ q \in ended
    <3>1. pc'[q] = "killed"
      BY <1>1, <2>3
    <3> QED
      BY <3>1, <2>1, <2>2, <2>3
  <2>4. CASE ~(OnTarget(q, t) \/ q \in ended)
    <3>1. pc'[q] = pc[q]
      BY <1>1, <2>4
    <3> QED
      BY <3>1, <2>4
  <2> QED
    BY <2>3, <2>4
<1> QED
  BY <1>2, <1>3

\* A step of p changes the database it is for and what p knows; the others stay where
\* they are, or lose their session.
LEMMA StepFrame ==
    ASSUME TypeOK, NEW p \in Procs, Step(p)
    PROVE  /\ UNCHANGED <<verb, src, dst, alone>>
           /\ \A q \in Procs \ {p} :
                 /\ pc'[q] \in {pc[q], "killed"}
                 /\ pc'[q] = "killed" => pc[q] \in {"connect", "loading", "killed"}
                 /\ snap'[q] = snap[q] /\ left'[q] = left[q] /\ clean'[q] = clean[q]
           /\ \A t \in Tenants \ {dst[p]} : db'[t] = db[t]
<1> USE DEF TypeOK, job, load, shared, Goto
<1>1. CASE CheckSource(p)
  BY <1>1 DEF CheckSource
<1>2. CASE CheckTarget(p)
  BY <1>2 DEF CheckTarget
<1>3. CASE DropForce(p)
  BY <1>3, KilledSomewhere DEF DropForce
<1>4. CASE Terminate(p)
  BY <1>4, KilledSomewhere DEF Terminate
<1>5. CASE Drop(p)
  BY <1>5 DEF Drop
<1>6. CASE DropRole(p)
  BY <1>6 DEF DropRole
<1>7. CASE EnsureRole(p)
  BY <1>7 DEF EnsureRole
<1>8. CASE Query(p)
  BY <1>8 DEF Query
<1>9. CASE Create(p)
  BY <1>9 DEF Create
<1>10. CASE Alter(p)
  BY <1>10 DEF Alter
<1>11. CASE Grant(p)
  BY <1>11 DEF Grant
<1>12. CASE Dump(p)
  BY <1>12 DEF Dump
<1>13. CASE Connect(p)
  BY <1>13 DEF Connect
<1>14. CASE Loaded(p)
  BY <1>14 DEF Loaded
<1>15. ASSUME NEW o \in Objects, LoadObject(p, o)
       PROVE  /\ UNCHANGED <<verb, src, dst, alone>>
              /\ \A q \in Procs \ {p} :
                    /\ pc'[q] \in {pc[q], "killed"}
                    /\ pc'[q] = "killed" => pc[q] \in {"connect", "loading", "killed"}
                    /\ snap'[q] = snap[q] /\ left'[q] = left[q] /\ clean'[q] = clean[q]
              /\ \A t \in Tenants \ {dst[p]} : db'[t] = db[t]
  BY <1>15 DEF LoadObject, Load
<1> QED
  BY <1>1, <1>2, <1>3, <1>4, <1>5, <1>6, <1>7, <1>8, <1>9, <1>10, <1>11, <1>12, <1>13,
     <1>14, <1>15 DEF Step

\* What a step of p has to keep itself, beside what StepFrame says.
LEMMA TypedKept ==
    ASSUME Typed, NEW p \in Procs, Step(p), pc[p] # "idle",
           db' \in [Tenants -> Database \cup {None}], roles' \subseteq Tenants,
           pc' \in [Procs -> Steps \cup {"idle", "refused", "done"}],
           snap' \in [Procs -> SUBSET Objects], left' \in [Procs -> SUBSET Objects],
           clean' \in [Procs -> BOOLEAN],
           pc'[p] # "idle", OwnStep(verb[p], pc'[p]),
           left'[p] \subseteq snap'[p],
           pc'[p] = "loading" => db'[dst[p]] # None,
           \A q \in Procs \ {p} : OnTarget(q, dst[p]) /\ pc'[q] = "loading" => db'[dst[p]] # None
    PROVE  Typed'
<1> USE DEF Typed
<1>1. /\ UNCHANGED <<verb, src, dst, alone>>
      /\ \A q \in Procs \ {p} :
            /\ pc'[q] \in {pc[q], "killed"}
            /\ pc'[q] = "killed" => pc[q] \in {"connect", "loading", "killed"}
            /\ snap'[q] = snap[q] /\ left'[q] = left[q] /\ clean'[q] = clean[q]
      /\ \A t \in Tenants \ {dst[p]} : db'[t] = db[t]
  BY StepFrame
<1>2. ASSUME NEW q \in Procs \ {p}
      PROVE  /\ pc'[q] # "idle" => dst[q] \in Tenants /\ src[q] \in Tenants /\ verb[q] \in Verbs
             /\ left'[q] \subseteq snap'[q]
             /\ pc'[q] = "loading" => db'[dst[q]] # None
             /\ pc'[q] = "idle" => dst[q] = None /\ verb[q] = None /\ ~alone[q]
             /\ OwnStep(verb[q], pc'[q])
  <2>1. pc'[q] # "idle" => dst[q] \in Tenants /\ src[q] \in Tenants /\ verb[q] \in Verbs
    BY <1>1, <1>2 DEF TypeOK
  <2>2. pc'[q] = "loading" => db'[dst[q]] # None
    <3>1. CASE dst[q] = dst[p]
      BY <1>1, <1>2, <3>1 DEF OnTarget
    <3>2. CASE dst[q] # dst[p]
      BY <1>1, <1>2, <2>1, <3>2 DEF TypeOK
    <3> QED
      BY <3>1, <3>2
  <2>3. OwnStep(verb[q], pc'[q])
    BY <1>1, <1>2 DEF OwnSteps, OwnStep
  <2> QED
    BY <1>1, <1>2, <2>1, <2>2, <2>3 DEF TypeOK, IdleForgets
<1>3. dst[p] \in Tenants /\ src[p] \in Tenants /\ verb[p] \in Verbs
  BY DEF TypeOK
<1>4. TypeOK'
  BY <1>1, <1>2, <1>3 DEF TypeOK
<1>5. IdleForgets'
  BY <1>1, <1>2 DEF IdleForgets
<1>6. OwnSteps'
  BY <1>1, <1>2 DEF OwnSteps
<1> QED
  BY <1>4, <1>5, <1>6

LEMMA StepTyped == ASSUME Typed, NEW p \in Procs, Step(p) PROVE Typed'
<1> USE DEF Typed, job, load, shared, Goto, Steps
<1>a. Typed
  OBVIOUS
<1>b. pc[p] # "idle" => dst[p] \in Tenants /\ src[p] \in Tenants /\ verb[p] \in Verbs
  BY DEF TypeOK
<1>c. OwnStep(verb[p], pc[p])
  BY DEF OwnSteps
<1>1. CASE CheckSource(p)
  BY <1>a, <1>b, <1>c, <1>1, TypedKept DEF CheckSource, TypeOK, OwnStep, OnTarget
<1>2. CASE CheckTarget(p)
  BY <1>a, <1>b, <1>c, <1>2, TypedKept DEF CheckTarget, TypeOK, OwnStep, OnTarget
<1>3. CASE DropForce(p)
  <2>1. pc'[p] = "create" /\ pc' \in [Procs -> Steps \cup {"idle", "refused", "done"}]
    BY <1>3, KilledSomewhere DEF DropForce, TypeOK
  <2>2. \A q \in Procs \ {p} : OnTarget(q, dst[p]) => pc'[q] = "killed"
    BY <1>3, KilledSomewhere DEF DropForce
  <2> QED
    BY <1>a, <1>b, <1>c, <1>3, <2>1, <2>2, TypedKept DEF DropForce, TypeOK, OwnStep
<1>4. CASE Terminate(p)
  <2>1. pc'[p] = "drop" /\ pc' \in [Procs -> Steps \cup {"idle", "refused", "done"}]
    <3>1. CASE Kill(p, dst[p], "drop")
      BY <3>1, KilledSomewhere DEF TypeOK
    <3>2. CASE pc' = [pc EXCEPT ![p] = "drop"]
      BY <3>2 DEF TypeOK
    <3> QED
      BY <1>4, <3>1, <3>2 DEF Terminate
  <2>2. \A q \in Procs \ {p} : OnTarget(q, dst[p]) => db[dst[p]] # None
    BY DEF OnTarget, TypeOK
  <2> QED
    BY <1>a, <1>b, <1>c, <1>4, <2>1, <2>2, TypedKept DEF Terminate, TypeOK, OwnStep
<1>5. CASE Drop(p)
  BY <1>a, <1>b, <1>c, <1>5, TypedKept DEF Drop, TypeOK, OwnStep, Verbs, Provisioning
<1>6. CASE DropRole(p)
  BY <1>a, <1>b, <1>c, <1>6, TypedKept DEF DropRole, TypeOK, OwnStep, OnTarget
<1>7. CASE EnsureRole(p)
  BY <1>a, <1>b, <1>c, <1>7, TypedKept DEF EnsureRole, TypeOK, OwnStep, OnTarget
<1>8. CASE Query(p)
  BY <1>a, <1>b, <1>c, <1>8, TypedKept DEF Query, TypeOK, OwnStep, OnTarget, Provisioning
<1>9. CASE Create(p)
  <2> DEFINE new == [owned |-> TRUE, granted |-> FALSE, objects |-> {}, usable |-> {}]
  <2>1. new \in Database
    BY DEF Database
  <2> HIDE DEF new
  <2>2. db' = [db EXCEPT ![dst[p]] = new]
    BY <1>9 DEF Create, new
  <2>3. AfterEnsured(p) \in {"grantFirst", "dump"} /\ OwnStep(verb[p], AfterEnsured(p))
    BY <1>b, <1>c, <1>9 DEF AfterEnsured, Create, OwnStep
  <2>4. db' \in [Tenants -> Database \cup {None}] /\ db'[dst[p]] # None
    <3>1. dst[p] \in Tenants
      BY <1>b, <1>9 DEF Create
    <3>2. db \in [Tenants -> Database \cup {None}]
      BY DEF TypeOK
    <3> QED
      BY <2>1, <2>2, <3>1, <3>2, SomeDatabase
  <2>5. /\ pc'[p] = AfterEnsured(p)
        /\ pc' \in [Procs -> Steps \cup {"idle", "refused", "done"}]
    BY <1>9, <2>3 DEF Create, TypeOK
  <2> QED
    BY <1>a, <1>b, <1>9, <2>3, <2>4, <2>5, TypedKept DEF Create, TypeOK
<1>10. CASE Alter(p)
  <2> DEFINE new == [db[dst[p]] EXCEPT !.owned = TRUE]
  <2>1. new \in Database
    <3>1. db[dst[p]] \in Database
      BY <1>b, <1>10 DEF Alter, TypeOK
    <3> QED
      BY <3>1, ChangedDatabase
  <2> HIDE DEF new
  <2>2. db' = [db EXCEPT ![dst[p]] = new]
    BY <1>10 DEF Alter, new
  <2>3. AfterEnsured(p) \in {"grantFirst", "dump"} /\ OwnStep(verb[p], AfterEnsured(p))
    BY <1>b, <1>c, <1>10 DEF AfterEnsured, Alter, OwnStep, Provisioning
  <2>4. db' \in [Tenants -> Database \cup {None}] /\ db'[dst[p]] # None
    <3>1. dst[p] \in Tenants
      BY <1>b, <1>10 DEF Alter
    <3>2. db \in [Tenants -> Database \cup {None}]
      BY DEF TypeOK
    <3> QED
      BY <2>1, <2>2, <3>1, <3>2, SomeDatabase
  <2>5. /\ pc'[p] = AfterEnsured(p)
        /\ pc' \in [Procs -> Steps \cup {"idle", "refused", "done"}]
    BY <1>10, <2>3 DEF Alter, TypeOK
  <2> QED
    BY <1>a, <1>b, <1>10, <2>3, <2>4, <2>5, TypedKept DEF Alter, TypeOK
<1>11. CASE Grant(p)
  <2> DEFINE new == [db[dst[p]] EXCEPT !.granted = TRUE]
  <2>1. new \in Database
    <3>1. db[dst[p]] \in Database
      BY <1>b, <1>11 DEF Grant, TypeOK
    <3> QED
      BY <3>1, ChangedDatabase
  <2> HIDE DEF new
  <2>2. db' = [db EXCEPT ![dst[p]] = new]
    BY <1>11 DEF Grant, new
  <2>3. db' \in [Tenants -> Database \cup {None}] /\ db'[dst[p]] # None
    <3>1. dst[p] \in Tenants
      BY <1>b, <1>11 DEF Grant
    <3>2. db \in [Tenants -> Database \cup {None}]
      BY DEF TypeOK
    <3> QED
      BY <2>1, <2>2, <3>1, <3>2, SomeDatabase
  <2>4. pc'[p] \in {"dump", "done"} /\ OwnStep(verb[p], pc'[p])
    BY <1>c, <1>11 DEF Grant, TypeOK, OwnStep, Provisioning
  <2> QED
    BY <1>a, <1>b, <1>11, <2>3, <2>4, TypedKept DEF Grant, TypeOK
<1>12. CASE Dump(p)
  <2>1. Source(p) \in SUBSET Objects
    <3>1. \A t \in Tenants \cup {Upload} : Original(t) \in SUBSET Objects
      BY DEF Original, Objects
    <3>2. \A t \in Tenants : db[t] # None => db[t].objects \in SUBSET Objects
      BY DEF TypeOK, Database
    <3> QED
      BY <1>b, <1>c, <1>12, <3>1, <3>2 DEF Dump, Source, OwnStep, Verbs
  <2> QED
    BY <1>a, <1>b, <1>c, <1>12, <2>1, TypedKept DEF Dump, TypeOK, OnTarget, OwnStep
<1>13. CASE Connect(p)
  BY <1>a, <1>b, <1>c, <1>13, TypedKept DEF Connect, TypeOK, OnTarget, OwnStep
<1>14. CASE Loaded(p)
  BY <1>a, <1>b, <1>c, <1>14, TypedKept DEF Loaded, TypeOK, OnTarget, OwnStep
<1>15. ASSUME NEW o \in Objects, LoadObject(p, o) PROVE Typed'
  <2>1. db' \in [Tenants -> Database \cup {None}] /\ db'[dst[p]] # None
    <3>1. db[dst[p]] \in Database
      BY <1>15 DEF LoadObject, TypeOK
    <3>2. \A new \in Database : [db EXCEPT ![dst[p]] = new] \in [Tenants -> Database \cup {None}]
      BY DEF TypeOK
    <3>3. CASE o \in db[dst[p]].objects
      BY <1>15, <3>1, <3>3, NoneAssumption DEF LoadObject, TypeOK
    <3>4. CASE o \notin db[dst[p]].objects
      <4> DEFINE new == [db[dst[p]] EXCEPT !.objects = @ \cup {o},
                                !.usable = IF verb[p] # "importSQL" \/ db[dst[p]].granted
                                             THEN @ \cup {o} ELSE @]
      <4>1. new \in Database /\ new # None
        <5>1. new \in Database
          BY <3>1 DEF Database
        <5> QED
          BY <5>1, SomeDatabase
      <4>2. db' = [db EXCEPT ![dst[p]] = new]
        BY <1>15, <3>4 DEF LoadObject, Load
      <4> QED
        BY <1>b, <1>15, <3>2, <4>1, <4>2 DEF LoadObject, TypeOK
    <3> QED
      BY <3>3, <3>4
  <2>2. left' \in [Procs -> SUBSET Objects] /\ left'[p] \subseteq snap'[p]
    BY <1>15 DEF LoadObject, TypeOK
  <2>3. clean' \in [Procs -> BOOLEAN]
    BY <1>15 DEF LoadObject, TypeOK
  <2> QED
    BY <1>a, <1>b, <1>c, <1>15, <2>1, <2>2, <2>3, TypedKept DEF LoadObject, TypeOK, OwnStep
<1> QED
  BY <1>1, <1>2, <1>3, <1>4, <1>5, <1>6, <1>7, <1>8, <1>9, <1>10, <1>11, <1>12, <1>13,
     <1>14, <1>15 DEF Step

\* A script that leaves its database may end any session on another one.
LEMMA StrayFrame ==
    ASSUME Typed, NEW p \in Procs, NEW t \in Tenants, Stray(p, t)
    PROVE  /\ UNCHANGED <<roles, verb, src, dst, snap, clean>>
           /\ pc[p] = "loading" /\ verb[p] = "importSQL" /\ dst[p] # t /\ ~alone'[p]
           /\ pc' \in [Procs -> Steps \cup {"idle", "refused", "done"}]
           /\ left' \in [Procs -> SUBSET Objects]
           /\ alone' \in [Procs -> BOOLEAN]
           /\ db' \in [Tenants -> Database \cup {None}]
           /\ pc'[p] = "loading" /\ left'[p] \subseteq left[p]
           /\ \A q \in Procs \ {p} :
                 /\ pc'[q] \in {pc[q], "killed"}
                 /\ pc'[q] = "killed" => pc[q] \in {"connect", "loading", "killed"}
                 /\ left'[q] = left[q]
                 /\ alone'[q] => alone[q] /\ dst[q] # t
                 /\ OnTarget(q, t) => pc'[q] = "killed" \/ db'[t] # None
           /\ \A s \in Tenants \ {t} : db'[s] = db[s]
<1> USE DEF Typed, TypeOK, Steps
<1> DEFINE Connects(o) ==
             /\ db' = [db EXCEPT ![t] =
                     IF db[t] = None
                       THEN [owned |-> FALSE, granted |-> FALSE, objects |-> {o}, usable |-> {}]
                       ELSE [db[t] EXCEPT
                               !.objects = @ \cup {o},
                               !.usable = IF db[t].granted THEN @ \cup {o} ELSE @]]
             /\ left' = [left EXCEPT ![p] = @ \ {o}]
             /\ UNCHANGED pc
<1>1. /\ UNCHANGED <<roles, verb, src, dst, snap, clean>>
      /\ pc[p] = "loading" /\ verb[p] = "importSQL" /\ dst[p] # t
      /\ alone' = [q \in Procs |-> alone[q] /\ q # p /\ dst[q] # t]
  BY DEF Stray, RunsScript
<1>2. alone' \in [Procs -> BOOLEAN] /\ ~alone'[p]
  BY <1>1
<1>3. ASSUME NEW new \in Database \cup {None}, db' = [db EXCEPT ![t] = new]
      PROVE  /\ db' \in [Tenants -> Database \cup {None}] /\ db'[t] = new
             /\ \A s \in Tenants \ {t} : db'[s] = db[s]
  BY <1>3
<1>4. ASSUME NEW o \in left[p], Connects(o)
      PROVE  /\ left' \in [Procs -> SUBSET Objects] /\ left'[p] \subseteq left[p]
             /\ \A q \in Procs \ {p} : left'[q] = left[q]
             /\ db' \in [Tenants -> Database \cup {None}] /\ db'[t] # None
             /\ \A s \in Tenants \ {t} : db'[s] = db[s]
  <2>1. /\ left' \in [Procs -> SUBSET Objects] /\ left'[p] \subseteq left[p]
        /\ \A q \in Procs \ {p} : left'[q] = left[q]
    BY <1>4
  <2>2. o \in Objects
    BY <1>4
  <2> DEFINE added == IF db[t].granted THEN db[t].usable \cup {o} ELSE db[t].usable
             fresh == [owned |-> FALSE, granted |-> FALSE, objects |-> {o}, usable |-> {}]
             grown == [db[t] EXCEPT !.objects = @ \cup {o}, !.usable = added]
  <2>3. fresh \in Database
    BY <2>2 DEF Database
  <2>4. db[t] # None => grown \in Database
    <3> SUFFICES ASSUME db[t] \in Database PROVE grown \in Database
      OBVIOUS
    <3>1. added \in SUBSET Objects
      BY <2>2 DEF Database
    <3> HIDE DEF added
    <3> QED
      BY <2>2, <3>1 DEF Database
  <2>5. db' = [db EXCEPT ![t] = IF db[t] = None THEN fresh ELSE grown]
    BY <1>4
  <2> HIDE DEF fresh, grown
  <2> QED
    BY <1>3, <2>1, <2>3, <2>4, <2>5, SomeDatabase
<1>5. ASSUME db' = [db EXCEPT ![t] = None], Kill(p, t, "loading"), UNCHANGED left
      PROVE  /\ pc' \in [Procs -> Steps \cup {"idle", "refused", "done"}]
             /\ pc'[p] = "loading"
             /\ \A q \in Procs \ {p} :
                   /\ pc'[q] \in {pc[q], "killed"}
                   /\ pc'[q] = "killed" => pc[q] \in {"connect", "loading", "killed"}
                   /\ OnTarget(q, t) => pc'[q] = "killed"
             /\ db' \in [Tenants -> Database \cup {None}]
             /\ \A s \in Tenants \ {t} : db'[s] = db[s]
  <2>1. /\ pc'[p] = "loading" /\ pc' = [q \in Procs |-> pc'[q]]
        /\ \A q \in Procs \ {p} :
              /\ pc'[q] \in {pc[q], "killed"}
              /\ pc'[q] = "killed" => pc[q] \in {"connect", "loading", "killed"}
              /\ OnTarget(q, t) => pc'[q] = "killed"
    BY <1>5, KilledSomewhere
  <2>2. \A q \in Procs : pc'[q] \in Steps \cup {"idle", "refused", "done"}
    BY <2>1
  <2>3. pc' \in [Procs -> Steps \cup {"idle", "refused", "done"}]
    BY <2>1, <2>2
  <2> QED
    BY <1>3, <1>5, <2>1, <2>3
<1>6. CASE \E o \in left[p] : Connects(o)
  <2>1. PICK o \in left[p] : Connects(o)
    BY <1>6
  <2>2. /\ left' \in [Procs -> SUBSET Objects] /\ left'[p] \subseteq left[p]
        /\ \A q \in Procs \ {p} : left'[q] = left[q]
        /\ db' \in [Tenants -> Database \cup {None}] /\ db'[t] # None
        /\ \A s \in Tenants \ {t} : db'[s] = db[s]
    BY <1>4, <2>1
  <2>3. pc' = pc
    BY <2>1
  <2>4. pc' \in [Procs -> Steps \cup {"idle", "refused", "done"}]
    BY <2>3
  <2> HIDE DEF Typed, TypeOK, Steps
  <2> QED
    BY <1>1, <1>2, <2>2, <2>3, <2>4
<1>7. CASE db' = [db EXCEPT ![t] = None] /\ Kill(p, t, "loading") /\ UNCHANGED left
  <2>1. /\ pc' \in [Procs -> Steps \cup {"idle", "refused", "done"}]
        /\ pc'[p] = "loading"
        /\ \A q \in Procs \ {p} :
              /\ pc'[q] \in {pc[q], "killed"}
              /\ pc'[q] = "killed" => pc[q] \in {"connect", "loading", "killed"}
              /\ OnTarget(q, t) => pc'[q] = "killed"
        /\ db' \in [Tenants -> Database \cup {None}]
        /\ \A s \in Tenants \ {t} : db'[s] = db[s]
    BY <1>5, <1>7
  <2>2. left' = left /\ left \in [Procs -> SUBSET Objects]
    BY <1>7
  <2> HIDE DEF Typed, TypeOK, Steps
  <2> QED
    BY <1>1, <1>2, <2>1, <2>2
<1> HIDE DEF Typed, TypeOK, Steps
<1> QED
  BY <1>6, <1>7 DEF Stray

\* A script that leaves its database loads into none that is gone.
LEMMA StrayTyped ==
    ASSUME Typed, NEW p \in Procs, NEW t \in Tenants, Stray(p, t)
    PROVE  Typed'
<1>1. /\ UNCHANGED <<roles, verb, src, dst, snap, clean>>
      /\ pc[p] = "loading" /\ verb[p] = "importSQL" /\ dst[p] # t /\ ~alone'[p]
      /\ pc' \in [Procs -> Steps \cup {"idle", "refused", "done"}]
      /\ left' \in [Procs -> SUBSET Objects]
      /\ alone' \in [Procs -> BOOLEAN]
      /\ db' \in [Tenants -> Database \cup {None}]
      /\ pc'[p] = "loading" /\ left'[p] \subseteq left[p]
      /\ \A q \in Procs \ {p} :
            /\ pc'[q] \in {pc[q], "killed"}
            /\ pc'[q] = "killed" => pc[q] \in {"connect", "loading", "killed"}
            /\ left'[q] = left[q]
            /\ alone'[q] => alone[q] /\ dst[q] # t
            /\ OnTarget(q, t) => pc'[q] = "killed" \/ db'[t] # None
      /\ \A s \in Tenants \ {t} : db'[s] = db[s]
  BY StrayFrame
<1> USE DEF Typed
<1>2. ASSUME NEW q \in Procs
      PROVE  /\ pc'[q] # "idle" => dst[q] \in Tenants /\ src[q] \in Tenants /\ verb[q] \in Verbs
             /\ left'[q] \subseteq snap[q]
             /\ pc'[q] = "loading" => db'[dst[q]] # None
             /\ pc'[q] = "idle" => dst[q] = None /\ verb[q] = None /\ ~alone'[q]
             /\ OwnStep(verb[q], pc'[q])
  <2>1. pc[q] # "idle" => dst[q] \in Tenants /\ src[q] \in Tenants /\ verb[q] \in Verbs
    BY DEF TypeOK
  <2>2. pc'[q] # "idle" => pc[q] # "idle"
    BY <1>1
  <2>3. left'[q] \subseteq snap[q]
    BY <1>1 DEF TypeOK
  <2>4. pc'[q] = "loading" => pc[q] = "loading"
    BY <1>1
  <2>5. pc'[q] = "loading" => db'[dst[q]] # None
    <3>1. CASE dst[q] = t
      BY <1>1, <2>4, <3>1 DEF OnTarget
    <3>2. CASE dst[q] # t
      BY <1>1, <2>1, <2>4, <3>2 DEF TypeOK
    <3> QED
      BY <3>1, <3>2
  <2>6. pc'[q] = "idle" => dst[q] = None /\ verb[q] = None /\ ~alone'[q]
    BY <1>1 DEF IdleForgets
  <2>7. OwnStep(verb[q], pc'[q])
    BY <1>1 DEF OwnSteps, OwnStep
  <2> QED
    BY <2>1, <2>2, <2>3, <2>5, <2>6, <2>7
<1>3. TypeOK'
  BY <1>1, <1>2 DEF TypeOK
<1>4. IdleForgets' /\ OwnSteps'
  BY <1>1, <1>2 DEF IdleForgets, OwnSteps
<1> QED
  BY <1>3, <1>4

\* Beginning and leaving touch no store.
LEMMA EdgesTyped ==
    ASSUME Typed, NEW p \in Procs,
           \/ \E v \in Verbs, s, d \in Tenants : Start(p, v, s, d)
           \/ Finish(p) \/ Fail(p)
    PROVE  Typed'
<1> USE DEF Typed, shared, load, Goto, Steps
<1>1. ASSUME NEW v \in Verbs, NEW s \in Tenants, NEW d \in Tenants, Start(p, v, s, d)
      PROVE  Typed'
  <2>1. FirstStep(v) \in {"checkSource", "ensureRole", "terminate"} /\ OwnStep(v, FirstStep(v))
    BY DEF FirstStep, Verbs, Provisioning, OwnStep
  <2>2. alone' \in [Procs -> BOOLEAN] /\ \A q \in Procs \ {p} : alone'[q] => alone[q]
    BY <1>1 DEF Start, TypeOK
  <2>3. TypeOK'
    BY <1>1, <2>1, <2>2 DEF Start, TypeOK
  <2>4. IdleForgets' /\ OwnSteps'
    BY <1>1, <2>1, <2>2 DEF Start, TypeOK, IdleForgets, OwnSteps
  <2> QED
    BY <2>3, <2>4
<1>2. CASE Leave(p)
  BY <1>2 DEF Leave, TypeOK, IdleForgets, OwnSteps, OwnStep
<1> QED
  BY <1>1, <1>2 DEF Finish, Fail

-----------------------------------------------------------------------------
(* What a verb has achieved *)

\* A destination is nobody else's.
Private == \A p, q \in Procs : alone[p] /\ q # p => dst[q] # dst[p]

Replacing == {"sync", "restore"}

\* What a verb with copy as its destination has achieved at step l, when it has read
\* all and has rest of it still to load, and has met no error if fine is TRUE.
Achieved(v, l, copy, all, rest, fine) ==
    LET over == l = "done" /\ v # "drop" IN
    /\ v \in Replacing /\ l \in {"create", "query", "alter"} => copy = None
    /\ l \in {"grantFirst", "dump", "connect", "loading", "grant"} \/ over =>
           copy # None /\ copy.owned
    /\ (l \in {"dump", "connect", "loading", "grant"} /\ v \in Provisioning) \/ over =>
           copy.granted
    /\ l \in {"dump", "connect"} /\ v \in Replacing => copy.objects = {}
    /\ l = "connect" => rest = all
    /\ l = "loading" =>
           /\ all \ rest \subseteq copy.objects
           /\ fine => all \ rest \subseteq copy.usable
           /\ v \in Replacing => copy.objects = all \ rest
    /\ l = "grant" \/ over =>
           /\ all \subseteq copy.objects
           /\ all \subseteq copy.usable
           /\ v \in Replacing => copy.objects = all

Progress(p) ==
    alone[p] => Achieved(verb[p], pc[p], db[dst[p]], snap[p], left[p], clean[p])

DInv == Typed /\ Private /\ \A p \in Procs : Progress(p)

LEMMA InitInv == Init => DInv
<1> SUFFICES ASSUME Init PROVE DInv
  OBVIOUS
<1>1. db \in [Tenants -> Database \cup {None}]
  BY ExistingAssumption DEF Init, Database, Original, Objects
<1>2. TypeOK
  BY <1>1, ExistingAssumption DEF Init, TypeOK
<1> QED
  BY <1>2 DEF Init, DInv, Typed, IdleForgets, OwnSteps, OwnStep, Private, Progress

\* Losing a session, or nothing at all, costs a verb nothing it has achieved.
LEMMA OthersProgress ==
    ASSUME DInv, NEW p \in Procs, Step(p), NEW q \in Procs \ {p}
    PROVE  Progress(q)'
<1> SUFFICES ASSUME alone'[q]
             PROVE  Achieved(verb'[q], pc'[q], db'[dst'[q]], snap'[q], left'[q], clean'[q])
  BY DEF Progress
<1>1. /\ UNCHANGED <<verb, src, dst, alone>>
      /\ pc'[q] \in {pc[q], "killed"}
      /\ snap'[q] = snap[q] /\ left'[q] = left[q] /\ clean'[q] = clean[q]
      /\ \A t \in Tenants \ {dst[p]} : db'[t] = db[t]
  BY StepFrame DEF DInv, Typed
<1>2. Achieved(verb[q], pc[q], db[dst[q]], snap[q], left[q], clean[q])
  BY <1>1 DEF DInv, Progress
<1>3. CASE pc'[q] = "killed"
  BY <1>3 DEF Achieved
<1>4. CASE pc'[q] = pc[q] /\ pc[q] # "idle"
  <2>1. dst[q] \in Tenants \ {dst[p]}
    BY <1>1, <1>4 DEF DInv, Private, Typed, TypeOK
  <2> QED
    BY <1>1, <1>2, <1>4, <2>1
<1>5. CASE pc'[q] = pc[q] /\ pc[q] = "idle"
  BY <1>5 DEF Achieved
<1> QED
  BY <1>1, <1>3, <1>4, <1>5

\* Each step achieves what the next one counts on.
LEMMA OwnProgress ==
    ASSUME DInv, NEW p \in Procs, Step(p)
    PROVE  Progress(p)'
<1> SUFFICES ASSUME alone'[p]
             PROVE  Achieved(verb'[p], pc'[p], db'[dst'[p]], snap'[p], left'[p], clean'[p])
  BY DEF Progress
<1>t. TypeOK
  BY DEF DInv, Typed
<1>a. UNCHANGED <<verb, src, dst, alone>>
  BY <1>t, StepFrame
<1>b. Achieved(verb[p], pc[p], db[dst[p]], snap[p], left[p], clean[p])
  BY <1>a DEF DInv, Progress
<1>c. OwnStep(verb[p], pc[p])
  BY DEF DInv, Typed, OwnSteps
<1>d. pc[p] # "idle" => dst[p] \in Tenants /\ verb[p] \in Verbs
  BY <1>t DEF TypeOK
<1> USE DEF job, load, shared, Goto
<1>1. CASE CheckSource(p)
  BY <1>t, <1>a, <1>1 DEF CheckSource, Achieved, TypeOK
<1>2. CASE CheckTarget(p)
  BY <1>t, <1>a, <1>2 DEF CheckTarget, Achieved, TypeOK
<1>3. CASE DropForce(p)
  <2>1. pc'[p] = "create" /\ db'[dst[p]] = None
    BY <1>t, <1>d, <1>3, KilledSomewhere DEF DropForce, TypeOK
  <2> QED
    BY <1>a, <2>1 DEF Achieved
<1>4. CASE Terminate(p)
  <2>1. pc'[p] = "drop"
    BY <1>t, <1>4, KilledSomewhere DEF Terminate, TypeOK
  <2> QED
    BY <1>a, <2>1 DEF Achieved
<1>5. CASE Drop(p)
  <2>1. pc'[p] \in {"dropRole", "query"} /\ db'[dst[p]] = None
    BY <1>t, <1>d, <1>5 DEF Drop, TypeOK
  <2> QED
    BY <1>a, <2>1 DEF Achieved
<1>6. CASE DropRole(p)
  <2>1. pc'[p] = "done" /\ verb[p] = "drop"
    BY <1>t, <1>c, <1>6 DEF DropRole, TypeOK, OwnStep
  <2> QED
    BY <1>a, <2>1 DEF Achieved
<1>7. CASE EnsureRole(p)
  <2>1. pc'[p] = "query" /\ verb[p] \notin Replacing
    BY <1>t, <1>c, <1>7 DEF EnsureRole, TypeOK, OwnStep, Provisioning, Replacing
  <2> QED
    BY <1>a, <2>1 DEF Achieved
<1>8. CASE Query(p)
  <2>1. /\ pc[p] = "query" /\ db' = db
        /\ pc'[p] = IF db[dst[p]] = None THEN "create" ELSE "alter"
    BY <1>t, <1>8 DEF Query, TypeOK
  <2> QED
    BY <1>a, <1>b, <2>1 DEF Achieved
<1>9. CASE Create(p)
  <2>1. /\ pc'[p] = AfterEnsured(p)
        /\ db'[dst[p]] = [owned |-> TRUE, granted |-> FALSE, objects |-> {}, usable |-> {}]
    BY <1>t, <1>d, <1>9 DEF Create, TypeOK
  <2>2. db'[dst[p]] # None
    <3>1. [owned |-> TRUE, granted |-> FALSE, objects |-> {}, usable |-> {}] \in Database
      BY DEF Database
    <3> QED
      BY <2>1, <3>1, SomeDatabase
  <2> QED
    BY <1>a, <2>1, <2>2 DEF Achieved, AfterEnsured, Replacing, Provisioning
<1>10. CASE Alter(p)
  <2>1. verb[p] \in Provisioning
    BY <1>b, <1>c, <1>10 DEF Alter, Achieved, OwnStep, Replacing
  <2>2. pc'[p] = "grantFirst" /\ db'[dst[p]] = [db[dst[p]] EXCEPT !.owned = TRUE]
    BY <1>t, <1>d, <1>10, <2>1 DEF Alter, AfterEnsured, TypeOK
  <2>3. db[dst[p]] \in Database
    BY <1>t, <1>d, <1>10 DEF Alter, TypeOK
  <2>4. db'[dst[p]] # None
    BY <2>2, <2>3, ChangedDatabase, SomeDatabase
  <2>5. db'[dst[p]].owned
    BY <2>2, <2>3 DEF Database
  <2> QED
    BY <1>a, <2>2, <2>4, <2>5 DEF Achieved
<1>11. CASE Grant(p)
  <2>1. db[dst[p]] \in Database
    BY <1>t, <1>d, <1>11 DEF Grant, TypeOK
  <2>2. db'[dst[p]] = [db[dst[p]] EXCEPT !.granted = TRUE]
    BY <1>t, <1>d, <1>11 DEF Grant, TypeOK
  <2>3. /\ db'[dst[p]] # None
        /\ db'[dst[p]].granted /\ db'[dst[p]].owned = db[dst[p]].owned
        /\ db'[dst[p]].objects = db[dst[p]].objects /\ db'[dst[p]].usable = db[dst[p]].usable
    <3>1. db'[dst[p]] # None
      BY <2>1, <2>2, ChangedDatabase, SomeDatabase
    <3> QED
      BY <2>1, <2>2, <3>1 DEF Database
  <2>4. /\ snap'[p] = snap[p]
        /\ \/ pc[p] = "grantFirst" /\ pc'[p] = "dump" /\ verb[p] \in Provisioning
           \/ pc[p] = "grant" /\ pc'[p] = "done" /\ verb[p] # "drop"
    BY <1>t, <1>c, <1>11 DEF Grant, TypeOK, OwnStep
  <2> QED
    BY <1>a, <1>b, <2>3, <2>4 DEF Achieved, Replacing, Provisioning
<1>12. CASE Dump(p)
  <2>1. /\ pc[p] = "dump" /\ pc'[p] = "connect" /\ db' = db /\ left'[p] = snap'[p]
    BY <1>t, <1>12 DEF Dump, TypeOK
  <2> QED
    BY <1>a, <1>b, <2>1 DEF Achieved
<1>13. CASE Connect(p)
  <2>1. /\ pc[p] = "connect" /\ pc'[p] = "loading" /\ db' = db
        /\ left' = left /\ snap' = snap /\ clean' = clean
    BY <1>t, <1>13 DEF Connect, TypeOK
  <2>2. snap[p] \ left[p] = {}
    BY <1>b, <2>1 DEF Achieved
  <2> QED
    BY <1>a, <1>b, <2>1, <2>2 DEF Achieved
<1>14. CASE Loaded(p)
  <2>1. /\ pc[p] = "loading" /\ pc'[p] = "grant" /\ db' = db /\ snap' = snap
        /\ left[p] = {} /\ clean[p]
    BY <1>t, <1>14 DEF Loaded, ExitedCleanly, TypeOK
  <2>2. snap[p] \ left[p] = snap[p]
    BY <2>1
  <2> QED
    BY <1>a, <1>b, <2>1, <2>2 DEF Achieved, Provisioning
<1>15. ASSUME NEW o \in Objects, LoadObject(p, o)
       PROVE  Achieved(verb'[p], pc'[p], db'[dst'[p]], snap'[p], left'[p], clean'[p])
  <2>1. /\ pc[p] = "loading" /\ pc'[p] \in {"loading", "killed"} /\ snap' = snap
        /\ o \in left[p] /\ left'[p] = left[p] \ {o} /\ left[p] \subseteq snap[p]
    BY <1>t, <1>15 DEF LoadObject, TypeOK
  <2>2. snap'[p] \ left'[p] = (snap[p] \ left[p]) \cup {o}
    BY <2>1
  <2>3. db[dst[p]] \in Database /\ clean[p] \in BOOLEAN
    BY <1>t, <1>d, <2>1 DEF TypeOK
  <2>4. CASE o \in db[dst[p]].objects
    <3>1. db' = db /\ clean'[p] = FALSE
      BY <1>t, <1>15, <2>4 DEF LoadObject, TypeOK
    <3>2. verb[p] \notin Replacing
      BY <1>b, <2>1, <2>4 DEF Achieved
    <3> QED
      BY <1>a, <1>b, <2>1, <2>2, <2>4, <3>1, <3>2 DEF Achieved
  <2>5. CASE o \notin db[dst[p]].objects
    <3>1. verb[p] # "importSQL" \/ db[dst[p]].granted
      BY <1>b, <2>1 DEF Achieved, Provisioning
    <3> DEFINE new == [db[dst[p]] EXCEPT !.objects = @ \cup {o}, !.usable = @ \cup {o}]
    <3>2. db'[dst[p]] = new /\ clean'[p] = clean[p]
      <4>1. db' = [db EXCEPT ![dst[p]].objects = @ \cup {o}, ![dst[p]].usable = @ \cup {o}]
        BY <1>15, <2>5, <3>1 DEF LoadObject, Load
      <4>2. clean' = clean
        BY <1>15, <2>5 DEF LoadObject
      <4> QED
        BY <1>t, <1>d, <2>1, <4>1, <4>2 DEF TypeOK
    <3>3. /\ new \in Database
          /\ new.owned = db[dst[p]].owned /\ new.granted = db[dst[p]].granted
          /\ new.objects = db[dst[p]].objects \cup {o}
          /\ new.usable = db[dst[p]].usable \cup {o}
      BY <2>3 DEF Database
    <3> HIDE DEF new
    <3> QED
      BY <1>a, <1>b, <2>1, <2>2, <2>3, <3>2, <3>3, SomeDatabase DEF Achieved
  <2> QED
    BY <2>4, <2>5
<1> QED
  BY <1>1, <1>2, <1>3, <1>4, <1>5, <1>6, <1>7, <1>8, <1>9, <1>10, <1>11, <1>12, <1>13,
     <1>14, <1>15 DEF Step

LEMMA StepInv == ASSUME DInv, NEW p \in Procs, Step(p) PROVE DInv'
<1>1. Typed'
  BY StepTyped DEF DInv
<1>2. Private'
  <2>1. UNCHANGED <<dst, alone>>
    BY StepFrame DEF DInv, Typed
  <2> QED
    BY <2>1 DEF DInv, Private
<1>3. \A q \in Procs : Progress(q)'
  BY OthersProgress, OwnProgress
<1> QED
  BY <1>1, <1>2, <1>3 DEF DInv

LEMMA EdgesInv ==
    ASSUME DInv, NEW p \in Procs,
           \/ \E v \in Verbs, s, d \in Tenants : Start(p, v, s, d)
           \/ Finish(p) \/ Fail(p)
    PROVE  DInv'
<1>1. Typed'
  BY EdgesTyped DEF DInv
<1> USE DEF shared, load, Goto
<1>2. ASSUME NEW v \in Verbs, NEW s \in Tenants, NEW d \in Tenants, Start(p, v, s, d)
      PROVE  Private' /\ \A q \in Procs : Progress(q)'
  <2>1. FirstStep(v) \in {"checkSource", "ensureRole", "terminate"}
    BY DEF FirstStep, Verbs, Provisioning
  <2>2. /\ pc'[p] = FirstStep(v) /\ dst'[p] = d
        /\ alone'[p] => \A r \in Procs : dst[r] # d
        /\ \A q \in Procs \ {p} :
              /\ pc'[q] = pc[q] /\ verb'[q] = verb[q] /\ dst'[q] = dst[q]
              /\ alone'[q] => alone[q] /\ dst[q] # d
        /\ UNCHANGED <<db, snap, left, clean>>
    BY <1>2 DEF Start, DInv, Typed, TypeOK
  <2>3. Private'
    BY <2>2 DEF DInv, Private
  <2>4. Progress(p)'
    BY <2>1, <2>2 DEF Progress, Achieved
  <2>5. \A q \in Procs \ {p} : Progress(q)'
    BY <2>2 DEF DInv, Progress
  <2> QED
    BY <2>3, <2>4, <2>5
<1>3. CASE Leave(p)
  <2>1. /\ ~alone'[p] /\ dst'[p] = None
        /\ \A q \in Procs \ {p} :
              /\ pc'[q] = pc[q] /\ verb'[q] = verb[q] /\ dst'[q] = dst[q]
              /\ alone'[q] = alone[q] /\ snap'[q] = snap[q] /\ left'[q] = left[q]
              /\ clean'[q] = clean[q]
        /\ UNCHANGED db
    BY <1>3 DEF Leave, DInv, Typed, TypeOK
  <2>2. \A q \in Procs \ {p} : alone[q] => dst[q] # None
    BY NoneAssumption DEF DInv, Typed, TypeOK, IdleForgets
  <2>3. Private'
    BY <2>1, <2>2 DEF DInv, Private
  <2>4. \A q \in Procs : Progress(q)'
    BY <2>1 DEF DInv, Progress
  <2> QED
    BY <1>1, <2>3, <2>4 DEF DInv
<1> QED
  BY <1>1, <1>2, <1>3 DEF DInv, Finish, Fail

\* A script that leaves its database costs those that are alone nothing.
LEMMA StrayInv ==
    ASSUME DInv, NEW p \in Procs, NEW t \in Tenants, Stray(p, t)
    PROVE  DInv'
<1>1. Typed'
  BY StrayTyped DEF DInv
<1>2. /\ UNCHANGED <<roles, verb, src, dst, snap, clean>> /\ ~alone'[p]
      /\ \A q \in Procs \ {p} :
            /\ pc'[q] \in {pc[q], "killed"}
            /\ left'[q] = left[q]
            /\ alone'[q] => alone[q] /\ dst[q] # t
      /\ \A s \in Tenants \ {t} : db'[s] = db[s]
  BY StrayFrame DEF DInv
<1>3. Private'
  BY <1>2 DEF DInv, Private
<1>4. ASSUME NEW q \in Procs PROVE Progress(q)'
  <2> SUFFICES ASSUME alone'[q]
               PROVE  Achieved(verb'[q], pc'[q], db'[dst'[q]], snap'[q], left'[q], clean'[q])
    BY DEF Progress
  <2>1. q # p /\ alone[q] /\ dst[q] # t
    BY <1>2
  <2>2. Achieved(verb[q], pc[q], db[dst[q]], snap[q], left[q], clean[q])
    BY <2>1 DEF DInv, Progress
  <2>3. dst[q] \in Tenants
    BY <2>1 DEF DInv, Typed, TypeOK, IdleForgets
  <2>4. CASE pc'[q] = "killed"
    BY <2>4 DEF Achieved
  <2>5. CASE pc'[q] = pc[q]
    BY <1>2, <2>1, <2>2, <2>3, <2>5
  <2> QED
    BY <1>2, <2>1, <2>4, <2>5
<1> QED
  BY <1>1, <1>3, <1>4 DEF DInv

LEMMA NextInv == DInv /\ [Next]_vars => DInv'
<1> SUFFICES ASSUME DInv, [Next]_vars PROVE DInv'
  OBVIOUS
<1>1. CASE Next
  BY <1>1, StepInv, StrayInv, EdgesInv DEF Next
<1>2. CASE UNCHANGED vars
  BY <1>2 DEF vars, DInv, Typed, TypeOK, IdleForgets, OwnSteps, Private, Progress
<1> QED
  BY <1>1, <1>2

LEMMA Invariant == Spec => []DInv
BY InitInv, NextInv, PTL DEF Spec

-----------------------------------------------------------------------------
(* Theorems *)

\* Every variable has its type; pg_restore never loads into a database that is gone, and
\* has to load only what it was given.
THEOREM TypeCorrect == Spec => []TypeOK
<1>1. DInv => TypeOK
  BY DEF DInv, Typed
<1> QED
  BY <1>1, Invariant, PTL

\* A verb that reports a copy has made a whole one, owned by its tenant, whatever other
\* verbs did meanwhile to its source, and however it stood before: unless it had company
\* at its destination, or an uploaded script did not keep to its own database.
THEOREM CopiesAreWhole == Spec => []CopiesWhole
<1>1. DInv => CopiesWhole
  BY DEF DInv, Progress, Achieved, CopiesWhole, Succeeded, Replacing
<1> QED
  BY <1>1, Invariant, PTL

\* The tenant may use what a verb reports as copied, from an archive or a script.
THEOREM CopiesAreUsable == Spec => []CopiesUsable
<1>1. DInv => CopiesUsable
  BY DEF DInv, Progress, Achieved, CopiesUsable, Succeeded
<1> QED
  BY <1>1, Invariant, PTL

\* While no uploaded script runs, no database changes but the destination of a verb, or
\* of what is left of one in the pod.
THEOREM SourcesAreKept == Spec => SourcesKept
<1>1. ASSUME DInv, [Next]_vars
      PROVE  [\A t \in Tenants :
                 (\A p \in Procs : dst[p] # t /\ ~RunsScript(p)) => db'[t] = db[t]]_vars
  <2>1. CASE UNCHANGED vars
    BY <2>1
  <2>2. ASSUME NEW p \in Procs, Step(p), NEW t \in Tenants, dst[p] # t
        PROVE  db'[t] = db[t]
    BY <1>1, <2>2, StepFrame DEF DInv, Typed
  <2>3. ASSUME NEW p \in Procs,
               \/ \E v \in Verbs, s, d \in Tenants : Start(p, v, s, d)
               \/ Finish(p) \/ Fail(p)
        PROVE  db' = db
    BY <2>3 DEF Start, Finish, Fail, Leave, shared
  <2>4. ASSUME NEW p \in Procs, NEW t \in Tenants, Stray(p, t)
        PROVE  RunsScript(p)
    BY <2>4 DEF Stray
  <2> QED
    BY <1>1, <2>1, <2>2, <2>3, <2>4 DEF Next
<1> QED
  BY <1>1, Invariant, PTL DEF Spec, SourcesKept
=============================================================================
