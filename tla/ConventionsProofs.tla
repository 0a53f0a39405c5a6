--------------------------- MODULE ConventionsProofs ---------------------------
(***************************************************************************)
(* Proofs about the conventions of a workspace other than names.           *)
(*                                                                         *)
(* WorkspaceCatalog: the command line and the server, which resolve        *)
(* clusters separately, agree for every marker, of any number of clusters. *)
(* What carries them is that the registry is the catalog again: its        *)
(* targets and their IDs are as many, so none is refused.                  *)
(*                                                                         *)
(* Quoting: a password of any length is read again as itself, in each      *)
(* language StringsRead and FileReachesRole are about.  Reading takes one  *)
(* character at a time, and so does replacing characters; the proofs are   *)
(* by induction over the string.  For each reader it is enough to see what *)
(* it makes of one character as it is written (Understands); ReadBack      *)
(* carries that to whole strings.                                          *)
(***************************************************************************)
EXTENDS WorkspaceCatalog, Quoting, SequenceTheorems, FiniteSetTheorems,
        WellFoundedInduction, TLAPS

-----------------------------------------------------------------------------
(* Markers, catalogs and registries *)

LEMMA DefaultsType ==
  ASSUME NEW c \in Configs
  PROVE  applyDefaults(c) \in Workspaces
BY DEF applyDefaults, Configs, Workspaces

\* The promise of validateRelativePath and of the checks beside it.
LEMMA ValidatedUsable ==
  ASSUME NEW c \in Configs, validateWorkspace(applyDefaults(c))
  PROVE  LET w == applyDefaults(c)
         IN  /\ "" \notin {w.pod, w.cluster_name, w.service_name, w.cluster_yaml}
             /\ w.cluster_yaml = "inside" /\ w.secrets_dir = "inside"
<1> DEFINE w == applyDefaults(c)
<1>1. /\ w.cluster_yaml = "inside" /\ w.secrets_dir \in {"", "inside"}
      /\ w.pod # "" /\ w.cluster_name # "" /\ w.service_name # ""
  BY DEF validateWorkspace, validateRelativePath
<1>2. w.secrets_dir # ""
  BY DEF applyDefaults, Configs
<1> HIDE DEF w
<1>3. w.secrets_dir = "inside" /\ "" \notin {w.pod, w.cluster_name, w.service_name, w.cluster_yaml}
  BY <1>1, <1>2
<1> QED BY <1>1, <1>3 DEF w

\* Every catalog loadCatalog returns has its default among its clusters, of which
\* none is called "", and only the legacy marker's cluster may be unfit for use.
LEMMA LoadedFacts ==
  ASSUME NEW m \in Markers \cup RootMarkers \cup {None}, loadCatalog(m) # None
  PROVE  LET c == loadCatalog(m)
         IN  /\ c \in Catalogs /\ IsFiniteSet(DOMAIN c.Clusters)
             /\ c.DefaultCluster \in DOMAIN c.Clusters
             /\ DOMAIN m.clusters # {} =>
                    \A id \in DOMAIN c.Clusters :
                        LET w == c.Clusters[id]
                        IN  /\ "" \notin {w.pod, w.cluster_name, w.service_name, w.cluster_yaml}
                            /\ w.cluster_yaml = "inside" /\ w.secrets_dir = "inside"
<1> DEFINE c == loadCatalog(m)
           D == DOMAIN m.clusters
<1>1. m # None
  BY DEF loadCatalog
<1>2. IsMarker(m)
  BY <1>1, MarkersAssumption
<1>3. /\ m.flat \in Configs /\ IsFiniteSet(D)
      /\ m.clusters \in [D -> Configs \cup {None}]
  BY <1>2 DEF IsMarker
<1>4. CASE D = {}
  <2>1. c = [DefaultCluster |-> DefaultClusterID,
             Clusters |-> [id \in {DefaultClusterID} |-> applyDefaults(m.flat)]]
    BY <1>1, <1>4 DEF loadCatalog, LoadFlat
  <2>2. applyDefaults(m.flat) \in Workspaces
    BY <1>3, DefaultsType
  <2>3. DefaultClusterID \in Labels
    BY IdsAssumption
  <2>4. [id \in {DefaultClusterID} |-> applyDefaults(m.flat)]
          \in UNION {[I -> Workspaces] : I \in SUBSET Labels}
    <3>1. [id \in {DefaultClusterID} |-> applyDefaults(m.flat)]
            \in [{DefaultClusterID} -> Workspaces]
      BY <2>2
    <3> QED BY <2>3, <3>1
  <2>5. c \in Catalogs
    BY <2>1, <2>3, <2>4 DEF Catalogs
  <2>6. DOMAIN c.Clusters = {DefaultClusterID} /\ c.DefaultCluster = DefaultClusterID
    BY <2>1
  <2> QED BY <1>4, <2>5, <2>6, FS_Singleton
<1>5. CASE D # {}
  <2>1. Loads(m) /\ c = [DefaultCluster |-> DefaultOf(m),
                         Clusters |-> [id \in D |-> applyDefaults(m.clusters[id])]]
    BY <1>1, <1>5 DEF loadCatalog
  <2>2. /\ DefaultOf(m) \in D
        /\ \A id \in D : /\ id \in Labels /\ m.clusters[id] # None
                          /\ validateWorkspace(applyDefaults(m.clusters[id]))
    BY <2>1 DEF Loads
  <2>3. \A id \in D : m.clusters[id] \in Configs
    BY <1>3, <2>2
  <2>4. \A id \in D : applyDefaults(m.clusters[id]) \in Workspaces
    BY <2>3, DefaultsType
  <2>5. [id \in D |-> applyDefaults(m.clusters[id])]
          \in UNION {[I -> Workspaces] : I \in SUBSET Labels}
    <3>1. [id \in D |-> applyDefaults(m.clusters[id])] \in [D -> Workspaces]
      BY <2>4
    <3>2. D \in SUBSET Labels
      BY <2>2
    <3> QED BY <3>1, <3>2
  <2>6. c \in Catalogs
    BY <2>1, <2>2, <2>5 DEF Catalogs
  <2>7. DOMAIN c.Clusters = D /\ c.DefaultCluster \in D
    BY <2>1, <2>2
  <2>8. ASSUME NEW id \in D
        PROVE  LET w == c.Clusters[id]
               IN  /\ "" \notin {w.pod, w.cluster_name, w.service_name, w.cluster_yaml}
                   /\ w.cluster_yaml = "inside" /\ w.secrets_dir = "inside"
    <3>1. c.Clusters[id] = applyDefaults(m.clusters[id])
      BY <2>1
    <3> QED BY <2>2, <2>3, <3>1, ValidatedUsable
  <2> HIDE DEF c
  <2> QED BY <1>3, <2>6, <2>7, <2>8 DEF c
<1> QED BY <1>4, <1>5

\* The registry has the clusters of the catalog, under their own names.
LEMMA RegistryOf ==
  ASSUME NEW c \in Catalogs, IsFiniteSet(DOMAIN c.Clusters),
         c.DefaultCluster \in DOMAIN c.Clusters
  PROVE  /\ buildClusterRegistry(c) =
               [Default |-> c.DefaultCluster,
                Targets |-> [id \in DOMAIN c.Clusters |->
                                [ID |-> id, Workspace |-> c.Clusters[id]]]]
         /\ buildClusterRegistry(c) # None
         /\ "" \notin DOMAIN c.Clusters
<1> DEFINE D == DOMAIN c.Clusters
           T(id) == [ID |-> id, Workspace |-> c.Clusters[id]]
           targets == {Select(c, id) : id \in D}
           ids == {t.ID : t \in targets}
<1>1. PICK I \in SUBSET Labels : c.Clusters \in [I -> Workspaces]
  BY DEF Catalogs
<1>2. D \in SUBSET Labels /\ "" \notin D /\ \A id \in D : c.Clusters[id] \in Workspaces
  BY <1>1, IdsAssumption
<1>3. \A id \in D : Select(c, id) = T(id)
  BY <1>2 DEF Select
<1>4. targets = {T(id) : id \in D}
  BY <1>3
<1>5. \A id \in D : T(id).ID = id
  OBVIOUS
<1>6. ids = D
  <2>1. \A t \in targets : t.ID \in D
    BY <1>4, <1>5
  <2>2. \A id \in D : T(id) \in targets
    BY <1>4
  <2> HIDE DEF targets, D, T
  <2> QED BY <1>5, <2>1, <2>2
<1>7. Cardinality(targets) = Cardinality(D)
  <2> DEFINE f == [id \in D |-> T(id)]
  <2>1. f \in [D -> targets] /\ \A t \in targets : \E id \in D : f[id] = t
    BY <1>4
  <2>2. \A id, other \in D : f[id] = f[other] => id = other
    BY <1>5
  <2>3. f \in Bijection(D, targets)
    BY <2>1, <2>2 DEF Bijection, Injection, Surjection, IsInjective
  <2>4. ExistsBijection(D, targets)
    BY <2>3 DEF ExistsBijection
  <2> QED BY <2>4, FS_Bijection
<1>8. \A id \in D : {t \in targets : t.ID = id} = {T(id)}
  BY <1>4, <1>5
<1>9. \A id \in D : Only({t \in targets : t.ID = id}) = T(id)
  BY <1>8 DEF Only
<1>10. c # None /\ c.DefaultCluster # ""
  BY <1>2, NoneAssumption
<1>11. buildClusterRegistry(c) =
         [Default |-> c.DefaultCluster,
          Targets |-> [id \in ids |-> Only({t \in targets : t.ID = id})]]
  <2> HIDE DEF targets, D
  <2>1. buildClusterRegistry(c) = NewClusterRegistry(c.DefaultCluster, targets)
    BY <1>10 DEF buildClusterRegistry, targets, D
  <2> QED BY <1>2, <1>6, <1>7, <1>10, <2>1 DEF NewClusterRegistry, D
<1>12. buildClusterRegistry(c) =
         [Default |-> c.DefaultCluster, Targets |-> [id \in D |-> T(id)]]
  BY <1>6, <1>9, <1>11
<1>13. [Default |-> c.DefaultCluster, Targets |-> [id \in D |-> T(id)]] \in Registries
  <2>1. \A id \in D : T(id) \in Targets
    BY <1>2 DEF Targets
  <2> HIDE DEF T
  <2>2. [id \in D |-> T(id)] \in [D -> Targets]
    BY <2>1
  <2>3. [id \in D |-> T(id)] \in UNION {[J -> Targets] : J \in SUBSET Labels}
    BY <1>2, <2>2
  <2> QED BY <1>2, <2>3 DEF Registries
<1> QED BY <1>2, <1>12, <1>13, NoneAssumption

\* What every workspace within the bounds leads to.
Loaded ==
    /\ DirOf(marker, override, wsEnv) \in Dirs
    /\ marker[DirOf(marker, override, wsEnv)] \in Markers \cup RootMarkers \cup {None}

LEMMA LoadedInit == CatalogInit => Loaded
<1> SUFFICES ASSUME CatalogInit PROVE Loaded
  OBVIOUS
<1>1. PICK m \in Markers \cup {None}, r \in RootMarkers \cup {None} :
          marker = [d \in Dirs |-> IF d = Here THEN m ELSE r]
  BY DEF CatalogInit
<1>2. DirOf(marker, override, wsEnv) \in Dirs
  BY DEF CatalogInit, DirOf, Dirs
<1> QED BY <1>1, <1>2 DEF Loaded

LEMMA CatalogFacts ==
  Loaded /\ Catalog # None =>
      /\ Catalog \in Catalogs /\ IsFiniteSet(DOMAIN Catalog.Clusters)
      /\ Catalog.DefaultCluster \in DOMAIN Catalog.Clusters
      /\ Registry =
            [Default |-> Catalog.DefaultCluster,
             Targets |-> [id \in DOMAIN Catalog.Clusters |->
                             [ID |-> id, Workspace |-> Catalog.Clusters[id]]]]
      /\ Registry # None /\ "" \notin DOMAIN Catalog.Clusters
<1> SUFFICES ASSUME Loaded, Catalog # None
             PROVE  /\ Catalog \in Catalogs /\ IsFiniteSet(DOMAIN Catalog.Clusters)
                    /\ Catalog.DefaultCluster \in DOMAIN Catalog.Clusters
                    /\ Registry =
                          [Default |-> Catalog.DefaultCluster,
                           Targets |-> [id \in DOMAIN Catalog.Clusters |->
                                           [ID |-> id, Workspace |-> Catalog.Clusters[id]]]]
                    /\ Registry # None /\ "" \notin DOMAIN Catalog.Clusters
  OBVIOUS
<1>1. Catalog = loadCatalog(marker[DirOf(marker, override, wsEnv)])
  BY DEF Catalog, FindCatalog
<1>2. /\ Catalog \in Catalogs /\ IsFiniteSet(DOMAIN Catalog.Clusters)
      /\ Catalog.DefaultCluster \in DOMAIN Catalog.Clusters
  BY <1>1, LoadedFacts DEF Loaded
<1> QED BY <1>2, RegistryOf DEF Registry

\* What a command line resolves an ID to.
LEMMA FindClusterFacts ==
  ASSUME NEW c \in Catalogs, c.DefaultCluster \in DOMAIN c.Clusters,
         "" \notin DOMAIN c.Clusters
  PROVE  /\ FindCluster(c, "", "") =
               [ID |-> c.DefaultCluster, Workspace |-> c.Clusters[c.DefaultCluster]]
         /\ \A id, env : id # "" =>
               FindCluster(c, id, env) =
                   IF id \in DOMAIN c.Clusters
                     THEN [ID |-> id, Workspace |-> c.Clusters[id]] ELSE None
<1>1. c # None
  BY NoneAssumption
<1> QED BY <1>1 DEF FindCluster, Select

\* The registry has the catalog's clusters, default and settings.
LEMMA RegistryFacts ==
  Loaded /\ Catalog # None =>
      /\ Registry # None /\ Registry.Default = Catalog.DefaultCluster
      /\ DOMAIN Registry.Targets = DOMAIN Catalog.Clusters
      /\ \A id \in DOMAIN Catalog.Clusters :
             Registry.Targets[id] = [ID |-> id, Workspace |-> Catalog.Clusters[id]]
<1> SUFFICES ASSUME Loaded, Catalog # None
             PROVE  /\ Registry # None /\ Registry.Default = Catalog.DefaultCluster
                    /\ DOMAIN Registry.Targets = DOMAIN Catalog.Clusters
                    /\ \A id \in DOMAIN Catalog.Clusters :
                           Registry.Targets[id] = [ID |-> id, Workspace |-> Catalog.Clusters[id]]
  OBVIOUS
<1> DEFINE targets == [id \in DOMAIN Catalog.Clusters |->
                          [ID |-> id, Workspace |-> Catalog.Clusters[id]]]
<1>1. Registry = [Default |-> Catalog.DefaultCluster, Targets |-> targets] /\ Registry # None
  BY CatalogFacts
<1>2. Registry.Default = Catalog.DefaultCluster /\ Registry.Targets = targets
  <2> HIDE DEF targets
  <2> QED BY <1>1
<1> QED BY <1>1, <1>2

\* The server starts in every workspace the commands accept, and its start page is
\* the cluster they mean, for any set of markers.
THEOREM ServerAlwaysStarts == CatalogSpec => []ServerStarts
<1>1. CatalogInit => ServerStarts
  <2> SUFFICES ASSUME Loaded, Catalog # None
               PROVE  Registry # None
                      /\ Registry.Targets[Registry.Default] = FindCluster(Catalog, "", "")
    BY LoadedInit DEF ServerStarts
  <2>1. FindCluster(Catalog, "", "") =
            [ID |-> Catalog.DefaultCluster,
             Workspace |-> Catalog.Clusters[Catalog.DefaultCluster]]
    BY CatalogFacts, FindClusterFacts
  <2>2. Catalog.DefaultCluster \in DOMAIN Catalog.Clusters
    BY CatalogFacts
  <2> QED BY <2>1, <2>2, RegistryFacts
<1>2. ServerStarts /\ [UNCHANGED cvars]_cvars => ServerStarts'
  BY DEF ServerStarts, Registry, Catalog, cvars
<1> QED BY <1>1, <1>2, PTL DEF CatalogSpec

\* A command with --cluster works on what that cluster's page shows, or on nothing.
THEOREM CommandsAlwaysAgree == CatalogSpec => []CommandsAgree
<1>1. CatalogInit => CommandsAgree
  <2> SUFFICES ASSUME Loaded, Registry # None, NEW id \in Ids \ {""}, NEW env
               PROVE  FindCluster(Catalog, id, env) =
                          IF id \in DOMAIN Registry.Targets THEN Registry.Targets[id]
                                                            ELSE None
    BY LoadedInit DEF CommandsAgree
  <2>1. Catalog # None
    BY DEF Registry, buildClusterRegistry
  <2>2. FindCluster(Catalog, id, env) =
            IF id \in DOMAIN Catalog.Clusters
              THEN [ID |-> id, Workspace |-> Catalog.Clusters[id]] ELSE None
    BY <2>1, CatalogFacts, FindClusterFacts
  <2> QED BY <2>1, <2>2, RegistryFacts
<1>2. CommandsAgree /\ [UNCHANGED cvars]_cvars => CommandsAgree'
  BY DEF CommandsAgree, Registry, Catalog, cvars
<1> QED BY <1>1, <1>2, PTL DEF CatalogSpec

\* No verb is run on a target without a pod, a Cluster or a Service, or with files
\* outside its workspace, unless the marker is a legacy one.
THEOREM TargetsAlwaysUsable == CatalogSpec => []TargetsUsable
<1>1. CatalogInit => TargetsUsable
  <2> SUFFICES ASSUME Loaded, Registry # None, NEW id \in DOMAIN Registry.Targets,
                      DOMAIN marker[DirOf(marker, override, wsEnv)].clusters # {}
               PROVE  LET w == Registry.Targets[id].Workspace IN
                      /\ "" \notin {w.pod, w.cluster_name, w.service_name, w.cluster_yaml}
                      /\ w.cluster_yaml = "inside" /\ w.secrets_dir = "inside"
    BY LoadedInit DEF TargetsUsable
  <2>1. Catalog # None
    BY DEF Registry, buildClusterRegistry
  <2>2. id \in DOMAIN Catalog.Clusters /\ Registry.Targets[id].Workspace = Catalog.Clusters[id]
    <3>1. id \in DOMAIN Catalog.Clusters
      BY <2>1, RegistryFacts
    <3>2. Registry.Targets[id] = [ID |-> id, Workspace |-> Catalog.Clusters[id]]
      BY <2>1, <3>1, RegistryFacts
    <3> QED BY <3>1, <3>2
  <2>3. Catalog = loadCatalog(marker[DirOf(marker, override, wsEnv)])
    BY DEF Catalog, FindCatalog
  <2> DEFINE m == marker[DirOf(marker, override, wsEnv)]
  <2>4. m \in Markers \cup RootMarkers \cup {None} /\ DOMAIN m.clusters # {}
    BY DEF Loaded
  <2> HIDE DEF m
  <2>5. loadCatalog(m) = Catalog /\ loadCatalog(m) # None
    BY <2>1, <2>3 DEF m
  <2>6. LET w == Catalog.Clusters[id]
        IN  /\ "" \notin {w.pod, w.cluster_name, w.service_name, w.cluster_yaml}
            /\ w.cluster_yaml = "inside" /\ w.secrets_dir = "inside"
    BY <2>2, <2>4, <2>5, LoadedFacts
  <2> QED BY <2>2, <2>6
<1>2. TargetsUsable /\ [UNCHANGED cvars]_cvars => TargetsUsable'
  BY DEF TargetsUsable, Registry, Catalog, cvars
<1> QED BY <1>1, <1>2, PTL DEF CatalogSpec

-----------------------------------------------------------------------------
(* Induction *)

\* The order of the naturals, as a set of pairs.
Below == {ss \in Nat \X Nat : ss[1] < ss[2]}

\* Induction over the naturals.
LEMMA NaturalsInduce ==
  ASSUME NEW T, 0 \in T, \A n \in Nat : n \in T => n + 1 \in T
  PROVE  Nat \subseteq T
<1> SUFFICES ASSUME Nat \ T # {}
             PROVE  FALSE
  OBVIOUS
<1>1. IsWellFoundedOn(Below, Nat)
  BY NatLessThanWellFounded DEF OpToRel, Below
<1>2. PICK x \in Nat \ T : \A y \in Nat \ T : <<y, x>> \notin Below
  BY <1>1, WFMin
<1>3. x - 1 \in Nat \ T
  OBVIOUS
<1>4. <<x - 1, x>> \in Below
  BY <1>3 DEF Below
<1> QED
  BY <1>2, <1>3, <1>4

\* Induction over sequences.
LEMMA SequencesInduce ==
  ASSUME NEW S, NEW T, <<>> \in T,
         \A s \in Seq(S), e \in S : s \in T => Append(s, e) \in T
  PROVE  Seq(S) \subseteq T
<1> DEFINE L == {n \in Nat : \A s \in Seq(S) : Len(s) = n => s \in T}
<1>1. 0 \in L
  BY EmptySeq
<1>2. ASSUME NEW n \in Nat, n \in L
      PROVE  n + 1 \in L
  <2> SUFFICES ASSUME NEW s \in Seq(S), Len(s) = n + 1
               PROVE  s \in T
    OBVIOUS
  <2>1. PICK t \in Seq(S), e \in S : s = Append(t, e)
    BY SequenceEmptyOrAppend, EmptySeq
  <2>2. Len(t) = n
    BY <2>1, AppendProperties
  <2> QED
    BY <1>2, <2>1, <2>2
<1> HIDE DEF L
<1>3. Nat \subseteq L
  BY <1>1, <1>2, NaturalsInduce
<1> QED
  BY <1>3, LenProperties DEF L

-----------------------------------------------------------------------------
(* A step per character *)

\* What each prefix of s comes to.
IsCourse(at, step, from, s) ==
    at = [n \in 0..Len(s) |-> IF n = 0 THEN from ELSE step[at[n - 1]][s[n]]]
Course(step, from, s) == CHOOSE at : IsCourse(at, step, from, s)

Follows(at, step, from, s) ==
    /\ at[0] = from
    /\ \A n \in 1..Len(s) : at[n] = step[at[n - 1]][s[n]]

\* Along is where the course ends.
LEMMA AlongIsCourse ==
  ASSUME NEW step, NEW from, NEW s
  PROVE  Along(step, from, s) = Course(step, from, s)[Len(s)]
BY DEF Along, Course, IsCourse

\* A course begins at from and follows the step.
LEMMA CourseEquations ==
  ASSUME NEW step, NEW from, NEW s, Len(s) \in Nat, NEW at, IsCourse(at, step, from, s)
  PROVE  Follows(at, step, from, s)
<1> DEFINE Rule(n) == IF n = 0 THEN from ELSE step[at[n - 1]][s[n]]
<1>1. at = [n \in 0..Len(s) |-> Rule(n)]
  BY DEF IsCourse
<1> HIDE DEF Rule
<1>2. \A n \in 0..Len(s) : at[n] = Rule(n)
  BY <1>1
<1>3. at[0] = from
  BY <1>2 DEF Rule
<1>4. ASSUME NEW n \in 1..Len(s)
      PROVE  at[n] = step[at[n - 1]][s[n]]
  <2>1. n \in 0..Len(s) /\ n # 0
    OBVIOUS
  <2>2. at[n] = Rule(n)
    BY <1>2, <2>1
  <2> QED
    BY <2>1, <2>2 DEF Rule
<1> QED
  BY <1>3, <1>4 DEF Follows

\* Every string has a course, within the states of the step.
LEMMA CourseExists ==
  ASSUME NEW S, NEW A, NEW step \in [S -> [A -> S]], NEW from \in S, NEW s \in Seq(A)
  PROVE  \E at \in [0..Len(s) -> S] : IsCourse(at, step, from, s)
<1> DEFINE T == {t \in Seq(A) : \E at \in [0..Len(t) -> S] : IsCourse(at, step, from, t)}
<1>1. <<>> \in T
  <2>1. IsCourse([n \in 0..0 |-> from], step, from, <<>>)
    BY DEF IsCourse
  <2> QED
    BY <2>1, EmptySeq
<1>2. ASSUME NEW t \in Seq(A), NEW e \in A, t \in T
      PROVE  Append(t, e) \in T
  <2>1. PICK at \in [0..Len(t) -> S] : IsCourse(at, step, from, t)
    BY <1>2
  <2>0. /\ at[0] = from
        /\ \A i \in 1..Len(t) : at[i] = step[at[i - 1]][t[i]]
    <3>1. Len(t) \in Nat
      BY LenProperties
    <3>2. Follows(at, step, from, t)
      BY <2>1, <3>1, CourseEquations
    <3> QED
      BY <3>2 DEF Follows
  <2> DEFINE n == Len(t)
             u == Append(t, e)
             next == [i \in 0..(n + 1) |-> IF i = n + 1 THEN step[at[n]][e] ELSE at[i]]
  <2>2. /\ n \in Nat /\ u \in Seq(A) /\ Len(u) = n + 1
        /\ u[n + 1] = e /\ \A i \in 1..n : u[i] = t[i]
    BY AppendProperties, LenProperties
  <2>3. next \in [0..(n + 1) -> S]
    <3> HIDE DEF n
    <3>1. at \in [0..n -> S]
      BY <2>1 DEF n
    <3>2. at[n] \in S
      BY <2>2, <3>1
    <3> QED
      BY <2>2, <3>1, <3>2
  <2>4. next[0] = from
    BY <2>0, <2>2
  <2>5. \A i \in 1..n : next[i] = step[next[i - 1]][u[i]]
    <3> SUFFICES ASSUME NEW i \in 1..n
                 PROVE  next[i] = step[next[i - 1]][u[i]]
      OBVIOUS
    <3>1. next[i] = at[i] /\ next[i - 1] = at[i - 1]
      BY <2>2
    <3>2. at[i] = step[at[i - 1]][t[i]] /\ u[i] = t[i]
      BY <2>0, <2>2
    <3> QED
      BY <3>1, <3>2
  <2>6. next[n + 1] = step[next[n]][u[n + 1]]
    BY <2>2
  <2>7. IsCourse(next, step, from, u)
    <3>1. \A i \in 0..(n + 1) :
             next[i] = IF i = 0 THEN from ELSE step[next[i - 1]][u[i]]
      <4> SUFFICES ASSUME NEW i \in 0..(n + 1)
                   PROVE  next[i] = IF i = 0 THEN from ELSE step[next[i - 1]][u[i]]
        OBVIOUS
      <4>1. i = 0 \/ i \in 1..n \/ i = n + 1
        BY <2>2
      <4>2. CASE i = 0
        BY <2>4, <4>2
      <4>3. CASE i \in 1..n
        <5>1. i # 0
          BY <4>3
        <5> QED
          BY <2>5, <4>3, <5>1
      <4>4. CASE i = n + 1
        <5>1. i # 0 /\ i - 1 = n
          BY <2>2, <4>4
        <5> QED
          BY <2>6, <4>4, <5>1
      <4> QED
        BY <4>1, <4>2, <4>3, <4>4
    <3> HIDE DEF next, u
    <3> QED
      BY <2>2, <2>3, <3>1 DEF IsCourse
  <2> QED
    BY <2>2, <2>3, <2>7
<1> HIDE DEF T
<1>3. Seq(A) \subseteq T
  BY <1>1, <1>2, SequencesInduce
<1> QED
  BY <1>3 DEF T

\* The course of a string is the one that follows the step, and stays within the states.
LEMMA CourseFacts ==
  ASSUME NEW S, NEW A, NEW step \in [S -> [A -> S]], NEW from \in S, NEW s \in Seq(A)
  PROVE  /\ Course(step, from, s) \in [0..Len(s) -> S]
         /\ Follows(Course(step, from, s), step, from, s)
<1> DEFINE at == Course(step, from, s)
<1>1. IsCourse(at, step, from, s)
  BY CourseExists DEF Course
<1>2. Len(s) \in Nat
  BY LenProperties
<1>0. Follows(at, step, from, s)
  BY <1>1, <1>2, CourseEquations
<1>3. /\ at[0] = from
      /\ \A n \in 1..Len(s) : at[n] = step[at[n - 1]][s[n]]
  BY <1>0 DEF Follows
<1>4. \A n \in 0..Len(s) : at[n] \in S
  <2> DEFINE T == {n \in Nat : n <= Len(s) => at[n] \in S}
  <2> HIDE DEF at
  <2>1. 0 \in T
    BY <1>3
  <2>2. ASSUME NEW n \in Nat, n \in T
        PROVE  n + 1 \in T
    <3> SUFFICES ASSUME n + 1 <= Len(s)
                 PROVE  at[n + 1] \in S
      OBVIOUS
    <3>1. at[n] \in S /\ n + 1 \in 1..Len(s)
      BY <1>2, <2>2
    <3>2. s[n + 1] \in A
      BY <3>1, ElementOfSeq
    <3>3. at[n + 1] = step[at[n]][s[n + 1]]
      BY <1>3, <3>1
    <3> QED
      BY <3>1, <3>2, <3>3
  <2> HIDE DEF T
  <2>3. Nat \subseteq T
    BY <2>1, <2>2, NaturalsInduce
  <2> QED
    BY <1>2, <2>3 DEF T
<1>5. at = [n \in 0..Len(s) |-> at[n]]
  <2> DEFINE Rule(n) == IF n = 0 THEN from ELSE step[at[n - 1]][s[n]]
  <2>1. at = [n \in 0..Len(s) |-> Rule(n)]
    BY <1>1 DEF IsCourse
  <2> HIDE DEF Rule, at
  <2> QED
    BY <2>1
<1> HIDE DEF at
<1>6. at \in [0..Len(s) -> S]
  BY <1>4, <1>5
<1> QED
  BY <1>0, <1>6 DEF at

\* No character leaves it where it was.
LEMMA AlongNothing ==
  ASSUME NEW step, NEW from
  PROVE  Along(step, from, <<>>) = from
<1>1. Len(<<>>) = 0
  BY EmptySeq
<1>2. IsCourse([n \in 0..0 |-> from], step, from, <<>>)
  BY <1>1 DEF IsCourse
<1>3. IsCourse(Course(step, from, <<>>), step, from, <<>>)
  BY <1>2 DEF Course
<1> HIDE DEF Course
<1>4. Follows(Course(step, from, <<>>), step, from, <<>>)
  BY <1>1, <1>3, CourseEquations
<1> QED
  BY <1>1, <1>4, AlongIsCourse DEF Follows

\* The step takes a state and a character to a state.
IsStep(step, S, A) == step \in [S -> [A -> S]]

\* What a string comes to is a state of the step.
LEMMA AlongType ==
  ASSUME NEW S, NEW A, NEW step, IsStep(step, S, A), NEW from \in S, NEW s \in Seq(A)
  PROVE  Along(step, from, s) \in S
<1>1. Len(s) \in 0..Len(s)
  BY LenProperties
<1> QED
  <2>1. Course(step, from, s) \in [0..Len(s) -> S]
    BY CourseFacts DEF IsStep
  <2> HIDE DEF Course
  <2> QED
    BY <1>1, <2>1, AlongIsCourse

\* One character further.
LEMMA AlongAppend ==
  ASSUME NEW S, NEW A, NEW step, IsStep(step, S, A), NEW from \in S,
         NEW s \in Seq(A), NEW c \in A
  PROVE  Along(step, from, Append(s, c)) = step[Along(step, from, s)][c]
<1> DEFINE u == Append(s, c)
           n == Len(s)
           at == Course(step, from, s)
           bt == Course(step, from, u)
<1>1. /\ n \in Nat /\ u \in Seq(A) /\ Len(u) = n + 1
      /\ u[n + 1] = c /\ \A i \in 1..n : u[i] = s[i]
  BY AppendProperties, LenProperties
<1>2. /\ at[0] = from
      /\ \A i \in 1..n : at[i] = step[at[i - 1]][s[i]]
  <2>1. Follows(at, step, from, s)
    BY CourseFacts DEF IsStep
  <2> QED
    BY <2>1 DEF Follows
<1>3. /\ bt[0] = from
      /\ \A i \in 1..(n + 1) : bt[i] = step[bt[i - 1]][u[i]]
  <2> HIDE DEF u
  <2>1. Follows(bt, step, from, u)
    BY <1>1, CourseFacts DEF IsStep
  <2> QED
    BY <1>1, <2>1 DEF Follows
<1>4. bt[n] = at[n]
  <2> DEFINE T == {i \in Nat : i <= n => bt[i] = at[i]}
  <2> HIDE DEF at, bt, u, n
  <2>1. 0 \in T
    BY <1>2, <1>3
  <2>2. ASSUME NEW i \in Nat, i \in T
        PROVE  i + 1 \in T
    <3> SUFFICES ASSUME i + 1 <= n
                 PROVE  bt[i + 1] = at[i + 1]
      OBVIOUS
    <3>1. i + 1 \in 1..n /\ i + 1 \in 1..(n + 1) /\ bt[i] = at[i] /\ (i + 1) - 1 = i
      BY <1>1, <2>2
    <3>2. bt[i + 1] = step[bt[i]][u[i + 1]]
      BY <1>3, <3>1
    <3>3. at[i + 1] = step[at[i]][s[i + 1]]
      BY <1>2, <3>1
    <3>4. u[i + 1] = s[i + 1]
      BY <1>1, <3>1
    <3> QED
      BY <3>1, <3>2, <3>3, <3>4
  <2> HIDE DEF T
  <2>3. Nat \subseteq T
    BY <2>1, <2>2, NaturalsInduce
  <2> QED
    BY <1>1, <2>3 DEF T
<1>5. bt[n + 1] = step[bt[n]][c]
  <2> HIDE DEF at, bt, u, n
  <2> QED
    BY <1>1, <1>3
<1> QED
  BY <1>1, <1>4, <1>5, AlongIsCourse

\* Appending to the second of two strings appends to both.
LEMMA AppendConcat ==
  \A u \in Seq(Chars), v \in Seq(Chars), e \in Chars : Append(u \o v, e) = u \o Append(v, e)
<1> TAKE u \in Seq(Chars), v \in Seq(Chars), e \in Chars
<1> QED
  OBVIOUS

\* What two sequences one after the other come to.
LEMMA AlongConcat ==
  ASSUME NEW S, NEW A, NEW step, IsStep(step, S, A), NEW from \in S,
         NEW u \in Seq(A), NEW w \in Seq(A)
  PROVE  Along(step, from, u \o w) = Along(step, Along(step, from, u), w)
<1> DEFINE mid == Along(step, from, u)
           T == {v \in Seq(A) : Along(step, from, u \o v) = Along(step, mid, v)}
<1>1. mid \in S
  BY AlongType
<1>2. <<>> \in T
  <2>1. u \o <<>> = u /\ <<>> \in Seq(A)
    BY EmptySeq, ConcatEmptySeq
  <2>2. Along(step, mid, <<>>) = mid
    BY AlongNothing
  <2> QED
    BY <2>1, <2>2
<1>3. ASSUME NEW v \in Seq(A), NEW e \in A, v \in T
      PROVE  Append(v, e) \in T
  <2>1. /\ Append(v, e) \in Seq(A) /\ u \o v \in Seq(A)
        /\ u \o Append(v, e) = Append(u \o v, e)
    OBVIOUS
  <2>2. Along(step, from, Append(u \o v, e)) = step[Along(step, from, u \o v)][e]
    <3> DEFINE w1 == u \o v
    <3>1. w1 \in Seq(A)
      BY <2>1
    <3> HIDE DEF w1
    <3>2. Along(step, from, Append(w1, e)) = step[Along(step, from, w1)][e]
      BY <3>1, AlongAppend
    <3> QED
      BY <3>2 DEF w1
  <2>3. Along(step, mid, Append(v, e)) = step[Along(step, mid, v)][e]
    <3> HIDE DEF mid
    <3> QED
      BY <1>1, AlongAppend
  <2>4. Along(step, from, u \o v) = Along(step, mid, v)
    BY <1>3
  <2> HIDE DEF mid
  <2>5. Along(step, from, u \o Append(v, e)) = Along(step, mid, Append(v, e))
    BY <2>1, <2>2, <2>3, <2>4
  <2> QED
    BY <2>1, <2>5
<1> HIDE DEF T
<1>4. Seq(A) \subseteq T
  BY <1>2, <1>3, SequencesInduce
<1> QED
  BY <1>4 DEF T

\* What one character comes to.
LEMMA AlongOne ==
  ASSUME NEW S, NEW A, NEW step, IsStep(step, S, A), NEW from \in S, NEW a \in A
  PROVE  Along(step, from, <<a>>) = step[from][a]
<1> DEFINE none == <<>>
<1>1. none \in Seq(A) /\ <<a>> = Append(none, a) /\ Along(step, from, none) = from
  BY AlongNothing
<1> HIDE DEF none
<1>2. Along(step, from, Append(none, a)) = step[Along(step, from, none)][a]
  BY <1>1, AlongAppend
<1> QED
  BY <1>1, <1>2

\* What the characters at either end come to.
LEMMA AlongEnds ==
  ASSUME NEW S, NEW A, NEW step, IsStep(step, S, A), NEW from \in S,
         NEW a \in A, NEW s \in Seq(A)
  PROVE  /\ Along(step, from, <<a>> \o s) = Along(step, step[from][a], s)
         /\ Along(step, from, s \o <<a>>) = step[Along(step, from, s)][a]
<1> DEFINE one == <<a>>
<1>1. one \in Seq(A) /\ Along(step, from, one) = step[from][a]
  BY AlongOne
<1>2. Along(step, from, s) \in S
  BY AlongType
<1>3. Along(step, Along(step, from, s), one) = step[Along(step, from, s)][a]
  <2> DEFINE mid == Along(step, from, s)
  <2>1. mid \in S
    BY <1>2
  <2> HIDE DEF mid
  <2>2. Along(step, mid, one) = step[mid][a]
    BY <2>1, AlongOne
  <2> QED
    BY <2>2 DEF mid
<1> HIDE DEF one
<1>4. /\ Along(step, from, one \o s) = Along(step, Along(step, from, one), s)
      /\ Along(step, from, s \o one) = Along(step, Along(step, from, s), one)
  BY <1>1, AlongConcat
<1> QED
  BY <1>1, <1>3, <1>4 DEF one

-----------------------------------------------------------------------------
(* Replacing characters *)

Replacer(by) == [t \in Seq(Chars) |-> [c \in Chars |-> t \o by[c]]]

\* Replacing is a step on the strings written so far.
LEMMA ReplacerType ==
  ASSUME NEW by \in [Chars -> Seq(Chars)]
  PROVE  IsStep(Replacer(by), Seq(Chars), Chars)
<1>1. \A t \in Seq(Chars), c \in Chars : t \o by[c] \in Seq(Chars)
  <2> TAKE t \in Seq(Chars), c \in Chars
  <2>1. by[c] \in Seq(Chars)
    OBVIOUS
  <2> QED
    BY <2>1, ConcatProperties
<1> QED
  BY <1>1 DEF Replacer, IsStep

\* What strings.Replacer makes of a string, from its first character on.
LEMMA ReplacedFacts ==
  ASSUME NEW by \in [Chars -> Seq(Chars)]
  PROVE  /\ Replaced(by, <<>>) = <<>>
         /\ \A s \in Seq(Chars) : Replaced(by, s) \in Seq(Chars)
         /\ \A s \in Seq(Chars), c \in Chars :
               Replaced(by, Append(s, c)) = Replaced(by, s) \o by[c]
<1> DEFINE rep == Replacer(by)
<1>1. IsStep(rep, Seq(Chars), Chars) /\ <<>> \in Seq(Chars)
  BY ReplacerType, EmptySeq
<1>2. \A s : Replaced(by, s) = Along(rep, <<>>, s)
  BY DEF Replaced, Replacer
<1>3. \A t \in Seq(Chars), c \in Chars : rep[t][c] = t \o by[c]
  BY DEF Replacer
<1> HIDE DEF rep
<1>4. Along(rep, <<>>, <<>>) = <<>>
  BY AlongNothing
<1> DEFINE none == <<>>
<1>5. none \in Seq(Chars) /\ \A s : Replaced(by, s) = Along(rep, none, s)
  BY <1>1, <1>2
<1> HIDE DEF none
<1>6. ASSUME NEW s \in Seq(Chars)
      PROVE  Replaced(by, s) \in Seq(Chars)
  BY <1>1, <1>5, AlongType
<1>7. ASSUME NEW s \in Seq(Chars), NEW c \in Chars
      PROVE  Replaced(by, Append(s, c)) = Replaced(by, s) \o by[c]
  <2> DEFINE u == Append(s, c)
             r == Along(rep, none, s)
  <2>1. Along(rep, none, u) = rep[r][c]
    BY <1>1, <1>5, AlongAppend
  <2>2. r \in Seq(Chars)
    BY <1>5, <1>6
  <2>3. Replaced(by, u) = Along(rep, none, u) /\ Replaced(by, s) = r
    BY <1>5
  <2> HIDE DEF u, r
  <2>4. Replaced(by, u) = Replaced(by, s) \o by[c]
    BY <1>3, <2>1, <2>2, <2>3
  <2> QED
    BY <2>4 DEF u
<1> QED
  BY <1>2, <1>4, <1>6, <1>7

\* Where each character stands for itself, so does the string.
LEMMA ReplacedSame ==
  ASSUME NEW by \in [Chars -> Seq(Chars)], NEW D \in SUBSET Chars,
         \A c \in D : by[c] = <<c>>
  PROVE  \A s \in Seq(D) : Replaced(by, s) = s
<1> DEFINE T == {s \in Seq(D) : Replaced(by, s) = s}
<1>1. <<>> \in T
  BY ReplacedFacts, EmptySeq
<1>2. ASSUME NEW s \in Seq(D), NEW c \in D, s \in T
      PROVE  Append(s, c) \in T
  <2>1. s \in Seq(Chars) /\ c \in Chars
    BY SeqMonotonic
  <2>2. Replaced(by, Append(s, c)) = Replaced(by, s) \o <<c>>
    BY <2>1, ReplacedFacts
  <2>3. Append(s, c) = s \o <<c>> /\ Append(s, c) \in Seq(D)
    OBVIOUS
  <2> QED
    BY <1>2, <2>2, <2>3
<1> HIDE DEF T
<1>3. Seq(D) \subseteq T
  BY <1>1, <1>2, SequencesInduce
<1> QED
  BY <1>3 DEF T

\* The reader of a language, in one of the states Q, is brought back to Q by what
\* stands for a character of D, and has read that character.
Understands(reader, by, Q, D) ==
    \A st \in Reading, c \in D :
        st.in \in Q => /\ Along(reader, st, by[c]).in \in Q
                       /\ Along(reader, st, by[c]).out = Append(st.out, c)

\* Such a reader reads any string of these characters that was written so.
LEMMA ReadBack ==
  ASSUME NEW reader, IsStep(reader, Reading, Chars), NEW by \in [Chars -> Seq(Chars)],
         NEW Q \in SUBSET States, NEW D \in SUBSET Chars, Understands(reader, by, Q, D),
         NEW st \in Reading, st.in \in Q
  PROVE  \A s \in Seq(D) : /\ Along(reader, st, Replaced(by, s)) \in Reading
                           /\ Along(reader, st, Replaced(by, s)).in \in Q
                           /\ Along(reader, st, Replaced(by, s)).out = st.out \o s
<1> DEFINE At(s) == Along(reader, st, Replaced(by, s))
           T == {s \in Seq(D) : At(s).in \in Q /\ At(s).out = st.out \o s}
<1>0. st.out \in Seq(Chars)
  BY DEF Reading
<1>1. ASSUME NEW s \in Seq(D)
      PROVE  s \in Seq(Chars) /\ Replaced(by, s) \in Seq(Chars) /\ At(s) \in Reading
  <2>1. s \in Seq(Chars)
    BY SeqMonotonic
  <2>2. Replaced(by, s) \in Seq(Chars)
    BY <2>1, ReplacedFacts
  <2> QED
    BY <2>1, <2>2, AlongType
<1>2. <<>> \in T
  <2>1. At(<<>>) = st
    <3>1. Replaced(by, <<>>) = <<>>
      BY ReplacedFacts
    <3>2. Along(reader, st, <<>>) = st
      BY AlongNothing
    <3> QED
      BY <3>1, <3>2
  <2>2. st.out \o <<>> = st.out /\ <<>> \in Seq(D)
    BY <1>0, EmptySeq, ConcatEmptySeq
  <2> HIDE DEF At
  <2> QED
    BY <2>1, <2>2
<1>3. ASSUME NEW s \in Seq(D), NEW c \in D, s \in T
      PROVE  Append(s, c) \in T
  <2>1. s \in Seq(Chars) /\ Replaced(by, s) \in Seq(Chars) /\ At(s) \in Reading
    BY <1>1
  <2>2. by[c] \in Seq(Chars) /\ c \in Chars
    OBVIOUS
  <2>3. Replaced(by, Append(s, c)) = Replaced(by, s) \o by[c]
    BY <2>1, <2>2, ReplacedFacts
  <2>4. Along(reader, st, Replaced(by, s) \o by[c]) = Along(reader, At(s), by[c])
    BY <2>1, <2>2, AlongConcat
  <2>5. At(s).in \in Q /\ At(s).out = st.out \o s
    BY <1>3
  <2>6. At(Append(s, c)) = Along(reader, At(s), by[c])
    BY <2>3, <2>4
  <2> HIDE DEF At
  <2>7. /\ Along(reader, At(s), by[c]).in \in Q
        /\ Along(reader, At(s), by[c]).out = Append(At(s).out, c)
    BY <2>1, <2>5 DEF Understands
  <2>8. Append(st.out \o s, c) = st.out \o Append(s, c) /\ Append(s, c) \in Seq(D)
    <3> DEFINE o == st.out
    <3>1. o \in Seq(Chars) /\ Append(s, c) \in Seq(D)
      BY <1>0
    <3> HIDE DEF o
    <3>2. Append(o \o s, c) = o \o Append(s, c)
      BY <2>1, <2>2, <3>1, AppendConcat, Zenon
    <3> QED
      BY <3>1, <3>2 DEF o
  <2> QED
    BY <2>5, <2>6, <2>7, <2>8
<1> HIDE DEF T
<1>4. Seq(D) \subseteq T
  BY <1>2, <1>3, SequencesInduce
<1> QED
  BY <1>1, <1>4 DEF T

\* What two characters come to.
LEMMA AlongTwo ==
  ASSUME NEW S, NEW A, NEW step, IsStep(step, S, A), NEW from \in S, NEW a \in A, NEW b \in A
  PROVE  Along(step, from, <<a, b>>) = step[step[from][a]][b]
<1> DEFINE one == <<a>>
<1>1. one \in Seq(A) /\ <<a, b>> = Append(one, b) /\ Along(step, from, one) = step[from][a]
  BY AlongOne
<1> HIDE DEF one
<1>2. Along(step, from, Append(one, b)) = step[Along(step, from, one)][b]
  BY <1>1, AlongAppend
<1> QED
  BY <1>1, <1>2

-----------------------------------------------------------------------------
(* The readers *)

\* A reader that changes its state reads nothing.
LEMMA ToFacts ==
  ASSUME NEW st \in Reading, NEW to \in States
  PROVE  To(st, to) \in Reading /\ To(st, to).in = to /\ To(st, to).out = st.out
BY DEF Reading, To

\* A reader that reads a character has it after what it had.
LEMMA ReadFacts ==
  ASSUME NEW st \in Reading, NEW c \in Chars, NEW to \in States
  PROVE  /\ Read(st, c, to) \in Reading /\ Read(st, c, to).in = to
         /\ Read(st, c, to).out = Append(st.out, c)
<1>1. Append(st.out, c) \in Seq(Chars)
  <2>1. st.out \in Seq(Chars)
    BY DEF Reading
  <2> QED
    BY <2>1, AppendProperties
<1> QED
  BY <1>1 DEF Reading, Read

\* What a reader makes of one character.
LEMMA OneRead ==
  ASSUME NEW reader, IsStep(reader, Reading, Chars)
  PROVE  \A st \in Reading, c \in Chars : Along(reader, st, <<c>>) = reader[st][c]
<1> TAKE st \in Reading, c \in Chars
<1> QED
  BY AlongOne

\* Each reader has a next state for every character.
LEMMA ReadersAreSteps ==
  /\ IsStep(Conninfo, Reading, Chars)
  /\ IsStep(Shell, Reading, Chars)
  /\ IsStep(Literal, Reading, Chars)
  /\ \A mark \in Chars, plus \in Chars : IsStep(Address(mark, plus), Reading, Chars)
<1>1. \A st \in Reading, c \in Chars, to \in States :
         To(st, to) \in Reading /\ Read(st, c, to) \in Reading
  BY ToFacts, ReadFacts
<1>2. /\ {"start", "bare", "bareEscape", "quoted", "quotedEscape"} \subseteq States
      /\ {"quote", "escape", "percent", "end", "over"} \subseteq States
  BY DEF States
<1>3. IsStep(Conninfo, Reading, Chars)
  BY <1>1, <1>2 DEF IsStep, Conninfo
<1>4. IsStep(Shell, Reading, Chars)
  BY <1>1, <1>2 DEF IsStep, Shell
<1>5. IsStep(Literal, Reading, Chars)
  BY <1>1, <1>2 DEF IsStep, Literal
<1>6. \A mark \in Chars, plus \in Chars : IsStep(Address(mark, plus), Reading, Chars)
  BY <1>1, <1>2 DEF IsStep, Address
<1> QED
  BY <1>3, <1>4, <1>5, <1>6

\* Where a reader begins.
Begin == [in |-> "start", out |-> <<>>]

\* The characters the writers put in.
LEMMA CharsFacts ==
  /\ "x" \in Chars /\ " " \in Chars /\ "'" \in Chars /\ "\\" \in Chars /\ "@" \in Chars
  /\ "&" \in Chars /\ "+" \in Chars /\ "%" \in Chars /\ "$" \in Chars
BY DEF Chars

\* Strings of one and of two characters.
LEMMA ShortStrings ==
  \A a \in Chars, b \in Chars : <<a>> \in Seq(Chars) /\ <<a, b>> \in Seq(Chars)
OBVIOUS

LEMMA BeginReading == Begin \in Reading
BY DEF Begin, Reading, States

\* A libpq client reads an escaped password between quotes, and one that needs no
\* escape as it stands.
LEMMA ConninfoUnderstands ==
  ASSUME NEW by \in [Chars -> Seq(Chars)],
         \A c \in Chars : by[c] = IF c \in {"'", "\\"} THEN <<"\\", c>> ELSE <<c>>
  PROVE  Understands(Conninfo, by, {"quoted"}, Chars)
<1> SUFFICES ASSUME NEW st \in Reading, NEW c \in Chars, st.in = "quoted"
             PROVE  /\ Along(Conninfo, st, by[c]).in = "quoted"
                    /\ Along(Conninfo, st, by[c]).out = Append(st.out, c)
  BY DEF Understands
<1>1. IsStep(Conninfo, Reading, Chars)
  BY ReadersAreSteps
<1>2. "\\" \in Chars /\ {"quoted", "quotedEscape"} \subseteq States
  BY DEF Chars, States
<1>3. CASE c \in {"'", "\\"}
  <2>1. Along(Conninfo, st, by[c]) = Conninfo[Conninfo[st]["\\"]][c]
    BY <1>1, <1>2, <1>3, AlongTwo
  <2>2. Conninfo[st]["\\"] = To(st, "quotedEscape")
    BY <1>2 DEF Conninfo
  <2> DEFINE mid == To(st, "quotedEscape")
  <2>3. mid \in Reading /\ mid.in = "quotedEscape" /\ mid.out = st.out
    BY <1>2, ToFacts
  <2> HIDE DEF mid
  <2>4. Conninfo[mid][c] = Read(mid, c, "quoted")
    BY <2>3 DEF Conninfo
  <2>5. Along(Conninfo, st, by[c]) = Read(mid, c, "quoted")
    BY <2>1, <2>2, <2>4 DEF mid
  <2>6. Read(mid, c, "quoted").in = "quoted" /\ Read(mid, c, "quoted").out = Append(mid.out, c)
    BY <1>2, <2>3, ReadFacts
  <2> QED
    BY <2>3, <2>5, <2>6
<1>4. CASE c \notin {"'", "\\"}
  <2>1. Along(Conninfo, st, by[c]) = Conninfo[st][c]
    BY <1>1, <1>4, AlongOne
  <2>2. Conninfo[st][c] = Read(st, c, "quoted")
    BY <1>4 DEF Conninfo
  <2> QED
    BY <1>2, <2>1, <2>2, ReadFacts
<1> QED
  BY <1>3, <1>4

\* Without quotes, the characters that are none of conninfo's own stand for themselves.
LEMMA ConninfoBare ==
  ASSUME NEW st \in Reading, NEW c \in Chars, st.in \in {"start", "bare"},
         c \notin {"'", "\\", " ", "\t"}
  PROVE  /\ Along(Conninfo, st, <<c>>).in \in {"start", "bare"}
         /\ Along(Conninfo, st, <<c>>).out = Append(st.out, c)
<1>1. IsStep(Conninfo, Reading, Chars)
  BY ReadersAreSteps
<1>2. Along(Conninfo, st, <<c>>) = Conninfo[st][c]
  BY <1>1, OneRead, Zenon
<1>3. Conninfo[st][c] = Read(st, c, "bare")
  BY DEF Conninfo
<1>4. Read(st, c, "bare").in = "bare" /\ Read(st, c, "bare").out = Append(st.out, c)
  <2>1. "bare" \in States
    BY DEF States
  <2> QED
    BY <2>1, ReadFacts
<1> QED
  BY <1>2, <1>3, <1>4

\* So does what leaves them as they are.
LEMMA ConninfoUnderstandsBare ==
  ASSUME NEW by \in [Chars -> Seq(Chars)], NEW D \in SUBSET Chars,
         \A c \in D : by[c] = <<c>> /\ c \notin {"'", "\\", " ", "\t"}
  PROVE  Understands(Conninfo, by, {"start", "bare"}, D)
<1> SUFFICES ASSUME NEW st \in Reading, NEW c \in Chars, c \in D, st.in \in {"start", "bare"}
             PROVE  /\ Along(Conninfo, st, by[c]).in \in {"start", "bare"}
                    /\ Along(Conninfo, st, by[c]).out = Append(st.out, c)
  BY DEF Understands
<1>1. by[c] = <<c>> /\ c \notin {"'", "\\", " ", "\t"}
  OBVIOUS
<1>2. /\ Along(Conninfo, st, <<c>>).in \in {"start", "bare"}
      /\ Along(Conninfo, st, <<c>>).out = Append(st.out, c)
  BY <1>1, ConninfoBare
<1> QED
  BY <1>1, <1>2, Zenon

\* The shell reads a quoted word between quotes, and a quote outside of them.
LEMMA ShellUnderstands ==
  ASSUME NEW by \in [Chars -> Seq(Chars)],
         \A c \in Chars : by[c] = IF c = "'" THEN <<"'", "\\", "'", "'">> ELSE <<c>>
  PROVE  Understands(Shell, by, {"quoted"}, Chars)
<1> SUFFICES ASSUME NEW st \in Reading, NEW c \in Chars, st.in = "quoted"
             PROVE  /\ Along(Shell, st, by[c]).in = "quoted"
                    /\ Along(Shell, st, by[c]).out = Append(st.out, c)
  BY DEF Understands
<1>1. IsStep(Shell, Reading, Chars)
  BY ReadersAreSteps
<1>2. {"\\", "'"} \subseteq Chars /\ {"quoted", "bare", "escape"} \subseteq States
  BY DEF Chars, States
<1>3. CASE c = "'"
  <2> DEFINE out1 == To(st, "bare")
             out2 == To(out1, "escape")
             out3 == Read(out2, "'", "bare")
             out4 == To(out3, "quoted")
  <2>1. out1 \in Reading /\ out1.in = "bare" /\ out1.out = st.out
    BY <1>2, ToFacts
  <2>2. Shell[st]["'"] = out1
    BY <1>2 DEF Shell
  <2> HIDE DEF out1
  <2>3. out2 \in Reading /\ out2.in = "escape" /\ out2.out = st.out
    BY <1>2, <2>1, ToFacts
  <2>4. Shell[out1]["\\"] = out2
    BY <1>2, <2>1 DEF Shell
  <2> HIDE DEF out2
  <2>5. out3 \in Reading /\ out3.in = "bare" /\ out3.out = Append(out2.out, "'")
    BY <1>2, <2>3, ReadFacts
  <2>6. Shell[out2]["'"] = out3
    BY <1>2, <2>3 DEF Shell
  <2> HIDE DEF out3
  <2>7. out4 \in Reading /\ out4.in = "quoted" /\ out4.out = out3.out
    BY <1>2, <2>5, ToFacts
  <2>8. Shell[out3]["'"] = out4
    BY <1>2, <2>5 DEF Shell
  <2> HIDE DEF out4
  <2>9. Along(Shell, st, by[c]) = out4
    <3> DEFINE u == <<"'", "\\">>
               v == <<"'", "'">>
    <3>1. by[c] = u \o v /\ u \in Seq(Chars) /\ v \in Seq(Chars)
      BY <1>2, <1>3
    <3>2. Along(Shell, st, u) = out2
      BY <1>1, <1>2, <2>2, <2>4, AlongTwo
    <3>3. Along(Shell, out2, v) = out4
      BY <1>1, <1>2, <2>3, <2>6, <2>8, AlongTwo
    <3> HIDE DEF u, v
    <3>4. Along(Shell, st, u \o v) = Along(Shell, Along(Shell, st, u), v)
      BY <1>1, <3>1, AlongConcat
    <3> QED
      BY <3>1, <3>2, <3>3, <3>4
  <2> QED
    BY <1>3, <2>3, <2>5, <2>7, <2>9
<1>4. CASE c # "'"
  <2>1. Along(Shell, st, by[c]) = Shell[st][c]
    BY <1>1, <1>4, AlongOne
  <2>2. Shell[st][c] = Read(st, c, "quoted")
    BY <1>4 DEF Shell
  <2>3. Read(st, c, "quoted").in = "quoted" /\ Read(st, c, "quoted").out = Append(st.out, c)
    BY <1>2, ReadFacts
  <2> QED
    BY <2>1, <2>2, <2>3
<1> QED
  BY <1>3, <1>4

\* In an address the characters left alone stand for themselves, or for a blank, and
\* the others follow a percent sign.
LEMMA AddressUnderstands ==
  ASSUME NEW by \in [Chars -> Seq(Chars)], NEW mark \in Chars, NEW plus \in Chars,
         NEW Plain \in [Chars -> Chars],
         \A c \in Chars :
            \/ by[c] = Percent(c)
            \/ /\ by[c] = <<Plain[c]>> /\ Plain[c] \notin {"%", mark}
               /\ c = IF Plain[c] = "+" THEN plus ELSE Plain[c],
         mark # "%"
  PROVE  Understands(Address(mark, plus), by, {"start", "bare"}, Chars)
<1> DEFINE reader == Address(mark, plus)
<1> SUFFICES ASSUME NEW st \in Reading, NEW c \in Chars, st.in \in {"start", "bare"}
             PROVE  /\ Along(reader, st, by[c]).in \in {"start", "bare"}
                    /\ Along(reader, st, by[c]).out = Append(st.out, c)
  BY DEF Understands
<1>1. IsStep(reader, Reading, Chars)
  BY ReadersAreSteps
<1>2. "%" \in Chars /\ {"bare", "percent"} \subseteq States
  BY DEF Chars, States
<1>3. CASE by[c] = Percent(c)
  <2> DEFINE mid == To(st, "percent")
  <2>1. mid \in Reading /\ mid.in = "percent" /\ mid.out = st.out
    BY <1>2, ToFacts
  <2>2. reader[st]["%"] = mid
    BY <1>2 DEF Address
  <2> HIDE DEF mid
  <2>3. reader[mid][c] = Read(mid, c, "bare")
    BY <2>1 DEF Address
  <2>4. Along(reader, st, by[c]) = Read(mid, c, "bare")
    <3> HIDE DEF reader
    <3>1. Along(reader, st, <<"%", c>>) = reader[reader[st]["%"]][c]
      BY <1>1, <1>2, AlongTwo
    <3> QED
      BY <1>3, <2>2, <2>3, <3>1 DEF Percent
  <2>5. Read(mid, c, "bare").in = "bare" /\ Read(mid, c, "bare").out = Append(mid.out, c)
    BY <1>2, <2>1, ReadFacts
  <2> HIDE DEF reader
  <2> QED
    BY <2>1, <2>4, <2>5
<1>4. CASE /\ by[c] = <<Plain[c]>> /\ Plain[c] \notin {"%", mark}
           /\ c = IF Plain[c] = "+" THEN plus ELSE Plain[c]
  <2> DEFINE p == Plain[c]
  <2>1. p \in Chars
    OBVIOUS
  <2> HIDE DEF p
  <2>2. by[c] = <<p>> /\ p \notin {"%", mark} /\ c = IF p = "+" THEN plus ELSE p
    BY <1>4 DEF p
  <2>3. reader[st][p] = Read(st, c, "bare")
    BY <2>1, <2>2 DEF Address
  <2>4. Along(reader, st, by[c]) = Read(st, c, "bare")
    <3> HIDE DEF reader
    <3>1. Along(reader, st, <<p>>) = reader[st][p]
      BY <1>1, <2>1, AlongOne
    <3> QED
      BY <2>2, <2>3, <3>1
  <2>5. Read(st, c, "bare").in = "bare" /\ Read(st, c, "bare").out = Append(st.out, c)
    BY <1>2, ReadFacts
  <2> HIDE DEF reader
  <2> QED
    BY <2>4, <2>5
<1> HIDE DEF reader
<1> QED
  BY <1>3, <1>4

\* Postgres reads a doubled quote of a literal as one.
LEMMA LiteralUnderstands ==
  ASSUME NEW by \in [Chars -> Seq(Chars)],
         \A c \in Chars : by[c] = IF c \in {"'"} THEN <<c, c>> ELSE <<c>>
  PROVE  Understands(Literal, by, {"quoted"}, Chars)
<1> SUFFICES ASSUME NEW st \in Reading, NEW c \in Chars, st.in = "quoted"
             PROVE  /\ Along(Literal, st, by[c]).in = "quoted"
                    /\ Along(Literal, st, by[c]).out = Append(st.out, c)
  BY DEF Understands
<1>1. IsStep(Literal, Reading, Chars)
  BY ReadersAreSteps
<1>2. {"quoted", "quote"} \subseteq States
  BY DEF States
<1>3. CASE c = "'"
  <2> DEFINE mid == To(st, "quote")
  <2>1. mid \in Reading /\ mid.in = "quote" /\ mid.out = st.out
    BY <1>2, ToFacts
  <2>2. Literal[st][c] = mid
    BY <1>3 DEF Literal
  <2> HIDE DEF mid
  <2>3. Literal[mid][c] = Read(mid, c, "quoted")
    BY <1>3, <2>1 DEF Literal
  <2>4. Along(Literal, st, by[c]) = Read(mid, c, "quoted")
    <3>1. Along(Literal, st, <<c, c>>) = Literal[Literal[st][c]][c]
      BY <1>1, AlongTwo
    <3> QED
      BY <1>3, <2>2, <2>3, <3>1
  <2>5. Read(mid, c, "quoted").in = "quoted" /\ Read(mid, c, "quoted").out = Append(mid.out, c)
    BY <1>2, <2>1, ReadFacts
  <2> QED
    BY <2>1, <2>4, <2>5
<1>4. CASE c # "'"
  <2>1. Along(Literal, st, by[c]) = Literal[st][c]
    BY <1>1, <1>4, AlongOne
  <2>2. Literal[st][c] = Read(st, c, "quoted")
    BY <1>4 DEF Literal
  <2>3. Read(st, c, "quoted").in = "quoted" /\ Read(st, c, "quoted").out = Append(st.out, c)
    BY <1>2, ReadFacts
  <2> QED
    BY <2>1, <2>2, <2>3
<1> QED
  BY <1>3, <1>4

-----------------------------------------------------------------------------
(* The strings of a detail page *)

\* A sequence of characters of a set is one over that set.
LEMMA SeqOver ==
  ASSUME NEW s \in Seq(Chars), NEW D \in SUBSET Chars, \A i \in DOMAIN s : s[i] \in D
  PROVE  s \in Seq(D)
<1>1. Len(s) \in Nat /\ s \in [1..Len(s) -> Chars] /\ DOMAIN s = 1..Len(s)
  BY LenProperties
<1>2. s \in [1..Len(s) -> D]
  BY <1>1
<1> QED
  BY <1>1, <1>2, SeqDef

\* What follows an empty string is the string.
LEMMA NothingRead ==
  ASSUME NEW s \in Seq(Chars)
  PROVE  <<>> \o s = s
BY ConcatEmptySeq

\* A password between quotes, up to the one that ends it.
LEMMA BetweenQuotes ==
  ASSUME NEW reader, IsStep(reader, Reading, Chars), NEW by \in [Chars -> Seq(Chars)],
         Understands(reader, by, {"quoted"}, Chars),
         NEW q \in Chars, reader[Begin][q] = To(Begin, "quoted"),
         NEW s \in Seq(Chars)
  PROVE  \E last \in Reading :
            /\ last.in = "quoted" /\ last.out = s
            /\ Parse(reader, Within(q, Replaced(by, s))) = reader[last][q]
<1> DEFINE mid == To(Begin, "quoted")
           R == Replaced(by, s)
           last == Along(reader, mid, R)
           one == <<q>>
<1>1. mid \in Reading /\ mid.in = "quoted" /\ mid.out = <<>>
  <2>1. Begin \in Reading /\ "quoted" \in States /\ Begin.out = <<>>
    BY BeginReading DEF Begin, States
  <2> QED
    BY <2>1, ToFacts
<1>2. R \in Seq(Chars)
  BY ReplacedFacts
<1>3. last \in Reading /\ last.in = "quoted" /\ last.out = s
  <2> HIDE DEF mid
  <2>1. {"quoted"} \in SUBSET States /\ Chars \in SUBSET Chars
    BY DEF States
  <2>2. /\ Along(reader, mid, Replaced(by, s)) \in Reading
        /\ Along(reader, mid, Replaced(by, s)).in \in {"quoted"}
        /\ Along(reader, mid, Replaced(by, s)).out = mid.out \o s
    BY <1>1, <2>1, ReadBack
  <2> QED
    BY <1>1, <2>2, NothingRead
<1>4. Along(reader, Begin, one \o R) = last
  <2> HIDE DEF mid, R
  <2>1. Along(reader, Begin, <<q>> \o R) = Along(reader, reader[Begin][q], R)
    BY <1>2, BeginReading, AlongEnds
  <2> QED
    BY <2>1 DEF mid
<1>5. one \o R \in Seq(Chars)
  BY <1>2
<1>6. Along(reader, Begin, (one \o R) \o <<q>>) = reader[last][q]
  <2> DEFINE w == one \o R
  <2>1. w \in Seq(Chars) /\ Along(reader, Begin, w) = last
    BY <1>4, <1>5
  <2> HIDE DEF w, last
  <2>2. Along(reader, Begin, w \o <<q>>) = reader[Along(reader, Begin, w)][q]
    BY <2>1, BeginReading, AlongEnds
  <2> QED
    BY <2>1, <2>2 DEF w
<1>7. Parse(reader, Within(q, R)) = reader[last][q]
  BY <1>6 DEF Parse, Within, Begin
<1> QED
  BY <1>3, <1>7

\* libpq finds any password without a tab, quoted or not.
LEMMA ConninfoIsRead ==
  ASSUME NEW pw \in Seq(Chars), \A i \in DOMAIN pw : pw[i] # "\t"
  PROVE  /\ Parse(Conninfo, renderLibpq(pw)).out = pw
         /\ Parse(Conninfo, renderLibpq(pw)).in \in {"start", "bare", "end"}
<1>1. IsStep(Conninfo, Reading, Chars)
  BY ReadersAreSteps
<1>2. CASE \A i \in DOMAIN pw : pw[i] \notin {" ", "'", "\\"}
  <2> DEFINE by == [c \in Chars |-> <<c>>]
             D == Chars \ {" ", "'", "\\", "\t"}
             Q == {"start", "bare"}
  <2>1. by \in [Chars -> Seq(Chars)] /\ D \in SUBSET Chars /\ Q \in SUBSET States
    <3>1. by \in [Chars -> Seq(Chars)]
      OBVIOUS
    <3>2. Q \in SUBSET States
      BY DEF States
    <3> QED
      BY <3>1, <3>2
  <2>2. \A c \in D : by[c] = <<c>> /\ c \notin {"'", "\\", " ", "\t"}
    OBVIOUS
  <2>3. pw \in Seq(D)
    <3>1. \A i \in DOMAIN pw : pw[i] \in Chars
      BY LenProperties
    <3>2. \A i \in DOMAIN pw : pw[i] \in D
      BY <1>2, <3>1
    <3> HIDE DEF D
    <3> QED
      BY <2>1, <3>2, SeqOver
  <2>4. renderLibpq(pw) = pw
    BY <1>2 DEF renderLibpq, libpqEscape
  <2> HIDE DEF by, D
  <2>5. Understands(Conninfo, by, Q, D)
    BY <2>1, <2>2, ConninfoUnderstandsBare
  <2>6. Replaced(by, pw) = pw
    BY <2>1, <2>2, <2>3, ReplacedSame
  <2>7. Begin \in Reading /\ Begin.in \in Q /\ Begin.out = <<>>
    BY BeginReading DEF Begin
  <2> HIDE DEF Q
  <2>8. /\ Along(Conninfo, Begin, Replaced(by, pw)).in \in Q
        /\ Along(Conninfo, Begin, Replaced(by, pw)).out = Begin.out \o pw
    BY <1>1, <2>1, <2>3, <2>5, <2>7, ReadBack
  <2>9. /\ Along(Conninfo, Begin, pw).in \in Q
        /\ Along(Conninfo, Begin, pw).out = pw
    BY <2>6, <2>7, <2>8, NothingRead
  <2> QED
    BY <2>4, <2>9 DEF Parse, Begin, Q
<1>3. CASE ~ \A i \in DOMAIN pw : pw[i] \notin {" ", "'", "\\"}
  <2> DEFINE by == [c \in Chars |-> IF c \in {"'", "\\"} THEN <<"\\", c>> ELSE <<c>>]
  <2>1. by \in [Chars -> Seq(Chars)]
    <3>1. "\\" \in Chars
      BY DEF Chars
    <3> QED
      BY <3>1
  <2>2. \A c \in Chars : by[c] = IF c \in {"'", "\\"} THEN <<"\\", c>> ELSE <<c>>
    OBVIOUS
  <2>3. renderLibpq(pw) = Within("'", Replaced(by, pw))
    BY <1>3 DEF renderLibpq, libpqEscape, Escaped
  <2> HIDE DEF by
  <2>4. Understands(Conninfo, by, {"quoted"}, Chars)
    BY <2>1, <2>2, ConninfoUnderstands
  <2>5. "'" \in Chars /\ Conninfo[Begin]["'"] = To(Begin, "quoted")
    BY BeginReading DEF Begin, Chars, Conninfo
  <2>6. PICK last \in Reading :
           /\ last.in = "quoted" /\ last.out = pw
           /\ Parse(Conninfo, Within("'", Replaced(by, pw))) = Conninfo[last]["'"]
    BY <1>1, <2>1, <2>4, <2>5, BetweenQuotes
  <2>7. Conninfo[last]["'"] = To(last, "end")
    BY <2>5, <2>6 DEF Conninfo
  <2>8. To(last, "end").in = "end" /\ To(last, "end").out = last.out
    <3>1. "end" \in States
      BY DEF States
    <3> QED
      BY <3>1, ToFacts
  <2> QED
    BY <2>3, <2>6, <2>7, <2>8
<1> QED
  BY <1>2, <1>3

\* The two characters that come after.
LEMMA TwoMore ==
  ASSUME NEW reader, IsStep(reader, Reading, Chars), NEW u \in Seq(Chars),
         NEW a \in Chars, NEW b \in Chars
  PROVE  /\ Parse(reader, u) \in Reading
         /\ Parse(reader, u \o <<a, b>>) = reader[reader[Parse(reader, u)][a]][b]
<1> DEFINE mid == Along(reader, Begin, u)
           two == <<a, b>>
<1>1. Begin \in Reading
  BY BeginReading
<1>2. mid \in Reading
  BY <1>1, AlongType
<1>3. two \in Seq(Chars)
  OBVIOUS
<1>4. Along(reader, mid, two) = reader[reader[mid][a]][b]
  <2> HIDE DEF mid
  <2> QED
    BY <1>2, AlongTwo
<1>5. Along(reader, Begin, u \o two) = Along(reader, mid, two)
  <2> HIDE DEF two
  <2> QED
    BY <1>1, <1>3, AlongConcat
<1>6. Parse(reader, u) = mid /\ Parse(reader, u \o two) = Along(reader, Begin, u \o two)
  BY DEF Parse, Begin
<1> QED
  BY <1>2, <1>4, <1>5, <1>6

\* The shell finds any password as one word.
LEMMA ShellIsRead ==
  ASSUME NEW pw \in Seq(Chars)
  PROVE  /\ Parse(Shell, renderPsql(pw)).out = pw
         /\ Parse(Shell, renderPsql(pw)).in = "over"
<1> DEFINE by == [c \in Chars |-> IF c = "'" THEN <<"'", "\\", "'", "'">> ELSE <<c>>]
<1>1. by \in [Chars -> Seq(Chars)]
  <2>1. {"\\", "'"} \subseteq Chars
    BY DEF Chars
  <2> QED
    BY <2>1
<1>2. \A c \in Chars : by[c] = IF c = "'" THEN <<"'", "\\", "'", "'">> ELSE <<c>>
  OBVIOUS
<1> DEFINE word == Within("'", Replaced(by, pw))
<1>3. renderPsql(pw) = word \o <<" ", "x">>
  BY DEF renderPsql, shQuote
<1> HIDE DEF by
<1>4. IsStep(Shell, Reading, Chars) /\ Understands(Shell, by, {"quoted"}, Chars)
  BY <1>1, <1>2, ReadersAreSteps, ShellUnderstands
<1>5. "'" \in Chars /\ Shell[Begin]["'"] = To(Begin, "quoted")
  BY CharsFacts, BeginReading DEF Begin, Shell
<1>6. PICK last \in Reading : last.in = "quoted" /\ last.out = pw
                              /\ Parse(Shell, word) = Shell[last]["'"]
  BY <1>1, <1>4, <1>5, BetweenQuotes
<1>7. word \in Seq(Chars)
  <2> DEFINE R == Replaced(by, pw)
  <2>1. R \in Seq(Chars)
    BY <1>1, ReplacedFacts
  <2> HIDE DEF R
  <2>2. Within("'", R) \in Seq(Chars)
    BY <1>5, <2>1 DEF Within
  <2> QED
    BY <2>2 DEF R
<1> HIDE DEF word
<1> DEFINE closed == To(last, "bare")
           done == To(closed, "over")
<1>8. {"bare", "over"} \subseteq States
  BY DEF States
<1>9. Shell[last]["'"] = closed
  BY <1>5, <1>6 DEF Shell
<1>10. closed \in Reading /\ closed.in = "bare" /\ closed.out = pw
  BY <1>6, <1>8, ToFacts
<1> HIDE DEF closed
<1>11. Shell[closed][" "] = done
  BY CharsFacts, <1>10 DEF Shell
<1>12. done \in Reading /\ done.in = "over" /\ done.out = pw
  BY <1>8, <1>10, ToFacts
<1> HIDE DEF done
<1>13. Shell[done]["x"] = done
  BY CharsFacts, <1>12 DEF Shell
<1>14. Parse(Shell, word \o <<" ", "x">>) = Shell[Shell[Parse(Shell, word)][" "]]["x"]
  <2> DEFINE blank == " "
             next == "x"
  <2>1. blank \in Chars /\ next \in Chars
    BY CharsFacts
  <2> HIDE DEF blank, next
  <2>2. Parse(Shell, word \o <<blank, next>>) = Shell[Shell[Parse(Shell, word)][blank]][next]
    BY <1>4, <1>7, <2>1, TwoMore
  <2> QED
    BY <2>2 DEF blank, next
<1> QED
  BY <1>3, <1>6, <1>9, <1>11, <1>12, <1>13, <1>14

\* An address in which the password ends with the mark.
LEMMA AddressIsRead ==
  ASSUME NEW by \in [Chars -> Seq(Chars)], NEW mark \in Chars, NEW plus \in Chars,
         Understands(Address(mark, plus), by, {"start", "bare"}, Chars), mark # "%",
         NEW pw \in Seq(Chars)
  PROVE  /\ Parse(Address(mark, plus), Replaced(by, pw) \o <<mark, "x">>).out = pw
         /\ Parse(Address(mark, plus), Replaced(by, pw) \o <<mark, "x">>).in = "over"
<1> DEFINE reader == Address(mark, plus)
           Q == {"start", "bare"}
           R == Replaced(by, pw)
           mid == Parse(reader, R)
           done == To(mid, "over")
<1>1. IsStep(reader, Reading, Chars)
  BY ReadersAreSteps
<1>2. Q \in SUBSET States /\ "over" \in States /\ "x" \in Chars
  BY DEF States, Chars
<1>3. R \in Seq(Chars)
  BY ReplacedFacts
<1>4. Begin \in Reading /\ Begin.in \in Q /\ Begin.out = <<>>
  BY BeginReading DEF Begin
<1>5. mid = Along(reader, Begin, R)
  BY DEF Parse, Begin
<1>6. mid \in Reading /\ mid.in \in Q /\ mid.out = pw
  <2> HIDE DEF reader, Q, mid
  <2>1. Understands(reader, by, Q, Chars)
    BY DEF reader, Q
  <2>2. /\ Along(reader, Begin, Replaced(by, pw)) \in Reading
        /\ Along(reader, Begin, Replaced(by, pw)).in \in Q
        /\ Along(reader, Begin, Replaced(by, pw)).out = Begin.out \o pw
    <3>1. Chars \in SUBSET Chars
      OBVIOUS
    <3> QED
      BY <1>1, <1>2, <1>4, <2>1, <3>1, ReadBack
  <2> HIDE DEF R
  <2>3. /\ Along(reader, Begin, R) \in Reading /\ Along(reader, Begin, R).in \in Q
        /\ Along(reader, Begin, R).out = pw
    BY <1>4, <2>2, NothingRead DEF R
  <2> QED
    BY <1>5, <2>3
<1>7. reader[mid][mark] = done
  <2> HIDE DEF mid
  <2> QED
    BY <1>6 DEF Address
<1>8. done \in Reading /\ done.in = "over" /\ done.out = pw
  <2> HIDE DEF mid
  <2> QED
    BY <1>2, <1>6, ToFacts
<1>9. reader[done]["x"] = done
  <2> HIDE DEF done
  <2> QED
    BY <1>2, <1>8 DEF Address
<1> HIDE DEF reader, R, done
<1>10. Parse(reader, R \o <<mark, "x">>) = reader[reader[mid][mark]]["x"]
  BY <1>1, <1>2, <1>3, TwoMore
<1>11. Parse(reader, R \o <<mark, "x">>) = done
  BY <1>7, <1>9, <1>10
<1> QED
  BY <1>8, <1>11 DEF reader, R

\* Both kinds of address give any password back.
LEMMA AddressesAreRead ==
  ASSUME NEW pw \in Seq(Chars)
  PROVE  /\ Parse(Address("@", "+"), renderURL(pw)).out = pw
         /\ Parse(Address("@", "+"), renderURL(pw)).in = "over"
         /\ Parse(Address("&", " "), renderJDBC(pw)).out = pw
         /\ Parse(Address("&", " "), renderJDBC(pw)).in = "over"
<1>1. "@" \in Chars /\ "+" \in Chars /\ "&" \in Chars /\ " " \in Chars
  BY CharsFacts
<1>2. ASSUME NEW c \in Chars
      PROVE  Percent(c) \in Seq(Chars) /\ <<c>> \in Seq(Chars) /\ <<"+">> \in Seq(Chars)
  BY CharsFacts, ShortStrings, Zenon DEF Percent
<1>3. /\ Parse(Address("@", "+"), renderURL(pw)).out = pw
      /\ Parse(Address("@", "+"), renderURL(pw)).in = "over"
  <2> DEFINE by == [c \in Chars |-> IF c \in {"x", "&", "+", "$"} THEN <<c>> ELSE Percent(c)]
             Plain == [c \in Chars |-> c]
  <2>1. by \in [Chars -> Seq(Chars)]
    <3>1. \A c \in Chars : by[c] \in Seq(Chars)
      BY <1>2
    <3> QED
      BY <3>1
  <2>2. Plain \in [Chars -> Chars]
    OBVIOUS
  <2>3. ASSUME NEW c \in Chars
        PROVE  \/ by[c] = Percent(c)
               \/ /\ by[c] = <<Plain[c]>> /\ Plain[c] \notin {"%", "@"}
                  /\ c = IF Plain[c] = "+" THEN "+" ELSE Plain[c]
    OBVIOUS
  <2>4. renderURL(pw) = Replaced(by, pw) \o <<"@", "x">>
    BY DEF renderURL, UserPassword
  <2> HIDE DEF by, Plain
  <2>5. Understands(Address("@", "+"), by, {"start", "bare"}, Chars)
    BY <1>1, <2>1, <2>2, <2>3, AddressUnderstands
  <2>6. /\ Parse(Address("@", "+"), Replaced(by, pw) \o <<"@", "x">>).out = pw
        /\ Parse(Address("@", "+"), Replaced(by, pw) \o <<"@", "x">>).in = "over"
    <3>1. "@" \in Chars /\ "+" \in Chars /\ "@" # "%"
      BY <1>1
    <3> QED
      BY <2>1, <2>5, <3>1, AddressIsRead
  <2> QED
    BY <2>4, <2>6
<1>4. /\ Parse(Address("&", " "), renderJDBC(pw)).out = pw
      /\ Parse(Address("&", " "), renderJDBC(pw)).in = "over"
  <2> DEFINE by == [c \in Chars |-> IF c = "x" THEN <<c>>
                                    ELSE IF c = " " THEN <<"+">> ELSE Percent(c)]
             Plain == [c \in Chars |-> IF c = " " THEN "+" ELSE c]
  <2>1. by \in [Chars -> Seq(Chars)]
    <3>1. \A c \in Chars : by[c] \in Seq(Chars)
      BY <1>2
    <3> QED
      BY <3>1
  <2>2. Plain \in [Chars -> Chars]
    BY <1>1
  <2>3. ASSUME NEW c \in Chars
        PROVE  \/ by[c] = Percent(c)
               \/ /\ by[c] = <<Plain[c]>> /\ Plain[c] \notin {"%", "&"}
                  /\ c = IF Plain[c] = "+" THEN " " ELSE Plain[c]
    OBVIOUS
  <2>4. renderJDBC(pw) = Replaced(by, pw) \o <<"&", "x">>
    BY DEF renderJDBC, QueryEncode
  <2> HIDE DEF by, Plain
  <2>5. Understands(Address("&", " "), by, {"start", "bare"}, Chars)
    BY <1>1, <2>1, <2>2, <2>3, AddressUnderstands
  <2>6. /\ Parse(Address("&", " "), Replaced(by, pw) \o <<"&", "x">>).out = pw
        /\ Parse(Address("&", " "), Replaced(by, pw) \o <<"&", "x">>).in = "over"
    <3>1. "&" \in Chars /\ " " \in Chars /\ "&" # "%"
      BY <1>1
    <3> QED
      BY <2>1, <2>5, <3>1, AddressIsRead
  <2> QED
    BY <2>4, <2>6
<1> QED
  BY <1>3, <1>4

-----------------------------------------------------------------------------
(* The literals of a statement *)

\* A plain statement sets the password itself, whatever it contains.
LEMMA LiteralIsRead ==
  ASSUME NEW pw \in Seq(Chars)
  PROVE  Parse(Literal, alterRolePassword(pw)) = [in |-> "over", out |-> pw]
<1> DEFINE by == [c \in Chars |-> IF c \in {"'"} THEN <<c, c>> ELSE <<c>>]
<1>1. by \in [Chars -> Seq(Chars)]
  <2>1. \A c \in Chars : by[c] \in Seq(Chars)
    BY ShortStrings
  <2> QED
    BY <2>1
<1>2. \A c \in Chars : by[c] = IF c \in {"'"} THEN <<c, c>> ELSE <<c>>
  OBVIOUS
<1> DEFINE word == Within("'", Replaced(by, pw))
<1>3. alterRolePassword(pw) = word \o <<"x">>
  BY DEF alterRolePassword, LiteralEscape, Doubled
<1> HIDE DEF by
<1>4. IsStep(Literal, Reading, Chars) /\ Understands(Literal, by, {"quoted"}, Chars)
  BY <1>1, <1>2, ReadersAreSteps, LiteralUnderstands
<1>5. "'" \in Chars /\ Literal[Begin]["'"] = To(Begin, "quoted")
  BY CharsFacts, BeginReading DEF Begin, Literal
<1>6. PICK last \in Reading : last.in = "quoted" /\ last.out = pw
                              /\ Parse(Literal, word) = Literal[last]["'"]
  BY <1>1, <1>4, <1>5, BetweenQuotes
<1>7. word \in Seq(Chars)
  <2> DEFINE R == Replaced(by, pw)
  <2>1. R \in Seq(Chars)
    BY <1>1, ReplacedFacts
  <2> HIDE DEF R
  <2>2. Within("'", R) \in Seq(Chars)
    BY <1>5, <2>1 DEF Within
  <2> QED
    BY <2>2 DEF R
<1> HIDE DEF word
<1> DEFINE closed == To(last, "quote")
           done == To(closed, "over")
<1>8. {"quote", "over"} \subseteq States
  BY DEF States
<1>9. Literal[last]["'"] = closed
  BY <1>5, <1>6 DEF Literal
<1>10. closed \in Reading /\ closed.in = "quote" /\ closed.out = pw
  BY <1>6, <1>8, ToFacts
<1> HIDE DEF closed
<1>11. Literal[closed]["x"] = done
  BY CharsFacts, <1>10 DEF Literal
<1>12. done \in Reading /\ done.in = "over" /\ done.out = pw
  BY <1>8, <1>10, ToFacts
<1> HIDE DEF done
<1>13. done = [in |-> "over", out |-> pw]
  BY <1>12 DEF Reading
<1>14. Parse(Literal, word \o <<"x">>) = Literal[Parse(Literal, word)]["x"]
  <2> DEFINE next == "x"
  <2>1. next \in Chars
    BY CharsFacts
  <2> HIDE DEF next
  <2>2. Along(Literal, Begin, word \o <<next>>) = Literal[Along(Literal, Begin, word)][next]
    BY <1>4, <1>7, <2>1, BeginReading, AlongEnds
  <2> QED
    BY <2>2 DEF next, Parse, Begin
<1> QED
  BY <1>3, <1>6, <1>9, <1>11, <1>13, <1>14

\* A string that is not empty has a first and a last character.
LEMMA NotEmpty ==
  \A s \in Seq(Chars) : s # <<>> => 1 \in DOMAIN s /\ Len(s) \in DOMAIN s
<1> SUFFICES ASSUME NEW s \in Seq(Chars), s # <<>>
             PROVE  1 \in DOMAIN s /\ Len(s) \in DOMAIN s
  OBVIOUS
<1>1. Len(s) \in Nat \ {0} /\ DOMAIN s = 1..Len(s)
  BY EmptySeq, LenProperties
<1> QED
  BY <1>1

\* A string between two characters, position by position.
LEMMA WithinFacts ==
  ASSUME NEW q \in Chars, NEW s \in Seq(Chars)
  PROVE  /\ Within(q, s) \in Seq(Chars) /\ Within(q, s) # <<>>
         /\ Len(s) \in Nat /\ Len(Within(q, s)) = Len(s) + 2
         /\ Within(q, s)[1] = q /\ Within(q, s)[Len(s) + 2] = q
         /\ \A i \in 1..Len(s) : Within(q, s)[i + 1] = s[i]
<1> DEFINE one == <<q>>
           head == one \o s
<1>0. one \in Seq(Chars) /\ Len(one) = 1 /\ one[1] = q /\ Len(s) \in Nat
  BY LenProperties
<1> HIDE DEF one
<1>1. /\ head \in Seq(Chars) /\ Len(head) = Len(s) + 1
      /\ head[1] = q /\ \A i \in 1..Len(s) : head[i + 1] = s[i]
  <2>1. /\ head \in Seq(Chars) /\ Len(head) = Len(one) + Len(s)
        /\ \A i \in 1..(Len(one) + Len(s)) :
              head[i] = IF i <= Len(one) THEN one[i] ELSE s[i - Len(one)]
    BY <1>0, ConcatProperties
  <2> HIDE DEF head
  <2> QED
    BY <1>0, <2>1
<1> HIDE DEF head
<1>2. /\ head \o one \in Seq(Chars) /\ Len(head \o one) = Len(s) + 2
      /\ (head \o one)[Len(s) + 2] = q
      /\ \A i \in 1..(Len(s) + 1) : (head \o one)[i] = head[i]
  <2>1. /\ head \o one \in Seq(Chars) /\ Len(head \o one) = Len(head) + Len(one)
        /\ \A i \in 1..(Len(head) + Len(one)) :
              (head \o one)[i] = IF i <= Len(head) THEN head[i] ELSE one[i - Len(head)]
    BY <1>0, <1>1, ConcatProperties
  <2> QED
    BY <1>0, <1>1, <2>1
<1>3. Within(q, s) = head \o one
  BY DEF Within, head, one
<1>4. head \o one # <<>>
  <2> DEFINE w == head \o one
  <2>1. Len(w) # 0
    BY <1>0, <1>2
  <2> HIDE DEF w
  <2>2. w # <<>>
    BY <2>1, EmptySeq
  <2> QED
    BY <2>2 DEF w
<1> QED
  BY <1>0, <1>1, <1>2, <1>3, <1>4

\* Min and Max are the element that is below, or above, every other.
LEMMA MinIs ==
  ASSUME NEW K \in SUBSET Int, NEW m \in K, \A k \in K : m <= k
  PROVE  Min(K) = m
<1> DEFINE n == CHOOSE x \in K : \A y \in K : x =< y
<1>1. n \in K /\ \A y \in K : n =< y
  OBVIOUS
<1> HIDE DEF n
<1>2. n = m
  BY <1>1
<1> QED
  BY <1>2 DEF Min, n

LEMMA MaxIs ==
  ASSUME NEW K \in SUBSET Int, NEW m \in K, \A k \in K : m >= k
  PROVE  Max(K) = m
<1> DEFINE n == CHOOSE x \in K : \A y \in K : x >= y
<1>1. n \in K /\ \A y \in K : n >= y
  OBVIOUS
<1> HIDE DEF n
<1>2. n = m
  BY <1>1
<1> QED
  BY <1>2 DEF Max, n

\* strings.Trim leaves a string that neither begins nor ends with what it trims.
LEMMA TrimNothing ==
  ASSUME NEW S, NEW s \in Seq(Chars), s # <<>>, s[1] \notin S, s[Len(s)] \notin S
  PROVE  Trim(S, s) = s
<1> DEFINE kept == {i \in DOMAIN s : s[i] \notin S}
<1>1. Len(s) \in Nat \ {0} /\ DOMAIN s = 1..Len(s)
  BY EmptySeq, LenProperties
<1>2. 1 \in kept /\ Len(s) \in kept /\ kept \subseteq 1..Len(s)
  BY <1>1
<1>3. Trim(S, s) = SubSeq(s, Min(kept), Max(kept))
  BY <1>2 DEF Trim
<1> HIDE DEF kept
<1>4. Min(kept) = 1
  <2>1. kept \in SUBSET Int /\ \A k \in kept : 1 <= k
    BY <1>1, <1>2
  <2> QED
    BY <1>2, <2>1, MinIs
<1>5. Max(kept) = Len(s)
  <2>1. kept \in SUBSET Int /\ \A k \in kept : Len(s) >= k
    BY <1>1, <1>2
  <2> QED
    BY <1>2, <2>1, MaxIs
<1> QED
  BY <1>3, <1>4, <1>5, SubSeqFull

\* It takes the quotes off a string without any.
LEMMA TrimQuotes ==
  ASSUME NEW S, NEW q \in Chars, q \in S, NEW s \in Seq(Chars), \A i \in DOMAIN s : s[i] \notin S
  PROVE  Trim(S, Within(q, s)) = s
<1> DEFINE w == Within(q, s)
           n == Len(s)
           kept == {i \in DOMAIN w : w[i] \notin S}
<1>1. /\ w \in Seq(Chars) /\ n \in Nat /\ Len(w) = n + 2 /\ w[1] = q /\ w[n + 2] = q
      /\ \A i \in 1..n : w[i + 1] = s[i]
  BY WithinFacts
<1>2. DOMAIN w = 1..(n + 2) /\ DOMAIN s = 1..n
  BY <1>1, LenProperties
<1>3. Trim(S, w) = IF kept = {} THEN <<>> ELSE SubSeq(w, Min(kept), Max(kept))
  BY DEF Trim
<1> HIDE DEF w, n
<1>4. kept = 2..(n + 1)
  <2>1. ASSUME NEW i \in kept
        PROVE  i \in 2..(n + 1)
    BY <1>1, <1>2
  <2>2. ASSUME NEW i \in 2..(n + 1)
        PROVE  i \in kept
    <3>1. i - 1 \in 1..n /\ (i - 1) + 1 = i /\ i \in 1..(n + 2)
      BY <1>1
    <3> QED
      BY <1>1, <1>2, <3>1
  <2> QED
    BY <2>1, <2>2
<1> HIDE DEF kept
<1>5. CASE n = 0
  <2>1. kept = {}
    BY <1>4, <1>5
  <2>2. s = <<>>
    BY <1>5, EmptySeq DEF n
  <2> QED
    BY <1>3, <2>1, <2>2 DEF w
<1>6. CASE n # 0
  <2>1. Min(kept) = 2
    BY <1>1, <1>4, <1>6 DEF Min
  <2>2. Max(kept) = n + 1
    BY <1>1, <1>4, <1>6 DEF Max
  <2>3. kept # {}
    <3>1. 2 \in 2..(n + 1)
      BY <1>1, <1>6
    <3> QED
      BY <1>4, <3>1
  <2>4. /\ SubSeq(w, 2, n + 1) \in Seq(Chars) /\ Len(SubSeq(w, 2, n + 1)) = n
        /\ \A i \in 1..n : SubSeq(w, 2, n + 1)[i] = w[i + 1]
    <3>1. \A i \in 2..(n + 1) : w[i] \in Chars
      BY <1>1, ElementOfSeq
    <3>2. /\ SubSeq(w, 2, n + 1) \in Seq(Chars)
          /\ Len(SubSeq(w, 2, n + 1)) = IF 2 <= n + 1 THEN (n + 1) - 2 + 1 ELSE 0
          /\ \A i \in 1..((n + 1) - 2 + 1) : SubSeq(w, 2, n + 1)[i] = w[2 + i - 1]
      BY <1>1, <3>1, SubSeqProperties
    <3> QED
      BY <1>1, <1>6, <3>2
  <2> DEFINE v == SubSeq(w, 2, n + 1)
  <2>5. v \in Seq(Chars) /\ Len(v) = Len(s) /\ \A i \in 1..Len(v) : v[i] = s[i]
    BY <1>1, <2>4 DEF n
  <2> HIDE DEF v
  <2>6. v = s
    BY <2>5, SeqEqual
  <2> QED
    BY <1>3, <2>1, <2>2, <2>3, <2>6 DEF v, w
<1> QED
  BY <1>5, <1>6

\* Two strings one after the other, position by position.
LEMMA ConcatAt ==
  \A u \in Seq(Chars), v \in Seq(Chars) :
     /\ u \o v \in Seq(Chars) /\ Len(u \o v) = Len(u) + Len(v)
     /\ \A i \in 1..Len(u) : (u \o v)[i] = u[i]
     /\ \A i \in 1..Len(v) : (u \o v)[Len(u) + i] = v[i]
<1> TAKE u \in Seq(Chars), v \in Seq(Chars)
<1> DEFINE w == u \o v
<1>1. Len(u) \in Nat /\ Len(v) \in Nat
  BY LenProperties
<1>2. /\ w \in Seq(Chars) /\ Len(w) = Len(u) + Len(v)
      /\ \A i \in 1..(Len(u) + Len(v)) :
            w[i] = IF i <= Len(u) THEN u[i] ELSE v[i - Len(u)]
  BY ConcatProperties
<1> HIDE DEF w
<1>3. \A i \in 1..Len(u) : w[i] = u[i]
  BY <1>1, <1>2
<1>4. ASSUME NEW i \in 1..Len(v)
      PROVE  w[Len(u) + i] = v[i]
  <2>1. /\ Len(u) + i \in 1..(Len(u) + Len(v)) /\ ~ (Len(u) + i <= Len(u))
        /\ (Len(u) + i) - Len(u) = i
    BY <1>1
  <2> QED
    BY <1>2, <2>1
<1> QED
  BY <1>2, <1>3, <1>4 DEF w

\* What stands between two dollars and the next ends there, if it contains no two
\* dollars in a row.
LEMMA DollarsEnd ==
  ASSUME NEW w \in Seq(Chars),
         \A i \in 1..(Len(w) - 1) : ~ (w[i] = "$" /\ w[i + 1] = "$")
  PROVE  DollarQuoted(<<"$", "$">> \o w \o <<"x", "$", "$">>) = w \o <<"x">>
<1> DEFINE k == Len(w)
           two == <<"$", "$">>
           end == <<"x", "$", "$">>
           head == two \o w
           e == head \o end
           pairs == {i \in 3..(Len(e) - 1) : e[i] = "$" /\ e[i + 1] = "$"}
           x == <<"x">>
<1>1. /\ k \in Nat /\ two \in Seq(Chars) /\ end \in Seq(Chars) /\ x \in Seq(Chars)
      /\ Len(two) = 2 /\ Len(end) = 3 /\ Len(x) = 1
      /\ end[1] = "x" /\ end[2] = "$" /\ end[3] = "$" /\ x[1] = "x"
  <2>1. "x" \in Chars /\ "$" \in Chars
    BY CharsFacts
  <2>2. k \in Nat
    BY LenProperties
  <2>3. two \in Seq(Chars) /\ Len(two) = 2
    BY <2>1
  <2>4. end \in Seq(Chars) /\ Len(end) = 3 /\ end[1] = "x" /\ end[2] = "$" /\ end[3] = "$"
    BY <2>1
  <2>5. x \in Seq(Chars) /\ Len(x) = 1 /\ x[1] = "x"
    BY <2>1
  <2> QED
    BY <2>2, <2>3, <2>4, <2>5
<1> HIDE DEF two, end, x
<1>2. /\ head \in Seq(Chars) /\ Len(head) = k + 2
      /\ \A i \in 1..k : head[i + 2] = w[i]
  <2>1. /\ head \in Seq(Chars) /\ Len(head) = Len(two) + Len(w)
        /\ \A i \in 1..Len(w) : head[Len(two) + i] = w[i]
    BY <1>1, ConcatAt, Zenon
  <2> HIDE DEF head
  <2>2. ASSUME NEW i \in 1..k
        PROVE  head[i + 2] = w[i]
    <3>1. Len(two) + i = i + 2
      BY <1>1
    <3> QED
      BY <2>1, <3>1
  <2> QED
    BY <1>1, <2>1, <2>2
<1> HIDE DEF head
<1>3. /\ e \in Seq(Chars) /\ Len(e) = k + 5
      /\ \A i \in 1..k : e[i + 2] = w[i]
      /\ e[k + 3] = "x" /\ e[k + 4] = "$" /\ e[k + 5] = "$"
  <2>1. /\ e \in Seq(Chars) /\ Len(e) = Len(head) + Len(end)
        /\ \A i \in 1..Len(head) : e[i] = head[i]
        /\ \A i \in 1..Len(end) : e[Len(head) + i] = end[i]
    BY <1>1, <1>2, ConcatAt, Zenon
  <2> HIDE DEF e, k
  <2>2. e[k + 3] = end[1] /\ e[k + 4] = end[2] /\ e[k + 5] = end[3]
    <3>1. /\ 1 \in 1..Len(end) /\ 2 \in 1..Len(end) /\ 3 \in 1..Len(end)
          /\ Len(head) + 1 = k + 3 /\ Len(head) + 2 = k + 4 /\ Len(head) + 3 = k + 5
      BY <1>1, <1>2
    <3>2. /\ e[Len(head) + 1] = end[1] /\ e[Len(head) + 2] = end[2]
          /\ e[Len(head) + 3] = end[3]
      BY <2>1, <3>1
    <3> QED
      BY <3>1, <3>2
  <2>3. ASSUME NEW i \in 1..k
        PROVE  e[i + 2] = w[i]
    <3>1. i + 2 \in 1..Len(head)
      BY <1>1, <1>2
    <3> QED
      BY <1>2, <2>1, <3>1
  <2>4. Len(e) = k + 5
    BY <1>1, <1>2, <2>1
  <2> QED
    BY <1>1, <2>1, <2>2, <2>3, <2>4
<1>4. DollarQuoted(e) = SubSeq(e, 3, Min(pairs) - 1)
  BY DEF DollarQuoted
<1> HIDE DEF e, k
<1>5. pairs = {k + 4}
  <2>1. k + 4 \in pairs
    BY <1>1, <1>3
  <2>2. ASSUME NEW i \in pairs
        PROVE  i = k + 4
    <3>1. i \in 3..(k + 4) /\ e[i] = "$" /\ e[i + 1] = "$"
      <4>1. i \in 3..(Len(e) - 1) /\ e[i] = "$" /\ e[i + 1] = "$"
        OBVIOUS
      <4>2. Len(e) - 1 = k + 4
        BY <1>1, <1>3
      <4> QED
        BY <4>1, <4>2
    <3>2. CASE i <= k + 1
      <4>1. /\ i - 2 \in 1..k /\ (i - 2) + 2 = i /\ i - 1 \in 1..k /\ (i - 1) + 2 = i + 1
            /\ i - 2 \in 1..(k - 1) /\ (i - 2) + 1 = i - 1
        BY <1>1, <3>1, <3>2
      <4>2. w[i - 2] = "$" /\ w[i - 1] = "$"
        BY <1>3, <3>1, <4>1
      <4> QED
        BY <4>1, <4>2 DEF k
    <3>3. CASE i = k + 2
      BY <1>1, <1>3, <3>1, <3>3
    <3>4. CASE i = k + 3
      BY <1>1, <1>3, <3>1, <3>4
    <3> QED
      BY <1>1, <3>1, <3>2, <3>3, <3>4
  <2> QED
    BY <2>1, <2>2
<1> HIDE DEF pairs
<1>6. Min(pairs) = k + 4
  <2>1. pairs \in SUBSET Int /\ k + 4 \in pairs /\ \A y \in pairs : k + 4 <= y
    BY <1>1, <1>5
  <2> QED
    BY <2>1, MinIs
<1> DEFINE v == SubSeq(e, 3, k + 3)
           u == w \o x
<1>7. DollarQuoted(e) = v
  <2>1. Min(pairs) - 1 = k + 3
    BY <1>1, <1>6
  <2> QED
    BY <1>4, <2>1
<1>8. v \in Seq(Chars) /\ Len(v) = k + 1 /\ \A i \in 1..(k + 1) : v[i] = e[i + 2]
  <2>1. \A i \in 3..(k + 3) : e[i] \in Chars
    BY <1>1, <1>3, ElementOfSeq
  <2>2. /\ v \in Seq(Chars)
        /\ Len(v) = IF 3 <= k + 3 THEN (k + 3) - 3 + 1 ELSE 0
        /\ \A i \in 1..((k + 3) - 3 + 1) : v[i] = e[3 + i - 1]
    BY <1>1, <2>1, SubSeqProperties
  <2> HIDE DEF v
  <2> QED
    BY <1>1, <2>2
<1>9. /\ u \in Seq(Chars) /\ Len(u) = k + 1
      /\ \A i \in 1..k : u[i] = w[i]
      /\ u[k + 1] = "x"
  <2>1. /\ u \in Seq(Chars) /\ Len(u) = Len(w) + Len(x)
        /\ \A i \in 1..Len(w) : u[i] = w[i]
        /\ \A i \in 1..Len(x) : u[Len(w) + i] = x[i]
    BY <1>1, ConcatAt, Zenon
  <2> HIDE DEF u
  <2>2. 1 \in 1..Len(x)
    BY <1>1
  <2>3. u[Len(w) + 1] = x[1]
    BY <2>1, <2>2
  <2> QED
    BY <1>1, <2>1, <2>3 DEF k
<1> HIDE DEF u, v
<1>10. \A i \in 1..Len(v) : v[i] = u[i]
  <2> TAKE i \in 1..Len(v)
  <2>1. CASE i \in 1..k
    <3>1. e[i + 2] = w[i] /\ v[i] = e[i + 2] /\ u[i] = w[i]
      BY <1>1, <1>3, <1>8, <1>9, <2>1
    <3> QED
      BY <3>1
  <2>2. CASE i = k + 1
    BY <1>1, <1>3, <1>8, <1>9, <2>2
  <2> QED
    BY <1>1, <1>8, <2>1, <2>2
<1>11. v = u
  BY <1>1, <1>8, <1>9, <1>10, SeqEqual
<1> QED
  BY <1>7, <1>11 DEF e, head, two, end, u, x

\* The parser finds the password in each of the styles YAML has for it, unless there is
\* none.
LEMMA FileIsRead ==
  ASSUME NEW pw \in Seq(Chars), \A i \in DOMAIN pw : pw[i] \notin {"'", "\"", "\\", "\t"}
  PROVE  \A value \in DecryptedYAML(pw) : parseSecretPassword(value) = {pw} \ {<<>>}
<1> DEFINE blanks == {" ", "\t"}
           quotes == {"\"", "'"}
           D == Chars \ {"'", "\"", "\\", "\t"}
<1>1. D \in SUBSET Chars /\ pw \in Seq(D)
  <2>1. \A i \in DOMAIN pw : pw[i] \in Chars
    BY LenProperties
  <2>2. \A i \in DOMAIN pw : pw[i] \in D
    BY <2>1
  <2>3. D \in SUBSET Chars
    OBVIOUS
  <2> HIDE DEF D
  <2> QED
    BY <2>2, <2>3, SeqOver
<1>2. Doubled({"'"}, pw) = pw
  <2> DEFINE by == [c \in Chars |-> IF c \in {"'"} THEN <<c, c>> ELSE <<c>>]
  <2>1. by \in [Chars -> Seq(Chars)]
    <3>1. \A c \in Chars : by[c] \in Seq(Chars)
      BY ShortStrings
    <3> QED
      BY <3>1
  <2>2. \A c \in D : by[c] = <<c>>
    OBVIOUS
  <2>3. Doubled({"'"}, pw) = Replaced(by, pw)
    BY DEF Doubled
  <2> HIDE DEF by, D
  <2> QED
    BY <1>1, <2>1, <2>2, <2>3, ReplacedSame
<1>3. Escaped({"\"", "\\", "\t"}, pw) = pw
  <2> DEFINE by == [c \in Chars |-> IF c \in {"\"", "\\", "\t"} THEN <<"\\", c>> ELSE <<c>>]
  <2>1. by \in [Chars -> Seq(Chars)]
    <3>1. \A c \in Chars : by[c] \in Seq(Chars)
      <4> DEFINE slash == "\\"
      <4>1. slash \in Chars
        BY CharsFacts
      <4> HIDE DEF slash
      <4>2. \A c \in Chars : <<slash, c>> \in Seq(Chars) /\ <<c>> \in Seq(Chars)
        BY <4>1, ShortStrings
      <4> QED
        BY <4>2 DEF slash
    <3> QED
      BY <3>1
  <2>2. \A c \in D : by[c] = <<c>>
    OBVIOUS
  <2>3. Escaped({"\"", "\\", "\t"}, pw) = Replaced(by, pw)
    BY DEF Escaped
  <2> HIDE DEF by, D
  <2> QED
    BY <1>1, <2>1, <2>2, <2>3, ReplacedSame
<1>4. ASSUME NEW q \in quotes
      PROVE  parseSecretPassword(Within(q, pw)) = {pw} \ {<<>>}
  <2>1. q \in Chars /\ q \notin blanks
    BY DEF Chars
  <2>2. \A i \in DOMAIN pw : pw[i] \notin quotes
    OBVIOUS
  <2> DEFINE w == Within(q, pw)
  <2>3. w \in Seq(Chars) /\ w # <<>> /\ w[1] = q /\ w[Len(w)] = q
    <3>1. /\ w \in Seq(Chars) /\ Len(pw) \in Nat /\ Len(w) = Len(pw) + 2
          /\ w[1] = q /\ w[Len(pw) + 2] = q
      BY <2>1, WithinFacts
    <3>2. w # <<>>
      BY <2>1, WithinFacts, Zenon
    <3> QED
      BY <3>1, <3>2
  <2> HIDE DEF blanks, quotes
  <2>4. Trim(quotes, w) = pw
    BY <2>1, <2>2, TrimQuotes
  <2> HIDE DEF w
  <2>5. Trim(blanks, w) = w
    BY <2>1, <2>3, TrimNothing
  <2> QED
    BY <2>4, <2>5 DEF parseSecretPassword, blanks, quotes, w
<1>5. ASSUME PlainYAML(pw)
      PROVE  parseSecretPassword(pw) = {pw} \ {<<>>}
  <2>1. pw # <<>> /\ pw[1] \notin blanks /\ pw[Len(pw)] \notin blanks
    BY <1>5 DEF PlainYAML
  <2>2. pw[1] \notin quotes /\ pw[Len(pw)] \notin quotes
    <3>1. 1 \in DOMAIN pw /\ Len(pw) \in DOMAIN pw
      BY <2>1, NotEmpty, Zenon
    <3> QED
      BY <3>1
  <2> HIDE DEF blanks, quotes
  <2>3. Trim(blanks, pw) = pw /\ Trim(quotes, pw) = pw
    BY <2>1, <2>2, TrimNothing
  <2> QED
    BY <2>3 DEF parseSecretPassword, blanks, quotes
<1> QED
  BY <1>2, <1>3, <1>4, <1>5 DEF DecryptedYAML

-----------------------------------------------------------------------------

PasswordTypeOK == password \in Seq(Chars)

\* The password is a string, and stays what it is.
LEMMA PasswordTypeInvariant == PasswordSpec => []PasswordTypeOK
<1>1. PasswordInit => PasswordTypeOK
  <2> SUFFICES ASSUME NEW n \in 0..MaxPassword, password \in [1..n -> Chars]
               PROVE  password \in Seq(Chars)
    BY DEF PasswordInit, PasswordTypeOK
  <2>1. n \in Nat
    BY MaxPasswordAssumption
  <2> QED
    BY <2>1, SeqDef
<1>2. PasswordTypeOK /\ [UNCHANGED password]_password => PasswordTypeOK'
  BY DEF PasswordTypeOK
<1> QED
  BY <1>1, <1>2, PTL DEF PasswordSpec

\* What the detail page shows of a password, in a connection string for libpq, a command
\* line of the shell or an address, is read as that password, whatever its length; one
\* with a tab is excepted for libpq.  The .env block is not among these formats.
THEOREM StringsAreRead == PasswordSpec => []StringsRead
<1>1. PasswordTypeOK => StringsRead
  <2> SUFFICES ASSUME PasswordTypeOK
               PROVE  StringsRead
    OBVIOUS
  <2>1. password \in Seq(Chars)
    BY DEF PasswordTypeOK
  <2>2. ConninfoReads
    BY <2>1, ConninfoIsRead DEF ConninfoReads, Has
  <2>3. ShellReads
    BY <2>1, ShellIsRead DEF ShellReads
  <2>4. AddressesRead
    BY <2>1, AddressesAreRead DEF AddressesRead
  <2> QED
    BY <2>2, <2>3, <2>4 DEF StringsRead
<1> QED
  BY <1>1, PasswordTypeInvariant, PTL

\* Within the DO block of ensureRole stands the literal that a plain statement has.
LEMMA BlockIsRead ==
  ASSUME NEW pw \in Seq(Chars), \A i \in DOMAIN pw : pw[i] # "'",
         \A i \in 1..(Len(pw) - 1) : ~ (pw[i] = "$" /\ pw[i + 1] = "$")
  PROVE  DollarQuoted(ensureRole(pw)) = alterRolePassword(pw)
<1> DEFINE w == Within("'", pw)
           n == Len(pw)
<1>1. LiteralEscape(pw) = pw
  <2> DEFINE by == [c \in Chars |-> IF c \in {"'"} THEN <<c, c>> ELSE <<c>>]
             D == Chars \ {"'"}
  <2>1. by \in [Chars -> Seq(Chars)]
    <3>1. \A c \in Chars : by[c] \in Seq(Chars)
      BY ShortStrings
    <3> QED
      BY <3>1
  <2>2. (\A c \in D : by[c] = <<c>>) /\ D \in SUBSET Chars
    OBVIOUS
  <2>3. pw \in Seq(D)
    <3>1. \A i \in DOMAIN pw : pw[i] \in Chars
      BY LenProperties
    <3>2. \A i \in DOMAIN pw : pw[i] \in D
      BY <3>1
    <3> HIDE DEF D
    <3> QED
      BY <2>2, <3>2, SeqOver
  <2>4. LiteralEscape(pw) = Replaced(by, pw)
    BY DEF LiteralEscape, Doubled
  <2> HIDE DEF by, D
  <2> QED
    BY <2>1, <2>2, <2>3, <2>4, ReplacedSame
<1>2. /\ w \in Seq(Chars) /\ n \in Nat /\ Len(w) = n + 2 /\ w[1] = "'" /\ w[n + 2] = "'"
      /\ \A i \in 1..n : w[i + 1] = pw[i]
  <2> DEFINE q == "'"
  <2>1. q \in Chars
    BY CharsFacts
  <2> HIDE DEF q
  <2>2. /\ Within(q, pw) \in Seq(Chars) /\ Len(pw) \in Nat
        /\ Len(Within(q, pw)) = Len(pw) + 2
        /\ Within(q, pw)[1] = q /\ Within(q, pw)[Len(pw) + 2] = q
        /\ \A i \in 1..Len(pw) : Within(q, pw)[i + 1] = pw[i]
    BY <2>1, WithinFacts
  <2> QED
    BY <2>2 DEF q
<1>3. ASSUME NEW i \in 1..(Len(w) - 1)
      PROVE  ~ (w[i] = "$" /\ w[i + 1] = "$")
  <2> HIDE DEF w
  <2>1. i \in 1..(n + 1)
    BY <1>2
  <2>2. CASE i = 1
    BY <1>2, <2>2
  <2>3. CASE i = n + 1
    <3>1. w[i + 1] = "'"
      BY <1>2, <2>3
    <3> QED
      BY <3>1
  <2>4. CASE i \in 2..n
    <3>1. i - 1 \in 1..n /\ (i - 1) + 1 = i /\ i \in 1..n /\ i - 1 \in 1..(n - 1)
      BY <1>2, <2>4
    <3>2. w[i] = pw[i - 1] /\ w[i + 1] = pw[(i - 1) + 1]
      BY <1>2, <3>1
    <3> QED
      BY <3>1, <3>2 DEF n
  <2> QED
    BY <1>2, <2>1, <2>2, <2>3, <2>4
<1>4. /\ ensureRole(pw) = <<"$", "$">> \o w \o <<"x", "$", "$">>
      /\ alterRolePassword(pw) = w \o <<"x">>
  BY <1>1 DEF ensureRole, alterRolePassword
<1> HIDE DEF w
<1> QED
  BY <1>2, <1>3, <1>4, DollarsEnd

\* A password in a SOPS file is the one the role gets, whichever style the file has, for
\* passwords of any length without the characters FileReachesRole excepts; an empty one
\* is refused.  A plain statement sets any password as it is.
THEOREM FilesReachRole == PasswordSpec => []FileReachesRole
<1>1. PasswordTypeOK => FileReachesRole
  <2> SUFFICES ASSUME PasswordTypeOK
               PROVE  FileReachesRole
    OBVIOUS
  <2> DEFINE special == Has("'") \/ Has("\"") \/ Has("\\") \/ Has("\t")
             twoDollars == \E i \in 1..(Len(password) - 1) :
                              password[i] = "$" /\ password[i + 1] = "$"
  <2>1. password \in Seq(Chars)
    BY DEF PasswordTypeOK
  <2>2. Parse(Literal, alterRolePassword(password)) = [in |-> "over", out |-> password]
    BY <2>1, LiteralIsRead
  <2>3. ASSUME ~ special, ~ twoDollars, NEW value \in DecryptedYAML(password)
        PROVE  {Parse(Literal, DollarQuoted(ensureRole(pw))) : pw \in parseSecretPassword(value)}
                  = IF password = <<>> THEN {} ELSE {[in |-> "over", out |-> password]}
    <3>1. \A i \in DOMAIN password : password[i] \notin {"'", "\"", "\\", "\t"}
      BY <2>3 DEF Has
    <3>2. parseSecretPassword(value) = {password} \ {<<>>}
      BY <2>1, <3>1, FileIsRead
    <3>3. /\ \A i \in DOMAIN password : password[i] # "'"
          /\ \A i \in 1..(Len(password) - 1) : ~ (password[i] = "$" /\ password[i + 1] = "$")
      BY <2>3, <3>1
    <3>4. DollarQuoted(ensureRole(password)) = alterRolePassword(password)
      BY <2>1, <3>3, BlockIsRead
    <3>5. CASE password = <<>>
      <4>1. parseSecretPassword(value) = {}
        BY <3>2, <3>5
      <4> QED
        BY <3>5, <4>1
    <3>6. CASE password # <<>>
      <4>1. parseSecretPassword(value) = {password}
        BY <3>2, <3>6
      <4>2. Parse(Literal, DollarQuoted(ensureRole(password)))
               = [in |-> "over", out |-> password]
        BY <2>2, <3>4
      <4> QED
        BY <3>6, <4>1, <4>2
    <3> QED
      BY <3>5, <3>6
  <2> QED
    BY <2>2, <2>3 DEF FileReachesRole
<1> QED
  BY <1>1, PasswordTypeInvariant, PTL

================================================================================
