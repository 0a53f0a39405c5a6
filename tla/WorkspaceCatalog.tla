--------------------------- MODULE WorkspaceCatalog ---------------------------
(***************************************************************************)
(* The marker file of a workspace, the catalog of clusters the portal      *)
(* reads from it, and the two users of the catalog: the server, which      *)
(* builds its registry once when it starts, and the command line, which    *)
(* resolves --cluster anew for every command (internal/workspace,          *)
(* internal/web/clusters.go, cmd/cnpgctl/deps.go).  A setting is here what *)
(* the code tells apart: whether it is set, and whether it is fit for use. *)
(***************************************************************************)
EXTENDS Naturals, FiniteSets

CONSTANTS
    Labels,         \* cluster IDs that validClusterID accepts
    OddIds,         \* keys of "clusters" that it does not
    Root,           \* the directory "/", where the search for a marker ends
    Here,           \* a directory below it, where commands are given
    Markers,        \* the markers an operator may have written Here
    RootMarkers,    \* those there may be in the directory above
    None            \* no marker, no configuration, no workspace, or an error

Ids == Labels \cup OddIds
DefaultClusterID == "default"

ASSUME IdsAssumption == "" \notin Labels /\ DefaultClusterID \in Labels
ASSUME DirsAssumption == Root # Here

\* pod: unset, named like <cluster>-<index>, or otherwise.  A path is unset, below
\* the root of the workspace, absolute, or leads out of it.
Configs ==
    [pod : {"", "indexed", "plain"}, cluster_name : {"", "set"},
     service_name : {"", "set"}, cluster_yaml : {"", "inside", "absolute", "outside"},
     secrets_dir : {"", "inside", "absolute", "outside"},
     secret_prefix : {"", "label", "other"}]

\* flat holds the settings at the top level, clusters those under "clusters",
\* any of which may be left empty.
IsMarker(m) ==
    /\ DOMAIN m = {"flat", "default_cluster", "clusters"}
    /\ m.flat \in Configs
    /\ m.default_cluster \in Ids \cup {""}
    /\ DOMAIN m.clusters \subseteq Ids
    /\ IsFiniteSet(DOMAIN m.clusters)
    /\ m.clusters \in [DOMAIN m.clusters -> Configs \cup {None}]

ASSUME MarkersAssumption == \A m \in Markers \cup RootMarkers : IsMarker(m)

\* What defaults, the catalog, the resolution of a cluster ID and the registry give.
Workspaces ==
    [pod : {"", "indexed", "plain"}, cluster_name : {"", "set", "trimmed"},
     service_name : {"", "set", "trimmed"},
     cluster_yaml : {"", "inside", "absolute", "outside"},
     secrets_dir : {"", "inside", "absolute", "outside"},
     secret_prefix : {"", "label", "other"}]
Catalogs ==
    [DefaultCluster : Labels, Clusters : UNION {[I -> Workspaces] : I \in SUBSET Labels}]
Targets == [ID : Labels, Workspace : Workspaces]
Registries == [Default : Labels, Targets : UNION {[I -> Targets] : I \in SUBSET Labels}]

ASSUME NoneAssumption ==
    /\ None \notin Configs /\ None \notin Markers \cup RootMarkers
    /\ None \notin Catalogs /\ None \notin Targets /\ None \notin Registries

-----------------------------------------------------------------------------
(* From the marker to the catalog *)

\* "secrets/pg" is inside; postgres-main-1 gives postgres-main.
applyDefaults(c) ==
    LET name == IF c.cluster_name = "" /\ c.pod = "indexed" THEN "trimmed"
                                                            ELSE c.cluster_name
    IN  [c EXCEPT !.secrets_dir = IF @ = "" THEN "inside" ELSE @,
                  !.cluster_name = name,
                  !.service_name = IF @ = "" THEN name ELSE @]

\* Mutant of validateRelativePath: only absolute paths are refused.
validateRelativePathAbs(value, file) == value # "absolute" /\ (file => value # "")

validateRelativePath(value, file) == value = "inside" \/ (value = "" /\ ~file)

validateWorkspace(w) ==
    /\ validateRelativePath(w.cluster_yaml, TRUE)
    /\ validateRelativePath(w.secrets_dir, FALSE)
    /\ w.pod # ""
    /\ w.cluster_name # ""
    /\ w.service_name # ""
    /\ w.secret_prefix \in {"", "label"}

Only(S) == CHOOSE x \in S : TRUE

\* default_cluster may be left out when there is one cluster.
DefaultOf(m) ==
    IF m.default_cluster = "" /\ Cardinality(DOMAIN m.clusters) = 1
      THEN Only(DOMAIN m.clusters)
      ELSE m.default_cluster

\* Mutant of Loads: that the default is declared is left to the registry.
LoadsUndeclared(m) ==
    /\ DefaultOf(m) # ""
    /\ \A id \in DOMAIN m.clusters :
           /\ id \in Labels
           /\ m.clusters[id] # None
           /\ validateWorkspace(applyDefaults(m.clusters[id]))

Loads(m) ==
    /\ DefaultOf(m) # ""
    /\ \A id \in DOMAIN m.clusters :
           /\ id \in Labels
           /\ m.clusters[id] # None
           /\ validateWorkspace(applyDefaults(m.clusters[id]))
    /\ DefaultOf(m) \in DOMAIN m.clusters

\* The legacy marker has no "clusters": its one target is not validated.
LoadFlat(m) ==
    [DefaultCluster |-> DefaultClusterID,
     Clusters |-> [id \in {DefaultClusterID} |-> applyDefaults(m.flat)]]

loadCatalog(m) ==
    IF m = None THEN None
    ELSE IF DOMAIN m.clusters = {} THEN LoadFlat(m)
    ELSE IF Loads(m)
      THEN [DefaultCluster |-> DefaultOf(m),
            Clusters |-> [id \in DOMAIN m.clusters |-> applyDefaults(m.clusters[id])]]
    ELSE None

\* The directory --workspace names, else $CNPG_PORTAL_WORKSPACE, else the nearest
\* one above the current directory that has a marker.
DirOf(marks, flag, env) ==
    IF flag # "" THEN flag
    ELSE IF env # "" THEN env
    ELSE IF marks[Here] # None THEN Here ELSE Root

FindCatalog(marks, flag, env) == loadCatalog(marks[DirOf(marks, flag, env)])

\* Mutant of Select: an unknown ID means the default.
SelectLenient(catalog, id) ==
    LET chosen == IF id \in DOMAIN catalog.Clusters THEN id ELSE catalog.DefaultCluster
    IN  [ID |-> chosen, Workspace |-> catalog.Clusters[chosen]]

\* The ID and the workspace: two clusters may have equal settings.
Select(catalog, id) ==
    LET chosen == IF id = "" THEN catalog.DefaultCluster ELSE id
    IN  IF chosen \in DOMAIN catalog.Clusters
          THEN [ID |-> chosen, Workspace |-> catalog.Clusters[chosen]] ELSE None

\* What a command works on: --cluster, else $CNPG_PORTAL_CLUSTER, else the default.
FindCluster(catalog, clusterID, env) ==
    IF catalog = None THEN None
    ELSE Select(catalog, IF clusterID = "" THEN env ELSE clusterID)

-----------------------------------------------------------------------------
(* The registry of the server *)

NewClusterRegistry(default, targets) ==
    LET ids == {t.ID : t \in targets}
        chosen == IF default = "" /\ Cardinality(ids) = 1 THEN Only(ids) ELSE default
    IN  IF "" \notin ids /\ Cardinality(ids) = Cardinality(targets) /\ chosen \in ids
          THEN [Default |-> chosen,
                Targets |-> [id \in ids |-> Only({t \in targets : t.ID = id})]]
          ELSE None

\* Select("") is never called: no key of a loaded catalog is empty.
buildClusterRegistry(catalog) ==
    IF catalog = None THEN None
    ELSE NewClusterRegistry(catalog.DefaultCluster,
                            {Select(catalog, id) : id \in DOMAIN catalog.Clusters})

-----------------------------------------------------------------------------
(* Every workspace within the bounds *)

VARIABLES
    marker,     \* the marker in each directory
    override,   \* --workspace
    wsEnv       \* $CNPG_PORTAL_WORKSPACE

cvars == <<marker, override, wsEnv>>

Dirs == {Root, Here}

CatalogInit ==
    /\ \E m \in Markers \cup {None}, r \in RootMarkers \cup {None} :
           marker = [d \in Dirs |-> IF d = Here THEN m ELSE r]
    /\ override \in Dirs \cup {""}
    /\ wsEnv \in Dirs \cup {""}

\* Nothing the catalog is read from changes while it is used.
CatalogSpec == CatalogInit /\ [][UNCHANGED cvars]_cvars

-----------------------------------------------------------------------------
(* Properties *)

Catalog == FindCatalog(marker, override, wsEnv)
Registry == buildClusterRegistry(Catalog)

\* Whenever the commands have a catalog the server has a registry, and "/" leads to
\* the cluster a command without --cluster works on: the default is worked out in
\* loadCatalog, in Select and again in NewClusterRegistry.
ServerStarts ==
    Catalog # None =>
        /\ Registry # None
        /\ Registry.Targets[Registry.Default] = FindCluster(Catalog, "", "")

\* "cnpgctl --cluster <id>", which every detail page prints, works on the cluster
\* that /clusters/<id>/ shows, whatever $CNPG_PORTAL_CLUSTER says; an ID without a
\* page is an error there too and never means the default.
CommandsAgree ==
    Registry # None =>
        \A id \in Ids \ {""}, env \in Ids \cup {""} :
            FindCluster(Catalog, id, env) =
                IF id \in DOMAIN Registry.Targets THEN Registry.Targets[id] ELSE None

\* A target a verb is run on has a pod, a Cluster and a Service, and its files are in
\* the workspace.  The legacy marker, which is not validated, is excepted.
TargetsUsable ==
    Registry # None =>
        \A id \in DOMAIN Registry.Targets :
            LET w == Registry.Targets[id].Workspace IN
            \/ DOMAIN marker[DirOf(marker, override, wsEnv)].clusters = {}
            \/ /\ "" \notin {w.pod, w.cluster_name, w.service_name, w.cluster_yaml}
               /\ w.cluster_yaml = "inside" /\ w.secrets_dir = "inside"
===============================================================================
