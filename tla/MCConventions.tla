----------------------------- MODULE MCConventions -----------------------------
(***************************************************************************)
(* The conventions of a workspace, checked over bounded inputs: every pair *)
(* of prefixes and tenant names of CredentialNames, every workspace of     *)
(* WorkspaceCatalog, and every password of Quoting.  Only one of the three *)
(* varies in a state.                                                      *)
(***************************************************************************)
EXTENDS CredentialNames, WorkspaceCatalog, Quoting

CONSTANTS id1, id2, odd     \* cluster IDs: two labels, and no label

\* The settings the README gives for a small workspace, and three others.
Minimal == [pod |-> "indexed", cluster_name |-> "", service_name |-> "",
            cluster_yaml |-> "inside", secrets_dir |-> "", secret_prefix |-> ""]
Full == [pod |-> "plain", cluster_name |-> "set", service_name |-> "set",
         cluster_yaml |-> "inside", secrets_dir |-> "inside", secret_prefix |-> "label"]
Podless == [Full EXCEPT !.pod = ""]
Blank == [Minimal EXCEPT !.pod = "", !.cluster_yaml = ""]

\* One cluster, or the legacy marker, with any settings.
OneCluster ==
    {[flat |-> c, default_cluster |-> d, clusters |-> [id \in I |-> c]] :
        c \in Configs, d \in {"", id1}, I \in {{}, {id1}}}

\* Several clusters, and any default.
Several ==
    {[flat |-> Blank, default_cluster |-> d, clusters |-> f] :
        d \in Ids \cup {""},
        f \in UNION {[I -> {Minimal, Full, Podless, None}] : I \in SUBSET {id1, id2, odd}}}

HereMarkers == OneCluster \cup Several
AboveMarkers == {[flat |-> Blank, default_cluster |-> id2,
                  clusters |-> [id \in {id1, id2} |-> Full]]}

SomeApp == <<CHOOSE c \in Letters : TRUE>>
NoMarker == [d \in Dirs |-> None]

NoNames == w1 = <<>> /\ w2 = <<>> /\ t1 = SomeApp /\ t2 = SomeApp
NoMarkers == marker = NoMarker /\ override = "" /\ wsEnv = ""

MCInit ==
    \/ CatalogInit /\ NoNames /\ password = <<>>
    \/ PasswordInit /\ NoNames /\ NoMarkers
    \/ Init /\ NoMarkers /\ password = <<>>

MCNext == Next /\ UNCHANGED cvars /\ UNCHANGED password
MCSpec == MCInit /\ [][MCNext]_<<w1, w2, t1, t2, cvars, password>>
================================================================================
