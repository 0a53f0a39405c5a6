----------------------------- MODULE TenantGitOps -----------------------------
(***************************************************************************)
(* TenantVerbs inside the control loops its comments rely on.  The         *)
(* operator of the portal commits the workspace; a GitOps controller (an   *)
(* Argo CD in credentials.go) applies what was committed: the decrypted    *)
(* Secrets, and the Cluster resource with its managed roles; CNPG sets the *)
(* password of each managed role to its Secret's.  The loops run at any    *)
(* time, between any two calls of a verb, and none of them is in this      *)
(* repository: what they do is taken from rotate.go, provision.go and the  *)
(* README, which say why the verbs write what they write.                  *)
(***************************************************************************)
EXTENDS TenantVerbs

VARIABLES
    committed,  \* the SOPS files and the role list in the last commit
    managed     \* the managed roles of the Cluster resource in Kubernetes

gvars == <<vars, committed, managed>>

GInit ==
    /\ Init
    /\ committed = [file |-> file, roles |-> {}]
    /\ managed = {}

\* "git commit && git push", with a cluster.yaml that parses.
Commit ==
    /\ manifest \notin Unreadable
    /\ committed' = [file |-> file, roles |-> manifest]
    /\ UNCHANGED <<vars, managed>>

\* The controller brings a Secret back to what is committed.
SyncSecret(n) ==
    /\ committed.file[n] \notin {None, secret[n]}
    /\ WriteSecret(n, committed.file[n])
    /\ UNCHANGED <<file, role, db, grants, manifest, gen, pc, local, committed, managed>>

SyncCluster ==
    /\ managed # committed.roles
    /\ managed' = committed.roles
    /\ UNCHANGED <<vars, committed>>

\* CNPG creates the managed role, or sets its password.
ReconcileRole(t) ==
    /\ t \in managed
    /\ secret[SecretNameOf[t]] # None
    /\ role[t] # secret[SecretNameOf[t]].pw
    /\ role' = [role EXCEPT ![t] = secret[SecretNameOf[t]].pw]
    /\ UNCHANGED <<file, secret, db, grants, manifest, gen, pc, fresh, local,
                   committed, managed>>

Controllers ==
    \/ \E n \in SecretNames : SyncSecret(n)
    \/ SyncCluster
    \/ \E t \in Tenants : ReconcileRole(t)

GNext ==
    \/ Next /\ UNCHANGED <<committed, managed>>
    \/ Commit
    \/ Controllers

\* The controllers run for ever, in their own processes.  Nothing obliges
\* anybody to start a verb, to finish one, or to commit.
GSpec ==
    /\ GInit
    /\ [][GNext]_gvars
    /\ \A n \in SecretNames : WF_gvars(SyncSecret(n))
    /\ WF_gvars(SyncCluster)
    /\ \A t \in Tenants : WF_gvars(ReconcileRole(t))

-----------------------------------------------------------------------------
(* Properties *)

Quiet == \A p \in Procs : pc[p] = "idle"

\* No verb runs any more and the workspace, with t in it, is what is committed.
Settled(t) ==
    /\ Quiet
    /\ manifest \notin Unreadable
    /\ t \in manifest
    /\ committed = [file |-> file, roles |-> manifest]

InAgreement(t) ==
    /\ file[SecretNameOf[t]] # None
    /\ secret[SecretNameOf[t]] = file[SecretNameOf[t]]
    /\ role[t] = file[SecretNameOf[t]].pw

\* "The cluster always ends up with the role password matching the in-cluster
\* Secret" (rotate.go), and both match the SOPS file: whichever calls failed
\* and however the controllers cut in, committing a workspace that lists the
\* tenant and leaving it alone brings the three together.
Converges == \A t \in Tenants : <>[]Settled(t) => <>[]InAgreement(t)

\* In the last commit the tenant has neither a file nor a managed role.
Unlisted(t) == committed.file[SecretNameOf[t]] = None /\ t \notin committed.roles

\* Between DROP ROLE and the commit of the edited manifest CNPG still manages the
\* role and may create it again, and the GitOps controller its Secret.  Once a
\* workspace without the tenant is committed for good, a re-run of Drop repairs
\* that: as long as every verb ends, from some time on every Drop that succeeds
\* without company leaves nothing.
DropSettles ==
    \A t \in Tenants :
        <>[]Unlisted(t) /\ (\A p \in Procs : []<>(pc[p] = "idle")) =>
            <>[](\A p \in Procs : Succeeded(p, "drop") /\ app[p] = t => Gone(t))

\* A commit may hold an older password than the stores, never a stranger's:
\* what the controllers bring back stays with its tenant.
CommittedIsolation ==
    \A t \in Tenants :
        LET c == committed.file[SecretNameOf[t]]
        IN  c # None => c.user = t /\ c.pw.for = t
=============================================================================
