----------------------------- MODULE MCTenantVerbs -----------------------------
(* Small instances of TenantVerbs.                                         *)
EXTENDS TenantVerbs, TLC

CONSTANTS a, b, na, nb

\* The usual case: the two tenants' Secrets have different names.
DistinctSecretName == (a :> na) @@ (b :> nb)

\* Two tenants IdentSafe accepts, and the name the code gives their Secrets.
Names == INSTANCE CredentialNames
           WITH Letters <- {"a", "b"}, Digits <- {}, NameLimit <- 63, MaxApp <- 4, MaxPrefix <- 0,
                w1 <- <<>>, w2 <- <<>>, t1 <- <<>>, t2 <- <<>>
AppUnderscoreB == <<"a", "_", "b">>
AppTwoUnderscoresB == <<"a", "_", "_", "b">>
UnderscoreTenants == {AppUnderscoreB, AppTwoUnderscoresB}
UnderscoreSecretName == [t \in UnderscoreTenants |-> Names!SecretName(<<>>, t)]
UnderscoreSecretNames == {UnderscoreSecretName[t] : t \in UnderscoreTenants}

\* How many passwords each tenant may be given.
LopsidedGen == (a :> 3) @@ (b :> 0)
UnevenGen == (a :> 2) @@ (b :> 1)
UnderscoreGen == [t \in UnderscoreTenants |-> 1]

\* Processes run the same code: exchanging two of them changes nothing.
ProcSymmetry == Permutations(Procs)
=============================================================================
