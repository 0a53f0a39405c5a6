---------------------------- MODULE CredentialNames ----------------------------
(***************************************************************************)
(* The names the portal makes out of a tenant's: of its Secret and SOPS    *)
(* file, of a recovery cluster, of a Backup, and of the branch it proposes.*)
(* Names are sequences of characters; the constant suffix "-pg-credentials"*)
(* is left out, and so are lower-casing and white space, which no accepted *)
(* name contains.  Other constant parts are shortened, with the limit of   *)
(* 63 characters.                                                          *)
(***************************************************************************)
EXTENDS Naturals, Sequences, FiniteSets

CONSTANTS
    Letters, Digits,    \* the characters of names, beside "_" and "-"
    NameLimit,          \* the longest name Postgres and Kubernetes accept: 63
    MaxApp, MaxPrefix   \* bounds: lengths of tenant names and prefixes

Alnum == Letters \cup Digits

\* A recovery cluster's name has room for one character of the tenant's.
ASSUME CharactersAssumption == Letters # {} /\ Alnum \cap {"_", "-"} = {}
ASSUME LimitAssumption == NameLimit \in Nat /\ NameLimit >= 5
ASSUME BoundsAssumption == MaxApp \in Nat /\ MaxPrefix \in Nat

\* pg.IdentSafe: what every verb requires of a tenant's name.
IdentSafe(s) ==
    /\ s # <<>>
    /\ Len(s) <= NameLimit
    /\ s[1] \in Letters
    /\ \A i \in DOMAIN s : s[i] \in Alnum \cup {"_"}

\* validClusterID, which validateWorkspace applies to secret_prefix; Kubernetes
\* asks the same of the names of objects.
ValidClusterID(s) ==
    /\ s # <<>>
    /\ Len(s) <= NameLimit
    /\ s[1] # "-" /\ s[Len(s)] # "-"
    /\ \A i \in DOMAIN s : s[i] \in Alnum \cup {"-"}

Hyphenated(s) == [i \in DOMAIN s |-> IF s[i] = "_" THEN "-" ELSE s[i]]

\* The characters of s at the positions in K, in their order.
Kept(s, K) ==
    [k \in 1..Cardinality(K) |-> s[CHOOSE i \in K : Cardinality(K \cap (1..i)) = k]]

DnsChars(s) == Kept(s, {i \in DOMAIN s : s[i] \in Alnum \cup {"-"}})

\* Of a run of hyphens the first stays.
Collapsed(s) == Kept(s, {i \in DOMAIN s : s[i] = "-" /\ i > 1 => s[i - 1] # "-"})

\* Mutant of Trimmed: only the front is trimmed.
TrimmedLeft(s) == Kept(s, {i \in DOMAIN s : \E j \in 1..i : s[j] # "-"})

Trimmed(s) ==
    Kept(s, {i \in DOMAIN s : /\ \E j \in 1..i : s[j] # "-"
                              /\ \E j \in i..Len(s) : s[j] # "-"})

\* Mutant of dns1123Basename: underscores are stripped like other characters.
dns1123Stripped(app) == Trimmed(Collapsed(DnsChars(app)))

dns1123Basename(app) ==
    LET s == Trimmed(Collapsed(DnsChars(Hyphenated(app))))
    IN  IF s = <<>> THEN <<"a", "p", "p">> ELSE s

\* Mutant of SecretName: prefix and name are joined without a hyphen.
SecretNameJoined(prefix, app) == dns1123Basename(prefix) \o dns1123Basename(app)

\* The empty prefix is no prefix.
SecretName(prefix, app) ==
    IF prefix = <<>>
      THEN dns1123Basename(app)
      ELSE dns1123Basename(prefix) \o <<"-">> \o dns1123Basename(app)

Letter == CHOOSE c \in Letters : TRUE
Cut(s, n) == SubSeq(s, 1, IF Len(s) < n THEN Len(s) ELSE n)

\* "pg-restore-" and four digits of the clock, which keep restores apart.
RecoveryPrefix == <<Letter, "-">>
RecoverySuffix == <<"-", Letter>>

\* Mutant of RecoveryClusterName: only underscores are replaced, and nothing is cut.
RecoveryClusterNameWhole(app) ==
    RecoveryPrefix \o Hyphenated(app) \o RecoverySuffix

\* The tenant's part is cut so that the whole fits; a cut may end in a hyphen.
RecoveryClusterName(app) ==
    LET room == NameLimit - Len(RecoveryPrefix) - Len(RecoverySuffix)
    IN  RecoveryPrefix \o Cut(dns1123Basename(app), IF room < 1 THEN 1 ELSE room)
            \o RecoverySuffix

\* "ondemand-<triggeredBy>-<seconds>": triggeredBy is the argument of
\* "cnpgctl backup", as it was typed.
TriggerName(triggeredBy) == <<Letter, "-">> \o triggeredBy \o <<"-", Letter>>

\* Mutant of Underscored: hyphens stay, as in the name of a Secret.
UnderscoredNot(src) == src

Underscored(src) == [i \in DOMAIN src |-> IF src[i] = "-" THEN "_" ELSE src[i]]

\* src with "_dev", or with a shorter suffix if that is no identifier; what must
\* go to make room goes from the end of src.
BranchSuffixes == <<<<"_", Letter, Letter>>, <<"_", Letter>>>>

DefaultBranchDestination(src) ==
    LET Named(i) == Cut(Underscored(src), NameLimit - Len(BranchSuffixes[i]))
                        \o BranchSuffixes[i]
    IN  IF IdentSafe(Named(1)) THEN Named(1) ELSE Named(2)

-----------------------------------------------------------------------------
(* Every pair of workspaces and of tenants within the bounds *)

VARIABLES w1, w2,   \* the secret_prefix of two workspaces that share a namespace
          t1, t2    \* a tenant of each

Apps == {s \in UNION {[1..n -> Alnum \cup {"_"}] : n \in 1..MaxApp} : IdentSafe(s)}
SecretPrefixes ==
    {<<>>} \cup
    {s \in UNION {[1..n -> Alnum \cup {"-"}] : n \in 1..MaxPrefix} : ValidClusterID(s)}

Init == w1 \in SecretPrefixes /\ w2 \in SecretPrefixes /\ t1 \in Apps /\ t2 \in Apps
Next == UNCHANGED <<w1, w2, t1, t2>>
Spec == Init /\ [][Next]_<<w1, w2, t1, t2>>

-----------------------------------------------------------------------------
(* Properties *)

\* Kubernetes accepts it: the rules of a DNS-1123 label, its length apart.
ValidObjectName(n) ==
    /\ n # <<>>
    /\ n[1] # "-" /\ n[Len(n)] # "-"
    /\ \A i \in DOMAIN n : n[i] \in Alnum \cup {"-"}

\* Kubernetes accepts the names the portal gives to Secrets and recovery clusters,
\* whatever the tenant is called, and a recovery cluster's is short enough for the
\* labels CNPG puts it in.  Only "cnpgctl backup" hands the tenant's name on as it was
\* typed, so that no tenant with an underscore has a Backup named after it.
NamesValid ==
    /\ ValidObjectName(SecretName(w1, t1))
    /\ ValidObjectName(RecoveryClusterName(t1))
    /\ Len(RecoveryClusterName(t1)) <= NameLimit
    /\ ValidObjectName(TriggerName(t1)) \/ \E i \in DOMAIN t1 : t1[i] = "_"

\* The name the branch form proposes is one BranchTenantSubmit accepts, for hyphenated
\* databases too: an identifier, and not the source's.  Only a source of the
\* greatest length that ends in the suffix already is proposed to itself.
BranchDefaultAccepted ==
    \A src \in {t1, Hyphenated(t1)} :
        LET dst == DefaultBranchDestination(src)
        IN  /\ IdentSafe(dst)
            /\ dst = src => Len(src) = NameLimit

\* A name the normalisation does not shorten.
Canonical(app) ==
    /\ app[Len(app)] # "_"
    /\ \A i \in 1..(Len(app) - 1) : app[i] = "_" => app[i + 1] # "_"

\* Label p is q, or q followed by further hyphenated parts.
Extends(p, q) == p = q \/ (Len(p) > Len(q) /\ SubSeq(p, 1, Len(q) + 1) = q \o <<"-">>)

\* In one workspace two tenants share a Secret only if one of them ends in an
\* underscore or doubles one: the code does not reject such names, and nothing
\* else keeps a Provision from reusing the password of the other tenant.
TenantsSeparate ==
    Canonical(t1) /\ Canonical(t2) /\ t1 # t2 => SecretName(w1, t1) # SecretName(w1, t2)

\* secret_prefix keeps the Secrets of two workspaces in one namespace apart
\* when neither normalised prefix extends the other.  Merely different prefixes
\* are not enough (a-b and a--b, or x beside a workspace without one that has a
\* tenant x_a), and loadCatalog compares them nowhere.
WorkspacesSeparate ==
    LET own == dns1123Basename(w1)
        other == dns1123Basename(w2)
    IN  w1 # <<>> /\ w2 # <<>> /\ ~Extends(own, other) /\ ~Extends(other, own)
            => SecretName(w1, t1) # SecretName(w2, t2)

\* No Secret is shared by two tenants, within a workspace or between two, as long as
\* their names and prefixes are such.
SecretsSeparate == TenantsSeparate /\ WorkspacesSeparate

=============================================================================
