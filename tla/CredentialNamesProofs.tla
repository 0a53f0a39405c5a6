------------------------- MODULE CredentialNamesProofs -------------------------
(***************************************************************************)
(* Proofs about CredentialNames: for any alphabet, any limit and names and *)
(* prefixes of any length, the names the portal makes are accepted by what *)
(* they are for, and those of different tenants are different.             *)
(*                                                                         *)
(* dns1123Basename works in stages each of which keeps some positions of   *)
(* its argument; Kept picks the k-th of them, and RankFacts shows there is *)
(* one for every k, by counting.  For a canonical name every stage keeps   *)
(* everything, which makes the name of the Secret invertible.              *)
(***************************************************************************)
EXTENDS CredentialNames, SequenceTheorems, FiniteSetTheorems, TLAPS

-----------------------------------------------------------------------------
(* Choosing positions of a sequence *)

Rank(K, i) == Cardinality(K \cap (1..i))

\* The positions in a set are numbered from 1 without gaps, in their order: Kept,
\* which picks the k-th, is defined for every k.
LEMMA RankFacts ==
  ASSUME NEW n \in Nat, NEW K \in SUBSET (1..n)
  PROVE  /\ IsFiniteSet(K) /\ Cardinality(K) \in Nat /\ Cardinality(K) <= n
         /\ \A i \in K : Rank(K, i) \in 1..Cardinality(K)
         /\ \A i, j \in K : i < j => Rank(K, i) < Rank(K, j)
         /\ \A k \in 1..Cardinality(K) : \E i \in K : Rank(K, i) = k
<1>1. /\ IsFiniteSet(K) /\ Cardinality(K) \in Nat /\ Cardinality(K) <= n
  <2>1. IsFiniteSet(1..n) /\ Cardinality(1..n) = n
    BY FS_Interval
  <2> QED BY <2>1, FS_Subset, FS_CardinalityType
<1>2. ASSUME NEW i \in K
      PROVE  /\ IsFiniteSet(K \cap (1..i))
             /\ Rank(K, i) \in 1..Cardinality(K) /\ Rank(K, i) \in Nat
  <2>1. IsFiniteSet(K \cap (1..i)) /\ Rank(K, i) <= Cardinality(K)
    <3>1. K \cap (1..i) \in SUBSET K
      OBVIOUS
    <3> QED BY <1>1, <3>1, FS_Subset DEF Rank
  <2>2. Rank(K, i) \in Nat
    BY <2>1, FS_CardinalityType DEF Rank
  <2>3. Rank(K, i) # 0
    <3>1. i \in K \cap (1..i)
      OBVIOUS
    <3> QED BY <2>1, <3>1, FS_EmptySet DEF Rank
  <2> QED BY <1>1, <2>1, <2>2, <2>3
<1>3. ASSUME NEW i \in K, NEW j \in K, i < j
      PROVE  Rank(K, i) < Rank(K, j)
  <2>1. K \cap (1..i) \in SUBSET (K \cap (1..j))
    BY <1>3
  <2>2. Rank(K, i) <= Rank(K, j) /\ (Rank(K, j) = Rank(K, i) => K \cap (1..j) = K \cap (1..i))
    BY <2>1, <1>2, FS_Subset DEF Rank
  <2>3. j \in K \cap (1..j) /\ j \notin K \cap (1..i)
    BY <1>3
  <2>4. Rank(K, i) \in Nat /\ Rank(K, j) \in Nat
    BY <1>2
  <2> QED BY <2>2, <2>3, <2>4
<1>4. ASSUME NEW k \in 1..Cardinality(K)
      PROVE  \E i \in K : Rank(K, i) = k
  <2> DEFINE N == 1..Cardinality(K)
             f == [i \in K |-> Rank(K, i)]
  <2>1. IsFiniteSet(N) /\ Cardinality(N) = Cardinality(K)
    BY <1>1, FS_Interval
  <2>2. f \in [K -> N]
    BY <1>2
  <2>3. \A i, j \in K : f[i] = f[j] => i = j
    <3> SUFFICES ASSUME NEW i \in K, NEW j \in K, Rank(K, i) = Rank(K, j), i # j
                 PROVE  FALSE
      OBVIOUS
    <3>1. i < j \/ j < i
      OBVIOUS
    <3>2. Rank(K, i) \in Nat /\ Rank(K, j) \in Nat
      BY <1>2
    <3> QED BY <1>3, <3>1, <3>2
  <2>4. f \in Injection(K, N)
    BY <2>2, <2>3 DEF Injection, IsInjective
  <2>5. f \in Surjection(K, N)
    BY <2>1, <2>4, FS_Injection
  <2> QED BY <2>5 DEF Surjection
<1> QED BY <1>1, <1>2, <1>3, <1>4

\* Kept(s, K) has one character for each position in K.
LEMMA KeptFacts ==
  ASSUME NEW S, NEW s \in Seq(S), NEW K \in SUBSET DOMAIN s
  PROVE  /\ Kept(s, K) \in Seq(S)
         /\ Len(Kept(s, K)) = Cardinality(K)
         /\ Len(Kept(s, K)) <= Len(s)
         /\ \A k \in 1..Cardinality(K) :
                \E i \in K : Rank(K, i) = k /\ Kept(s, K)[k] = s[i]
<1> DEFINE n == Len(s)
<1>1. n \in Nat /\ K \in SUBSET (1..n) /\ \A i \in K : s[i] \in S
  OBVIOUS
<1>2. /\ Cardinality(K) \in Nat /\ Cardinality(K) <= n
      /\ \A k \in 1..Cardinality(K) : \E i \in K : Rank(K, i) = k
  BY <1>1, RankFacts
<1>3. DOMAIN Kept(s, K) = 1..Cardinality(K)
  BY DEF Kept
<1>4. ASSUME NEW k \in 1..Cardinality(K)
      PROVE  \E i \in K : Rank(K, i) = k /\ Kept(s, K)[k] = s[i]
  <2> DEFINE i == CHOOSE x \in K : Rank(K, x) = k
  <2>1. i \in K /\ Rank(K, i) = k
    BY <1>2, Zenon
  <2>2. Kept(s, K)[k] = s[i]
    BY DEF Kept, Rank
  <2> QED BY <2>1, <2>2, Zenon
<1>5. Kept(s, K) = [k \in 1..Cardinality(K) |-> Kept(s, K)[k]]
  BY DEF Kept
<1>6. \A k \in 1..Cardinality(K) : Kept(s, K)[k] \in S
  BY <1>1, <1>4
<1>7. Kept(s, K) \in [1..Cardinality(K) -> S]
  BY <1>5, <1>6
<1> HIDE DEF n
<1>8. Kept(s, K) \in Seq(S) /\ Len(Kept(s, K)) = Cardinality(K)
  BY <1>2, <1>7, <1>3
<1> QED BY <1>2, <1>4, <1>8 DEF n

\* The first character stays first when its position is kept, and the last kept
\* position gives the last.
LEMMA KeptEnds ==
  ASSUME NEW S, NEW s \in Seq(S), NEW K \in SUBSET DOMAIN s, K # {}
  PROVE  /\ Kept(s, K) # <<>>
         /\ 1 \in K => Kept(s, K)[1] = s[1]
         /\ \E i \in K : (\A j \in K : j <= i) /\ Kept(s, K)[Len(Kept(s, K))] = s[i]
<1> DEFINE n == Len(s)
           c == Cardinality(K)
<1>1. n \in Nat /\ K \in SUBSET (1..n)
  OBVIOUS
<1>2. /\ IsFiniteSet(K) /\ c \in Nat
      /\ \A i, j \in K : i < j => Rank(K, i) < Rank(K, j)
      /\ \A i \in K : Rank(K, i) \in 1..c /\ Rank(K, i) \in Nat
  BY <1>1, RankFacts
<1>3. c # 0
  BY <1>2, FS_EmptySet
<1>4. /\ Kept(s, K) \in Seq(S) /\ Len(Kept(s, K)) = c
      /\ \A k \in 1..c : \E i \in K : Rank(K, i) = k /\ Kept(s, K)[k] = s[i]
  BY KeptFacts
<1> HIDE DEF n, c
<1>5. ASSUME 1 \in K PROVE Kept(s, K)[1] = s[1]
  <2>1. PICK i \in K : Rank(K, i) = 1 /\ Kept(s, K)[1] = s[i]
    BY <1>2, <1>3, <1>4
  <2>2. ~(1 < i)
    <3>1. Rank(K, 1) \in 1..c
      BY <1>2, <1>5
    <3> QED BY <1>2, <1>5, <2>1, <3>1
  <2>3. i = 1
    BY <1>1, <2>2
  <2> QED BY <2>1, <2>3
<1>6. \E i \in K : (\A j \in K : j <= i) /\ Kept(s, K)[c] = s[i]
  <2>1. PICK i \in K : Rank(K, i) = c /\ Kept(s, K)[c] = s[i]
    BY <1>2, <1>3, <1>4
  <2>2. ASSUME NEW j \in K, ~(j <= i) PROVE FALSE
    <3>1. i < j
      BY <1>1, <2>2
    <3>2. Rank(K, i) < Rank(K, j) /\ Rank(K, j) \in 1..c
      BY <1>2, <3>1
    <3> QED BY <1>2, <2>1, <3>2
  <2> QED BY <2>1, <2>2
<1> QED BY <1>2, <1>3, <1>4, <1>5, <1>6

\* Nothing changes when every position is kept.
LEMMA KeptAll ==
  ASSUME NEW S, NEW s \in Seq(S)
  PROVE  Kept(s, DOMAIN s) = s
<1> DEFINE n == Len(s)
           K == 1..n
<1>1. n \in Nat /\ DOMAIN s = K
  OBVIOUS
<1>2. Cardinality(K) = n
  BY <1>1, FS_Interval
<1>3. ASSUME NEW i \in K PROVE Rank(K, i) = i
  <2>1. K \cap (1..i) = 1..i
    BY <1>1
  <2>2. i \in Int /\ 1 \in Int /\ ~(1 > i) /\ i - 1 + 1 = i
    BY <1>1
  <2>3. Cardinality(1..i) = i
    BY <2>2, FS_Interval
  <2> QED BY <2>1, <2>3 DEF Rank
<1>4. /\ Kept(s, K) \in Seq(S) /\ Len(Kept(s, K)) = n
      /\ \A k \in 1..n : \E i \in K : Rank(K, i) = k /\ Kept(s, K)[k] = s[i]
  BY <1>1, <1>2, KeptFacts
<1>5. \A k \in 1..n : Kept(s, K)[k] = s[k]
  BY <1>3, <1>4
<1> HIDE DEF n, K
<1>6. Kept(s, K) = s
  BY <1>4, <1>5, SeqEqual DEF n
<1> QED BY <1>1, <1>6

-----------------------------------------------------------------------------
(* The names of objects *)

NameChars == Alnum \cup {"_", "-"}
LabelChars == Alnum \cup {"-"}

\* Neither separator is a letter or a digit.
LEMMA Separators == "_" \notin Alnum /\ "-" \notin Alnum
<1>1. \A c \in {"_", "-"} : c \notin Alnum
  BY CharactersAssumption, Zenon
<1> QED BY <1>1, Zenon

\* What Hyphenated, DnsChars and Collapsed make of a name that begins with a letter or
\* a digit, as every tenant's and every prefix does.
LEMMA StagesFacts ==
  ASSUME NEW s \in Seq(NameChars), s # <<>>, s[1] \in Alnum
  PROVE  /\ Hyphenated(s) \in Seq(LabelChars) /\ Len(Hyphenated(s)) = Len(s)
         /\ DnsChars(Hyphenated(s)) = Hyphenated(s)
         /\ Collapsed(Hyphenated(s)) \in Seq(LabelChars)
         /\ Collapsed(Hyphenated(s)) # <<>>
         /\ Collapsed(Hyphenated(s))[1] \in Alnum
<1> DEFINE h == Hyphenated(s)
           K == {i \in DOMAIN h : h[i] = "-" /\ i > 1 => h[i - 1] # "-"}
<1>1. /\ DOMAIN s = 1..Len(s) /\ Len(s) \in Nat /\ Len(s) # 0
      /\ \A i \in 1..Len(s) : s[i] \in NameChars
  OBVIOUS
<1>2. /\ DOMAIN h = 1..Len(s)
      /\ \A i \in 1..Len(s) : h[i] = IF s[i] = "_" THEN "-" ELSE s[i]
  BY <1>1 DEF Hyphenated
<1>3. \A i \in 1..Len(s) : h[i] \in LabelChars
  BY <1>1, <1>2 DEF NameChars, LabelChars
<1>4. h = [i \in 1..Len(s) |-> h[i]]
  BY <1>1 DEF Hyphenated
<1> HIDE DEF h
<1>5. h \in Seq(LabelChars) /\ Len(h) = Len(s)
  <2>1. h \in [1..Len(s) -> LabelChars]
    BY <1>3, <1>4
  <2>2. PICK n \in Nat : n = Len(s)
    BY <1>1
  <2>3. h \in [1..n -> LabelChars]
    BY <2>1, <2>2
  <2>4. h \in Seq(LabelChars) /\ Len(h) = n
    BY <2>2, <2>3
  <2> QED BY <2>2, <2>4
<1>6. 1 \in DOMAIN h /\ h[1] = s[1] /\ h[1] \in Alnum
  <2>1. 1 \in 1..Len(s)
    BY <1>1
  <2>2. s[1] # "_"
    BY Separators
  <2> QED BY <1>2, <2>1, <2>2
<1>7. {i \in DOMAIN h : h[i] \in LabelChars} = DOMAIN h
  BY <1>2, <1>3
<1>8. DnsChars(h) = h
  BY <1>5, <1>7, KeptAll DEF DnsChars, LabelChars
<1>9. K \in SUBSET DOMAIN h /\ 1 \in K
  BY <1>6
<1>10. Collapsed(h) = Kept(h, K)
  BY DEF Collapsed
<1> HIDE DEF K
<1>11. Collapsed(h) \in Seq(LabelChars)
  BY <1>5, <1>9, <1>10, KeptFacts
<1>12. Collapsed(h) # <<>> /\ Collapsed(h)[1] = h[1]
  BY <1>5, <1>9, <1>10, KeptEnds
<1> QED BY <1>5, <1>6, <1>8, <1>11, <1>12 DEF h

\* Trimmed leaves a name without a hyphen at either end.
LEMMA TrimmedFacts ==
  ASSUME NEW s \in Seq(LabelChars), s # <<>>, s[1] \in Alnum
  PROVE  /\ Trimmed(s) \in Seq(LabelChars) /\ Trimmed(s) # <<>>
         /\ Trimmed(s)[1] = s[1]
         /\ Trimmed(s)[Len(Trimmed(s))] # "-"
<1> DEFINE K == {i \in DOMAIN s : /\ \E j \in 1..i : s[j] # "-"
                                  /\ \E j \in i..Len(s) : s[j] # "-"}
<1>1. Trimmed(s) = Kept(s, K)
  BY DEF Trimmed
<1>2. Len(s) \in Nat /\ Len(s) # 0 /\ DOMAIN s = 1..Len(s) /\ s[1] # "-"
  <2>1. s[1] # "-"
    BY Separators
  <2> QED BY <2>1
<1>3. K \in SUBSET DOMAIN s
  OBVIOUS
<1>4. 1 \in K
  BY <1>2
<1>5. \A i \in K : (\A j \in K : j <= i) => s[i] # "-"
  <2> SUFFICES ASSUME NEW i \in K, s[i] = "-" PROVE \E j \in K : ~(j <= i)
    OBVIOUS
  <2>1. PICK j \in i..Len(s) : s[j] # "-"
    OBVIOUS
  <2>2. i \in 1..Len(s) /\ j \in 1..Len(s) /\ j > i
    BY <1>2, <2>1
  <2>3. j \in 1..j /\ j \in j..Len(s) /\ j \in DOMAIN s
    BY <1>2, <2>2
  <2>4. j \in K
    BY <2>1, <2>3
  <2> QED BY <2>2, <2>4
<1> HIDE DEF K
<1>6. Kept(s, K) \in Seq(LabelChars)
  BY <1>3, KeptFacts
<1>7. /\ Kept(s, K) # <<>> /\ Kept(s, K)[1] = s[1]
      /\ \E i \in K : (\A j \in K : j <= i) /\ Kept(s, K)[Len(Kept(s, K))] = s[i]
  BY <1>3, <1>4, KeptEnds
<1> QED BY <1>1, <1>5, <1>6, <1>7

\* Kubernetes accepts what dns1123Basename makes of such a name.
LEMMA BasenameFacts ==
  ASSUME NEW s \in Seq(NameChars), s # <<>>, s[1] \in Alnum
  PROVE  /\ dns1123Basename(s) \in Seq(LabelChars) /\ dns1123Basename(s) # <<>>
         /\ dns1123Basename(s)[1] \in Alnum
         /\ dns1123Basename(s)[Len(dns1123Basename(s))] # "-"
<1> DEFINE b == Trimmed(Collapsed(DnsChars(Hyphenated(s))))
<1>1. DnsChars(Hyphenated(s)) = Hyphenated(s)
  BY StagesFacts
<1>2. /\ b \in Seq(LabelChars) /\ b # <<>> /\ b[1] \in Alnum /\ b[Len(b)] # "-"
  BY <1>1, StagesFacts, TrimmedFacts
<1> HIDE DEF b
<1>3. dns1123Basename(s) = b
  BY <1>2 DEF dns1123Basename, b
<1> QED BY <1>2, <1>3

LEMMA FunctionIsSeq ==
  ASSUME NEW S, NEW n \in Nat, NEW f \in [1..n -> S]
  PROVE  f \in Seq(S) /\ Len(f) = n
OBVIOUS

\* What is known of a tenant's name, and of a prefix.
LEMMA AppFacts ==
  ASSUME NEW t \in Apps
  PROVE  /\ t \in Seq(Alnum \cup {"_"}) /\ t \in Seq(NameChars) /\ t # <<>>
         /\ Len(t) <= NameLimit /\ t[1] \in Letters /\ t[1] \in Alnum
<1>1. PICK n \in 1..MaxApp : t \in [1..n -> Alnum \cup {"_"}]
  BY DEF Apps
<1>2. n \in Nat
  BY BoundsAssumption
<1>3. IdentSafe(t)
  BY DEF Apps
<1>4. t \in Seq(Alnum \cup {"_"})
  BY <1>1, <1>2, FunctionIsSeq
<1>5. t \in Seq(NameChars)
  BY <1>4, SeqMonotonic DEF NameChars
<1> QED BY <1>3, <1>4, <1>5 DEF IdentSafe, Alnum

LEMMA PrefixFacts ==
  ASSUME NEW w \in SecretPrefixes, w # <<>>
  PROVE  w \in Seq(NameChars) /\ w[1] \in Alnum
<1>1. ValidClusterID(w) /\ \E n \in 1..MaxPrefix : w \in [1..n -> Alnum \cup {"-"}]
  BY DEF SecretPrefixes
<1>2. PICK n \in 1..MaxPrefix : w \in [1..n -> Alnum \cup {"-"}]
  BY <1>1
<1>3. n \in Nat /\ 1 \in 1..n
  BY BoundsAssumption
<1>4. w \in Seq(NameChars)
  <2>1. w \in Seq(Alnum \cup {"-"})
    BY <1>2, <1>3, FunctionIsSeq
  <2> QED BY <2>1, SeqMonotonic DEF NameChars
<1>5. w[1] \in Alnum
  BY <1>1, <1>2, <1>3 DEF ValidClusterID
<1> QED BY <1>4, <1>5

\* A part with a character after it.
LEMMA AppendedFacts ==
  ASSUME NEW S, NEW p \in Seq(S), NEW c \in S
  PROVE  /\ p \o <<c>> \in Seq(S) /\ Len(p \o <<c>>) = Len(p) + 1
         /\ \A i \in 1..Len(p) : (p \o <<c>>)[i] = p[i]
         /\ (p \o <<c>>)[Len(p) + 1] = c
<1>1. <<c>> \in Seq(S) /\ Len(<<c>>) = 1 /\ Len(p) \in Nat
  OBVIOUS
<1>2. /\ p \o <<c>> \in Seq(S) /\ Len(p \o <<c>>) = Len(p) + 1
      /\ \A i \in 1..(Len(p) + 1) :
             (p \o <<c>>)[i] = IF i <= Len(p) THEN p[i] ELSE <<c>>[i - Len(p)]
  BY <1>1, ConcatProperties
<1>3. (p \o <<c>>)[Len(p) + 1] = <<c>>[1]
  BY <1>1, <1>2
<1> QED BY <1>1, <1>2, <1>3

\* Two parts and a character between them.
LEMMA JoinFacts ==
  ASSUME NEW S, NEW p \in Seq(S), NEW q \in Seq(S), NEW c \in S, p # <<>>
  PROVE  /\ p \o <<c>> \o q \in Seq(S) /\ p \o <<c>> \o q # <<>>
         /\ Len(p \o <<c>> \o q) = Len(p) + 1 + Len(q)
         /\ (p \o <<c>> \o q)[1] = p[1]
         /\ q # <<>> => (p \o <<c>> \o q)[Len(p) + 1 + Len(q)] = q[Len(q)]
         /\ \A i \in 1..Len(p) : (p \o <<c>> \o q)[i] = p[i]
         /\ (p \o <<c>> \o q)[Len(p) + 1] = c
<1> DEFINE pc == p \o <<c>>
<1>1. /\ pc \in Seq(S) /\ Len(pc) = Len(p) + 1
      /\ \A i \in 1..(Len(p) + 1) : pc[i] = IF i <= Len(p) THEN p[i] ELSE <<c>>[i - Len(p)]
  <2>1. <<c>> \in Seq(S) /\ Len(<<c>>) = 1
    OBVIOUS
  <2> QED BY <2>1, ConcatProperties
<1> HIDE DEF pc
<1>2. /\ pc \o q \in Seq(S) /\ Len(pc \o q) = Len(p) + 1 + Len(q)
      /\ \A i \in 1..(Len(p) + 1 + Len(q)) :
             (pc \o q)[i] = IF i <= Len(p) + 1 THEN pc[i] ELSE q[i - (Len(p) + 1)]
  <2>1. /\ pc \o q \in Seq(S) /\ Len(pc \o q) = Len(pc) + Len(q)
        /\ \A i \in 1..(Len(pc) + Len(q)) :
               (pc \o q)[i] = IF i <= Len(pc) THEN pc[i] ELSE q[i - Len(pc)]
    <3>1. pc \in Seq(S)
      BY <1>1
    <3> QED BY <3>1, ConcatProperties
  <2> QED BY <1>1, <2>1
<1>3. Len(p) \in Nat /\ Len(q) \in Nat /\ Len(p) # 0 /\ (q # <<>> => Len(q) # 0)
  OBVIOUS
<1>4. pc \o q # <<>>
  BY <1>2, <1>3
<1>5. \A i \in 1..Len(p) : (pc \o q)[i] = p[i]
  BY <1>1, <1>2, <1>3
<1>6. (pc \o q)[Len(p) + 1] = c
  <2>1. pc[Len(p) + 1] = <<c>>[1]
    BY <1>1, <1>3
  <2> QED BY <1>2, <1>3, <2>1
<1>7. q # <<>> => (pc \o q)[Len(p) + 1 + Len(q)] = q[Len(q)]
  BY <1>2, <1>3
<1> QED BY <1>2, <1>3, <1>4, <1>5, <1>6, <1>7 DEF pc

\* The ends of two parts put together, and the first n characters of one.
LEMMA ConcatEnds ==
  ASSUME NEW S, NEW p \in Seq(S), NEW q \in Seq(S), p # <<>>
  PROVE  /\ p \o q \in Seq(S) /\ Len(p \o q) = Len(p) + Len(q)
         /\ (p \o q)[1] = p[1]
         /\ Len(q) # 0 => (p \o q)[Len(p) + Len(q)] = q[Len(q)]
<1>1. /\ p \o q \in Seq(S) /\ Len(p \o q) = Len(p) + Len(q)
      /\ \A i \in 1..(Len(p) + Len(q)) :
             (p \o q)[i] = IF i <= Len(p) THEN p[i] ELSE q[i - Len(p)]
  BY ConcatProperties
<1>2. Len(p) \in Nat /\ Len(q) \in Nat /\ Len(p) # 0
  OBVIOUS
<1> QED BY <1>1, <1>2

LEMMA CutFacts ==
  ASSUME NEW S, NEW s \in Seq(S), NEW n \in 0..Len(s)
  PROVE  /\ SubSeq(s, 1, n) \in Seq(S) /\ Len(SubSeq(s, 1, n)) = n
         /\ \A i \in 1..n : SubSeq(s, 1, n)[i] = s[i]
<1>1. n \in Int /\ Len(s) \in Nat /\ \A i \in 1..n : s[i] \in S
  OBVIOUS
<1>2. /\ SubSeq(s, 1, n) \in Seq(S)
      /\ Len(SubSeq(s, 1, n)) = IF 1 <= n THEN n - 1 + 1 ELSE 0
      /\ \A i \in 1..(n - 1 + 1) : SubSeq(s, 1, n)[i] = s[1 + i - 1]
  BY <1>1, SubSeqProperties
<1> QED BY <1>1, <1>2

\* A sequence of these characters is a name Kubernetes accepts, apart from its ends.
LEMMA LabelValid ==
  ASSUME NEW s \in Seq(LabelChars), s # <<>>, s[1] # "-", s[Len(s)] # "-"
  PROVE  ValidObjectName(s)
BY DEF ValidObjectName, LabelChars

LEMMA SecretNameValid ==
  ASSUME NEW w \in SecretPrefixes, NEW t \in Apps
  PROVE  ValidObjectName(SecretName(w, t))
<1> DEFINE b == dns1123Basename(t)
           p == dns1123Basename(w)
<1>1. /\ b \in Seq(LabelChars) /\ b # <<>> /\ b[1] # "-" /\ b[Len(b)] # "-"
  BY AppFacts, BasenameFacts, Separators
<1>2. CASE w = <<>>
  BY <1>1, <1>2, LabelValid DEF SecretName
<1>3. CASE w # <<>>
  <2>1. p \in Seq(LabelChars) /\ p # <<>> /\ p[1] # "-"
    BY <1>3, PrefixFacts, BasenameFacts, Separators
  <2>2. SecretName(w, t) = p \o <<"-">> \o b
    BY <1>3 DEF SecretName
  <2> HIDE DEF b, p
  <2>3. "-" \in LabelChars
    BY DEF LabelChars
  <2> DEFINE j == p \o <<"-">> \o b
  <2>4. /\ j \in Seq(LabelChars) /\ j # <<>> /\ j[1] = p[1]
        /\ Len(j) = Len(p) + 1 + Len(b) /\ j[Len(p) + 1 + Len(b)] = b[Len(b)]
    BY <1>1, <2>1, <2>3, JoinFacts
  <2> HIDE DEF j
  <2>5. j[1] # "-" /\ j[Len(j)] # "-"
    BY <1>1, <2>1, <2>4
  <2>6. ValidObjectName(j)
    BY <2>4, <2>5, LabelValid
  <2> QED BY <2>2, <2>6 DEF j
<1> QED BY <1>2, <1>3

LEMMA LetterFacts ==
  Letter \in Letters /\ Letter \in Alnum /\ Letter \in LabelChars /\ "-" \in LabelChars
<1>1. \E c \in Letters : TRUE
  BY CharactersAssumption
<1> QED BY <1>1 DEF Letter, Alnum, LabelChars

\* The shape of a recovery cluster's name and of a Backup's.
LEMMA EnclosedValid ==
  ASSUME NEW s \in Seq(LabelChars)
  PROVE  LET name == <<Letter, "-">> \o s \o <<"-", Letter>>
         IN  ValidObjectName(name) /\ Len(name) = Len(s) + 4
<1> DEFINE f == <<Letter, "-">>
           g == <<"-", Letter>>
<1>1. f \in Seq(LabelChars) /\ f # <<>> /\ g \in Seq(LabelChars) /\ g # <<>>
  BY LetterFacts
<1>2. Len(f) = 2 /\ f[1] = Letter /\ Len(g) = 2 /\ g[2] = Letter /\ Len(s) \in Nat
  OBVIOUS
<1> HIDE DEF f, g
<1> DEFINE fs == f \o s
           name == fs \o g
<1>3. fs \in Seq(LabelChars) /\ Len(fs) = Len(f) + Len(s) /\ fs[1] = f[1]
  BY <1>1, ConcatEnds
<1> HIDE DEF fs
<1>4. /\ name \in Seq(LabelChars) /\ Len(name) = Len(s) + 4
      /\ name[1] = Letter /\ name[Len(name)] = Letter
  <2>1. fs # <<>>
    BY <1>2, <1>3
  <2>2. fs \in Seq(LabelChars)
    BY <1>3
  <2>3. /\ name \in Seq(LabelChars) /\ Len(name) = Len(fs) + Len(g)
        /\ name[1] = fs[1] /\ (Len(g) # 0 => name[Len(fs) + Len(g)] = g[Len(g)])
    BY <1>1, <2>1, <2>2, ConcatEnds
  <2> HIDE DEF name
  <2> QED BY <1>2, <1>3, <2>3
<1> HIDE DEF name
<1>5. Letter # "-"
  BY LetterFacts, Separators
<1>6. name # <<>>
  BY <1>2, <1>4
<1>7. ValidObjectName(name)
  BY <1>4, <1>5, <1>6, LabelValid
<1> QED BY <1>4, <1>7 DEF name, fs, f, g

LEMMA RecoveryClusterNameValid ==
  ASSUME NEW t \in Apps
  PROVE  /\ ValidObjectName(RecoveryClusterName(t))
         /\ Len(RecoveryClusterName(t)) <= NameLimit
<1> DEFINE b == dns1123Basename(t)
           room == NameLimit - Len(RecoveryPrefix) - Len(RecoverySuffix)
           n == IF Len(b) < room THEN Len(b) ELSE room
           cut == SubSeq(b, 1, n)
<1>1. b \in Seq(LabelChars) /\ b # <<>>
  BY AppFacts, BasenameFacts
<1>2. Len(RecoveryPrefix) = 2 /\ Len(RecoverySuffix) = 2
  BY DEF RecoveryPrefix, RecoverySuffix
<1>3. room = NameLimit - 4 /\ room \in Nat /\ ~(room < 1)
  BY <1>2, LimitAssumption
<1>4. RecoveryClusterName(t) = <<Letter, "-">> \o cut \o <<"-", Letter>>
  BY <1>3 DEF RecoveryClusterName, Cut, RecoveryPrefix, RecoverySuffix
<1> HIDE DEF b, room
<1>5. n \in 0..Len(b) /\ n <= room
  BY <1>1, <1>3
<1>6. cut \in Seq(LabelChars) /\ Len(cut) = n
  BY <1>1, <1>5, CutFacts
<1> HIDE DEF n, cut
<1>7. n + 4 <= NameLimit
  BY <1>3, <1>5, LimitAssumption
<1> QED BY <1>4, <1>6, <1>7, EnclosedValid

LEMMA TriggerNameValid ==
  ASSUME NEW t \in Apps, \A i \in DOMAIN t : t[i] # "_"
  PROVE  ValidObjectName(TriggerName(t))
<1>1. t \in Seq(LabelChars)
  <2>1. /\ Len(t) \in Nat /\ t \in [1..Len(t) -> Alnum \cup {"_"}]
        /\ DOMAIN t = 1..Len(t)
    BY AppFacts, LenProperties
  <2>2. t \in [1..Len(t) -> LabelChars]
    BY <2>1 DEF LabelChars
  <2> QED BY <2>1, <2>2, FunctionIsSeq
<1> QED BY <1>1, EnclosedValid DEF TriggerName

\* Kubernetes accepts the name of every Secret and recovery cluster, and of a Backup
\* unless the tenant's name has an underscore, for names and prefixes of any length.
THEOREM ObjectNamesValid == Spec => []NamesValid
<1>1. Init => NamesValid
  <2> SUFFICES ASSUME w1 \in SecretPrefixes, t1 \in Apps
               PROVE  NamesValid
    BY DEF Init
  <2> QED BY SecretNameValid, RecoveryClusterNameValid, TriggerNameValid DEF NamesValid
<1>2. NamesValid /\ [Next]_<<w1, w2, t1, t2>> => NamesValid'
  BY DEF Next, NamesValid
<1> QED BY <1>1, <1>2, PTL DEF Spec

-----------------------------------------------------------------------------
(* Separate Secrets *)

\* The characters of a tenant's name and of its hyphenated form.
LEMMA HyphenatedFacts ==
  ASSUME NEW t \in Apps
  PROVE  /\ Len(t) \in Nat /\ Len(t) # 0
         /\ Hyphenated(t) \in Seq(LabelChars) /\ DOMAIN Hyphenated(t) = 1..Len(t)
         /\ Hyphenated(t) # <<>> /\ Hyphenated(t)[1] # "-"
         /\ \A i \in 1..Len(t) : Hyphenated(t)[i] = IF t[i] = "_" THEN "-" ELSE t[i]
         /\ \A i \in 1..Len(t) : Hyphenated(t)[i] = "-" <=> t[i] = "_"
<1> DEFINE h == Hyphenated(t)
<1>1. /\ Len(t) \in Nat /\ t \in [1..Len(t) -> Alnum \cup {"_"}]
      /\ DOMAIN t = 1..Len(t) /\ t[1] \in Alnum /\ t # <<>>
  BY AppFacts, LenProperties
<1>2. Len(t) # 0 /\ 1 \in 1..Len(t)
  <2>1. t \in Seq(NameChars) /\ t # <<>>
    BY AppFacts
  <2> QED BY <2>1
<1>3. \A i \in 1..Len(t) : h[i] = IF t[i] = "_" THEN "-" ELSE t[i]
  BY <1>1 DEF Hyphenated
<1>4. h \in Seq(LabelChars) /\ Len(h) = Len(t)
  BY AppFacts, StagesFacts
<1> HIDE DEF h
<1>5. DOMAIN h = 1..Len(t) /\ h # <<>>
  BY <1>2, <1>4
<1>6. \A i \in 1..Len(t) : h[i] = "-" <=> t[i] = "_"
  BY <1>1, <1>3, Separators
<1>7. h[1] # "-"
  <2>1. t[1] # "_"
    BY <1>1, Separators
  <2> QED BY <1>2, <1>6, <2>1
<1> QED BY <1>1, <1>2, <1>3, <1>4, <1>5, <1>6, <1>7 DEF h

\* dns1123Basename does no more to a canonical name than Hyphenated.
LEMMA CanonicalBasename ==
  ASSUME NEW t \in Apps, Canonical(t)
  PROVE  dns1123Basename(t) = Hyphenated(t)
<1> DEFINE h == Hyphenated(t)
           n == Len(t)
<1>1. /\ n \in Nat /\ n # 0 /\ h \in Seq(LabelChars) /\ DOMAIN h = 1..n
      /\ h # <<>> /\ h[1] # "-" /\ \A i \in 1..n : h[i] = "-" <=> t[i] = "_"
  BY HyphenatedFacts
<1>0. n \in Nat /\ n # 0 /\ DOMAIN h = 1..n
  BY <1>1
<1>2. Len(h) = n /\ DnsChars(h) = h
  BY AppFacts, StagesFacts
<1>3. t[n] # "_" /\ \A i \in 1..(n - 1) : t[i] = "_" => t[i + 1] # "_"
  BY DEF Canonical
<1> HIDE DEF h, n
<1>4. {i \in DOMAIN h : h[i] = "-" /\ i > 1 => h[i - 1] # "-"} = DOMAIN h
  <2> SUFFICES ASSUME NEW i \in DOMAIN h, h[i] = "-", i > 1, h[i - 1] = "-"
               PROVE  FALSE
    OBVIOUS
  <2>1. i - 1 \in 1..(n - 1) /\ i - 1 \in 1..n /\ (i - 1) + 1 = i /\ i \in 1..n
    BY <1>0
  <2> QED BY <1>1, <1>3, <2>1
<1>5. Collapsed(h) = h
  BY <1>1, <1>4, KeptAll DEF Collapsed
<1>6. {i \in DOMAIN h : /\ \E j \in 1..i : h[j] # "-"
                        /\ \E j \in i..Len(h) : h[j] # "-"} = DOMAIN h
  <2> SUFFICES ASSUME NEW i \in 1..n
               PROVE  (\E j \in 1..i : h[j] # "-") /\ (\E j \in i..n : h[j] # "-")
    BY <1>1, <1>2
  <2>1. 1 \in 1..i /\ n \in i..n /\ n \in 1..n
    BY <1>0
  <2>2. h[n] # "-"
    BY <1>1, <1>3, <2>1
  <2> QED BY <1>1, <2>1, <2>2
<1>7. Trimmed(h) = h
  BY <1>1, <1>6, KeptAll DEF Trimmed
<1> QED BY <1>1, <1>2, <1>5, <1>7 DEF dns1123Basename, h

\* No tenant's name has a hyphen: none is lost.
LEMMA HyphenatedInjective ==
  ASSUME NEW t \in Apps, NEW u \in Apps, Hyphenated(t) = Hyphenated(u)
  PROVE  t = u
<1>1. Len(t) = Len(u)
  BY AppFacts, StagesFacts
<1>2. ASSUME NEW i \in 1..Len(t) PROVE t[i] = u[i]
  <2>1. /\ t[i] # "-" /\ u[i] # "-"
    <3>1. t[i] \in Alnum \cup {"_"} /\ u[i] \in Alnum \cup {"_"}
      BY <1>1, AppFacts, ElementOfSeq
    <3> QED BY <3>1, Separators
  <2>2. Hyphenated(t)[i] = IF t[i] = "_" THEN "-" ELSE t[i]
    BY HyphenatedFacts
  <2>3. Hyphenated(u)[i] = IF u[i] = "_" THEN "-" ELSE u[i]
    BY <1>1, HyphenatedFacts
  <2> QED BY <2>1, <2>2, <2>3
<1> QED BY <1>1, <1>2, AppFacts, SeqEqual

\* Two tenants with canonical names have different Secrets in every workspace.
LEMMA CanonicalSeparate ==
  ASSUME NEW w \in SecretPrefixes, NEW t \in Apps, NEW u \in Apps,
         Canonical(t), Canonical(u), SecretName(w, t) = SecretName(w, u)
  PROVE  t = u
<1>1. Hyphenated(t) \in Seq(LabelChars) /\ Hyphenated(u) \in Seq(LabelChars)
  BY HyphenatedFacts
<1>2. CASE w = <<>>
  BY <1>2, CanonicalBasename, HyphenatedInjective DEF SecretName
<1>3. CASE w # <<>>
  <2> DEFINE p == dns1123Basename(w) \o <<"-">>
  <2>1. dns1123Basename(w) \in Seq(LabelChars)
    BY <1>3, PrefixFacts, BasenameFacts
  <2>2. <<"-">> \in Seq(LabelChars)
    BY LetterFacts
  <2>3. p \in Seq(LabelChars)
    BY <2>1, <2>2, ConcatProperties
  <2>4. p \o Hyphenated(t) = p \o Hyphenated(u)
    BY <1>3, CanonicalBasename DEF SecretName
  <2> HIDE DEF p
  <2>5. Hyphenated(t) = Hyphenated(u)
    BY <1>1, <2>3, <2>4, ConcatSimplifications
  <2> QED BY <2>5, HyphenatedInjective
<1> QED BY <1>2, <1>3

\* Of two prefixes with a hyphen after them that begin the same name, one extends
\* the other.
LEMMA PrefixesCompare ==
  ASSUME NEW p \in Seq(LabelChars), NEW q \in Seq(LabelChars),
         NEW b \in Seq(LabelChars), NEW c \in Seq(LabelChars),
         p # <<>>, q # <<>>, p \o <<"-">> \o b = q \o <<"-">> \o c, Len(p) <= Len(q)
  PROVE  Extends(q, p)
<1> DEFINE x == p \o <<"-">> \o b
           y == q \o <<"-">> \o c
<1>1. /\ \A i \in 1..Len(p) : x[i] = p[i]
      /\ x[Len(p) + 1] = "-"
  BY LetterFacts, JoinFacts
<1>2. \A i \in 1..Len(q) : y[i] = q[i]
  BY LetterFacts, JoinFacts
<1> HIDE DEF x, y
<1>3. x = y
  BY DEF x, y
<1>4. Len(p) \in Nat /\ Len(q) \in Nat
  OBVIOUS
<1>5. \A i \in 1..Len(p) : q[i] = p[i]
  BY <1>1, <1>2, <1>3, <1>4
<1>6. CASE Len(p) = Len(q)
  BY <1>5, <1>6, SeqEqual DEF Extends
<1>7. CASE Len(q) > Len(p)
  <2> DEFINE m == Len(p) + 1
             left == SubSeq(q, 1, m)
             right == p \o <<"-">>
  <2>1. m \in 0..Len(q) /\ m \in 1..Len(q)
    BY <1>4, <1>7
  <2>2. left \in Seq(LabelChars) /\ Len(left) = m /\ \A i \in 1..m : left[i] = q[i]
    BY <2>1, CutFacts
  <2>3. /\ right \in Seq(LabelChars) /\ Len(right) = m
        /\ \A i \in 1..Len(p) : right[i] = p[i]
        /\ right[m] = "-"
    BY LetterFacts, AppendedFacts
  <2>4. q[m] = "-"
    BY <1>1, <1>2, <1>3, <2>1
  <2> HIDE DEF left, right
  <2>5. \A i \in 1..m : i \in 1..Len(p) \/ i = m
    BY <1>4
  <2>6. \A i \in 1..m : left[i] = right[i]
    BY <1>5, <2>2, <2>3, <2>4, <2>5
  <2> HIDE DEF m
  <2>7. left = right
    BY <2>2, <2>3, <2>6, SeqEqual
  <2> QED BY <1>7, <2>7 DEF Extends, left, right, m
<1> QED BY <1>4, <1>6, <1>7

LEMMA PrefixesSeparate ==
  ASSUME NEW v \in SecretPrefixes, NEW w \in SecretPrefixes,
         NEW t \in Apps, NEW u \in Apps, v # <<>>, w # <<>>,
         ~Extends(dns1123Basename(v), dns1123Basename(w)),
         ~Extends(dns1123Basename(w), dns1123Basename(v))
  PROVE  SecretName(v, t) # SecretName(w, u)
<1> DEFINE p == dns1123Basename(v)
           q == dns1123Basename(w)
           b == dns1123Basename(t)
           c == dns1123Basename(u)
<1>1. p \in Seq(LabelChars) /\ p # <<>> /\ q \in Seq(LabelChars) /\ q # <<>>
  BY PrefixFacts, BasenameFacts
<1>2. b \in Seq(LabelChars) /\ c \in Seq(LabelChars)
  BY AppFacts, BasenameFacts
<1>3. SecretName(v, t) = p \o <<"-">> \o b /\ SecretName(w, u) = q \o <<"-">> \o c
  BY DEF SecretName
<1> HIDE DEF p, q, b, c
<1>4. Len(p) \in Nat /\ Len(q) \in Nat
  BY <1>1
<1>5. Len(p) <= Len(q) \/ Len(q) <= Len(p)
  BY <1>4
<1>6. SUFFICES ASSUME p \o <<"-">> \o b = q \o <<"-">> \o c PROVE FALSE
  BY <1>3
<1>7. CASE Len(p) <= Len(q)
  <2>1. Extends(q, p)
    BY <1>1, <1>2, <1>6, <1>7, PrefixesCompare
  <2> QED BY <2>1 DEF p, q
<1>8. CASE Len(q) <= Len(p)
  <2>1. Extends(p, q)
    BY <1>1, <1>2, <1>6, <1>8, PrefixesCompare
  <2> QED BY <2>1 DEF p, q
<1> QED BY <1>5, <1>7, <1>8

\* No Secret is shared by two tenants with canonical names, nor by two workspaces
\* whose normalised prefixes do not extend one another: whatever the alphabet and
\* however long the names.
THEOREM SecretsKeptSeparate == Spec => []SecretsSeparate
<1>1. Init => SecretsSeparate
  <2> SUFFICES ASSUME w1 \in SecretPrefixes, w2 \in SecretPrefixes,
                      t1 \in Apps, t2 \in Apps
               PROVE  SecretsSeparate
    BY DEF Init
  <2>1. TenantsSeparate
    BY CanonicalSeparate DEF TenantsSeparate
  <2>2. WorkspacesSeparate
    BY PrefixesSeparate DEF WorkspacesSeparate
  <2> QED BY <2>1, <2>2 DEF SecretsSeparate
<1>2. SecretsSeparate /\ [Next]_<<w1, w2, t1, t2>> => SecretsSeparate'
  BY DEF Next, SecretsSeparate, TenantsSeparate, WorkspacesSeparate
<1> QED BY <1>1, <1>2, PTL DEF Spec

-----------------------------------------------------------------------------
(* The branch the form proposes *)

\* Hyphenated or not, a source's database is named after its tenant.
LEMMA UnderscoredFacts ==
  ASSUME NEW t \in Apps, NEW src \in {t, Hyphenated(t)}
  PROVE  Underscored(src) = t /\ Len(src) = Len(t)
<1> DEFINE u == Underscored(src)
<1>1. /\ Len(t) \in Nat /\ t \in [1..Len(t) -> Alnum \cup {"_"}] /\ DOMAIN t = 1..Len(t)
  BY AppFacts, LenProperties
<1>2. \A i \in 1..Len(t) : t[i] # "-"
  BY <1>1, Separators
<1>3. DOMAIN src = 1..Len(t) /\ Len(src) = Len(t)
  BY <1>1, HyphenatedFacts, AppFacts, StagesFacts
<1>4. \A i \in 1..Len(t) : (IF src[i] = "-" THEN "_" ELSE src[i]) = t[i]
  <2>1. CASE src = t
    BY <1>2, <2>1
  <2>2. CASE src = Hyphenated(t)
    <3>1. \A i \in 1..Len(t) : Hyphenated(t)[i] = IF t[i] = "_" THEN "-" ELSE t[i]
      BY HyphenatedFacts
    <3> QED BY <1>2, <2>2, <3>1
  <2> QED BY <2>1, <2>2
<1>5. u = [i \in 1..Len(t) |-> t[i]]
  BY <1>3, <1>4 DEF Underscored
<1> QED BY <1>1, <1>3, <1>5

LEMMA TripleIsSeq ==
  ASSUME NEW S, NEW a \in S, NEW b \in S, NEW c \in S
  PROVE  <<a, b, c>> \in Seq(S)
OBVIOUS

\* The longer suffix always fits, since what is in its way is cut.
LEMMA BranchName ==
  ASSUME NEW t \in Apps
  PROVE  LET n == NameLimit - 3
             m == IF Len(t) < n THEN Len(t) ELSE n
             dst == SubSeq(t, 1, m) \o <<"_", Letter, Letter>>
         IN  IdentSafe(dst) /\ Len(dst) = m + 3 /\ m \in 1..n
<1> DEFINE n == NameLimit - 3
           m == IF Len(t) < n THEN Len(t) ELSE n
           s == SubSeq(t, 1, m)
           f == <<"_", Letter, Letter>>
           X == Alnum \cup {"_"}
           dst == s \o f
<1>1. /\ Len(t) \in Nat /\ t \in Seq(X) /\ t[1] \in Letters /\ t # <<>>
  BY AppFacts, LenProperties
<1>2. Len(t) \in Nat /\ Len(t) # 0
  BY HyphenatedFacts
<1>3. m \in 0..Len(t) /\ m \in 1..n /\ m + 3 <= NameLimit /\ m \in Nat /\ m # 0
  BY <1>2, LimitAssumption
<1>4. f \in Seq(X) /\ Len(f) = 3
  <2>1. "_" \in X /\ Letter \in X
    BY LetterFacts
  <2> HIDE DEF X
  <2>2. <<"_", Letter, Letter>> \in Seq(X)
    BY <2>1, TripleIsSeq
  <2>3. Len(<<"_", Letter, Letter>>) = 3
    OBVIOUS
  <2> QED BY <2>2, <2>3
<1> HIDE DEF m, f, X
<1>5. s \in Seq(X) /\ Len(s) = m /\ \A i \in 1..m : s[i] = t[i]
  BY <1>1, <1>3, CutFacts
<1> HIDE DEF s
<1>6. s # <<>> /\ s[1] = t[1]
  BY <1>3, <1>5
<1>7. dst \in Seq(X) /\ Len(dst) = Len(s) + Len(f) /\ dst[1] = s[1]
  <2>1. s \in Seq(X) /\ f \in Seq(X)
    BY <1>4, <1>5
  <2>2. s # <<>>
    BY <1>6
  <2> QED BY <2>1, <2>2, ConcatEnds
<1> HIDE DEF dst
<1>8. Len(dst) = m + 3
  BY <1>4, <1>5, <1>7
<1>9. dst # <<>> /\ \A i \in DOMAIN dst : dst[i] \in X
  BY <1>3, <1>7, <1>8
<1>10. IdentSafe(dst)
  BY <1>1, <1>3, <1>6, <1>7, <1>8, <1>9 DEF IdentSafe, X
<1> QED BY <1>3, <1>8, <1>10 DEF dst, s, f, m

\* Whatever tenant is branched, BranchTenantSubmit accepts the name the form has, and
\* it is the source's only at the greatest length.
THEOREM BranchDefaultIsAccepted == Spec => []BranchDefaultAccepted
<1>1. Init => BranchDefaultAccepted
  <2> SUFFICES ASSUME t1 \in Apps, NEW src \in {t1, Hyphenated(t1)}
               PROVE  LET dst == DefaultBranchDestination(src)
                      IN  IdentSafe(dst) /\ (dst = src => Len(src) = NameLimit)
    BY DEF Init, BranchDefaultAccepted
  <2> DEFINE n == NameLimit - 3
             m == IF Len(t1) < n THEN Len(t1) ELSE n
             dst == SubSeq(t1, 1, m) \o <<"_", Letter, Letter>>
  <2>1. IdentSafe(dst) /\ Len(dst) = m + 3 /\ m \in 1..n
    BY BranchName
  <2>2. Underscored(src) = t1 /\ Len(src) = Len(t1)
    BY UnderscoredFacts
  <2>3. BranchSuffixes[1] = <<"_", Letter, Letter>> /\ Len(BranchSuffixes[1]) = 3
    BY DEF BranchSuffixes
  <2>4. Cut(Underscored(src), NameLimit - Len(BranchSuffixes[1])) \o BranchSuffixes[1] = dst
    BY <2>2, <2>3 DEF Cut
  <2>5. DefaultBranchDestination(src) = dst
    BY <2>1, <2>4 DEF DefaultBranchDestination
  <2> HIDE DEF dst
  <2>6. Len(t1) \in Nat
    BY HyphenatedFacts
  <2>7. ASSUME dst = src PROVE Len(src) = NameLimit
    BY <2>1, <2>2, <2>6, <2>7, LimitAssumption
  <2> QED BY <2>1, <2>5, <2>7
<1>2. BranchDefaultAccepted /\ [Next]_<<w1, w2, t1, t2>> => BranchDefaultAccepted'
  BY DEF Next, BranchDefaultAccepted
<1> QED BY <1>1, <1>2, PTL DEF Spec

================================================================================
