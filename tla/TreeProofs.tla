----------------------------- MODULE TreeProofs -----------------------------
(***************************************************************************)
(* Facts about finite sets, subsequences, prefixes and sets of nodes come  *)
(* first; they depend on nothing of the gateway.                           *)
(*                                                                         *)
(* The operations of the prefix tree, for any owners and limits.  Sound    *)
(* relates a tree to the marks that were set and not taken away since; it  *)
(* is preserved by Insert with its budget, by Prune and by RemoveBackedBy, *)
(* and it implies that Match finds the longest match.                      *)
(***************************************************************************)
EXTENDS PrefixTree, FiniteSetTheorems, WellFoundedInduction, TLAPS

\* The time the provers have for a leaf, in seconds.
USE SMTT(30), ZenonT(30)

Smallest(U, F) == \A V \in F : V \subseteq U => V = U

\* A property of finite sets that fails for a set fails for a smallest one: this is how
\* induction over finite sets is done here.
LEMMA SmallestSet ==
    ASSUME NEW S, IsFiniteSet(S), NEW F \in SUBSET (SUBSET S), F # {}
    PROVE  \E U \in F : Smallest(U, F)
<1>1. IsWellFoundedOn(StrictSubsetOrdering(S), FiniteSubsetsOf(S))
  BY FS_StrictSubsetOrderingWellFounded, ZenonT(30)
<1>2. FiniteSubsetsOf(S) = SUBSET S
  BY FS_FiniteSubsetsOfFinite, ZenonT(30)
<1> DEFINE R == StrictSubsetOrdering(S)
<1>3. \E U \in F : \A V \in F : ~ (<<V, U>> \in R)
  <2>1. IsWellFoundedOn(R, SUBSET S)
    BY <1>1, <1>2, ZenonT(30)
  <2> HIDE DEF R
  <2> QED
    BY <2>1, WFMin, ZenonT(30)
<1>4. PICK U \in F : \A V \in F : ~ (<<V, U>> \in R)
  BY <1>3
<1>5. ASSUME NEW V \in F, V \subseteq U PROVE V = U
  <2>1. <<V, U>> \notin StrictSubsetOrdering(S)
    BY <1>4
  <2>2. V \in SUBSET S /\ U \in SUBSET S
    BY <1>4
  <2> QED
    BY <1>5, <2>1, <2>2 DEF StrictSubsetOrdering
<1> QED
  BY <1>4, <1>5 DEF Smallest

\* A finite set of integers has a greatest element.
LEMMA HasGreatest ==
    ASSUME NEW S \in SUBSET Int, IsFiniteSet(S), S # {}
    PROVE  \E x \in S : \A y \in S : x >= y
<1> DEFINE F == {U \in SUBSET S : U # {} /\ ~ \E x \in U : \A y \in U : x >= y}
<1> SUFFICES ASSUME F # {} PROVE FALSE
  OBVIOUS
<1>1. PICK U \in F : Smallest(U, F)
  <2>1. F \in SUBSET (SUBSET S)
    OBVIOUS
  <2> HIDE DEF F
  <2> QED
    BY <2>1, SmallestSet, ZenonT(30)
<1>2. PICK u \in U : TRUE
  BY ZenonT(30)
<1>3. U \ {u} \notin F
  BY <1>1, <1>2, ZenonT(30) DEF Smallest
<1>4. U \ {u} # {}
  BY <1>1, <1>2
<1>5. PICK x \in U \ {u} : \A y \in U \ {u} : x >= y
  BY <1>3, <1>4
<1>6. u \in Int /\ x \in Int /\ U \subseteq Int
  OBVIOUS
<1>7. CASE x >= u
  <2>1. \A y \in U : x >= y
    BY <1>5, <1>7
  <2> QED
    BY <1>1, <2>1
<1>8. CASE u >= x
  <2>1. \A y \in U : u >= y
    BY <1>5, <1>6, <1>8
  <2> QED
    BY <1>1, <2>1
<1> QED
  BY <1>6, <1>7, <1>8

\* A finite set of integers has a least element.
LEMMA HasLeast ==
    ASSUME NEW S \in SUBSET Int, IsFiniteSet(S), S # {}
    PROVE  \E x \in S : \A y \in S : x <= y
<1> DEFINE F == {U \in SUBSET S : U # {} /\ ~ \E x \in U : \A y \in U : x <= y}
<1> SUFFICES ASSUME F # {} PROVE FALSE
  OBVIOUS
<1>1. PICK U \in F : Smallest(U, F)
  <2>1. F \in SUBSET (SUBSET S)
    OBVIOUS
  <2> HIDE DEF F
  <2> QED
    BY <2>1, SmallestSet, ZenonT(30)
<1>2. PICK u \in U : TRUE
  BY ZenonT(30)
<1>3. U \ {u} \notin F
  BY <1>1, <1>2, ZenonT(30) DEF Smallest
<1>4. U \ {u} # {}
  BY <1>1, <1>2
<1>5. PICK x \in U \ {u} : \A y \in U \ {u} : x <= y
  BY <1>3, <1>4
<1>6. u \in Int /\ x \in Int /\ U \subseteq Int
  OBVIOUS
<1>7. CASE x <= u
  <2>1. \A y \in U : x <= y
    BY <1>5, <1>7
  <2> QED
    BY <1>1, <2>1
<1>8. CASE u <= x
  <2>1. \A y \in U : u <= y
    BY <1>5, <1>6, <1>8
  <2> QED
    BY <1>1, <2>1
<1> QED
  BY <1>6, <1>7, <1>8

\* Max of such a set.
LEMMA MaxIs ==
    ASSUME NEW S \in SUBSET Int, IsFiniteSet(S), S # {}
    PROVE  Max(S) \in S /\ \A y \in S : Max(S) >= y
  BY HasGreatest, ZenonT(30) DEF Max

\* Min of such a set.
LEMMA MinIs ==
    ASSUME NEW S \in SUBSET Int, IsFiniteSet(S), S # {}
    PROVE  Min(S) \in S /\ \A y \in S : Min(S) <= y
  BY HasLeast, ZenonT(30) DEF Min

-----------------------------------------------------------------------------
(* Subsequences. *)

Rank(K) == [n \in K |-> Cardinality({m \in K : m <= n})]

\* The ranks of the elements of a finite set of numbers are the numbers up to its size.
LEMMA Ranks ==
    ASSUME NEW K \in SUBSET Int, IsFiniteSet(K)
    PROVE  /\ Rank(K) \in [K -> 1 .. Cardinality(K)]
           /\ \A m, n \in K : Rank(K)[m] = Rank(K)[n] => m = n
           /\ \A k \in 1 .. Cardinality(K) : \E n \in K : Rank(K)[n] = k
<1> DEFINE Upto(n) == {m \in K : m <= n}
           r == Rank(K)
<1>1. Cardinality(K) \in Nat
  BY FS_CardinalityType
<1>2. ASSUME NEW n \in K
      PROVE  IsFiniteSet(Upto(n)) /\ Cardinality(Upto(n)) \in 1 .. Cardinality(K)
  <2>1. Upto(n) \in SUBSET K
    OBVIOUS
  <2>2. IsFiniteSet(Upto(n)) /\ Cardinality(Upto(n)) <= Cardinality(K)
    <3> HIDE DEF Upto
    <3> QED
      BY <2>1, FS_Subset
  <2>3. n \in Upto(n)
    OBVIOUS
  <2> HIDE DEF Upto
  <2>4. Cardinality(Upto(n)) \in Nat /\ Cardinality(Upto(n)) # 0
    BY <2>2, <2>3, FS_CardinalityType, FS_EmptySet
  <2> QED
    BY <1>1, <2>2, <2>4
<1>3. ASSUME NEW m \in K, NEW n \in K, m < n
      PROVE  Cardinality(Upto(m)) # Cardinality(Upto(n))
  <2>1. m \in Int /\ n \in Int /\ \A k \in K : k \in Int
    OBVIOUS
  <2>2. (\A k \in K : k <= m => k <= n) /\ n <= n /\ ~ (n <= m)
    BY <1>3, <2>1
  <2>3. Upto(m) \in SUBSET Upto(n) /\ n \in Upto(n) /\ n \notin Upto(m)
    BY <2>2, ZenonT(30)
  <2>4. IsFiniteSet(Upto(n))
    BY <1>2
  <2> HIDE DEF Upto
  <2> QED
    BY <2>3, <2>4, FS_Subset
<1>4. \A n \in K : r[n] = Cardinality(Upto(n))
  BY DEF Rank
<1>5. r \in [K -> 1 .. Cardinality(K)]
  BY <1>2 DEF Rank
<1> HIDE DEF Upto, r
<1>6. ASSUME NEW m \in K, NEW n \in K, r[m] = r[n] PROVE m = n
  <2>1. m \in Int /\ n \in Int
    OBVIOUS
  <2>2. ~ (m < n) /\ ~ (n < m)
    BY <1>3, <1>4, <1>6
  <2> QED
    BY <2>1, <2>2
<1>7. r \in Surjection(K, 1 .. Cardinality(K))
  <2>1. IsFiniteSet(1 .. Cardinality(K)) /\ Cardinality(1 .. Cardinality(K)) = Cardinality(K)
    BY <1>1, FS_Interval
  <2>2. r \in Injection(K, 1 .. Cardinality(K))
    BY <1>5, <1>6, ZenonT(30) DEF Injection, IsInjective
  <2> QED
    BY <2>1, <2>2, FS_Injection
<1> QED
  BY <1>5, <1>6, <1>7 DEF Surjection, r

\* An interval is finite, and how many numbers it holds.
LEMMA IntervalCount ==
    ASSUME NEW n \in Nat
    PROVE  IsFiniteSet(1 .. n) /\ Cardinality(1 .. n) = n
  BY FS_Interval

Picks(f, o, s, S) ==
    /\ \A k \in DOMAIN o : o[k] = s[f[k]] /\ s[f[k]] \in S
    /\ \A j, k \in DOMAIN o : f[j] = f[k] => j = k
    /\ \A n \in DOMAIN s : s[n] \in S => \E k \in DOMAIN o : f[k] = n

\* What Only keeps: a subsequence is picked by an injection of its places into those of
\* the sequence, which meets exactly the places of the elements that are kept.
LEMMA OnlyPlaces ==
    ASSUME NEW T, NEW s \in Seq(T), NEW S
    PROVE  /\ Only(s, S) \in Seq(T)
           /\ Len(Only(s, S)) = Cardinality({n \in DOMAIN s : s[n] \in S})
           /\ \E f \in [DOMAIN Only(s, S) -> DOMAIN s] : Picks(f, Only(s, S), s, S)
<1> DEFINE K == {n \in DOMAIN s : s[n] \in S}
           r == Rank(K)
           g(k) == CHOOSE n \in K : Cardinality({m \in K : m <= n}) = k
           f == [k \in 1 .. Cardinality(K) |-> g(k)]
<1>1. K \in SUBSET Int /\ IsFiniteSet(K)
  <2>1. DOMAIN s = 1 .. Len(s) /\ Len(s) \in Nat
    OBVIOUS
  <2>2. K \in SUBSET (1 .. Len(s)) /\ K \in SUBSET Int
    BY <2>1
  <2>3. IsFiniteSet(1 .. Len(s))
    BY <2>1, FS_Interval
  <2> HIDE DEF K
  <2> QED
    BY <2>2, <2>3, FS_Subset, ZenonT(30)
<1>2. K \subseteq DOMAIN s /\ (\A n \in K : s[n] \in S) /\ (\A n \in DOMAIN s : s[n] \in S => n \in K)
  OBVIOUS
<1>3. Only(s, S) = [k \in 1 .. Cardinality(K) |-> s[f[k]]]
  BY DEF Only
<1> HIDE DEF K
<1>4. /\ r \in [K -> 1 .. Cardinality(K)]
      /\ \A m, n \in K : r[m] = r[n] => m = n
      /\ \A k \in 1 .. Cardinality(K) : \E n \in K : r[n] = k
  BY <1>1, Ranks
<1>5. \A k \in 1 .. Cardinality(K) : f[k] = CHOOSE n \in K : r[n] = k
  BY ZenonT(30) DEF Rank
<1>6. \A k \in 1 .. Cardinality(K) : f[k] \in K /\ r[f[k]] = k
  <2> HIDE DEF r, f
  <2> QED
    BY <1>4, <1>5
<1>7. DOMAIN f = 1 .. Cardinality(K) /\ f \in [1 .. Cardinality(K) -> DOMAIN s]
  <2> HIDE DEF r, g
  <2> QED
    BY <1>2, <1>6
<1> HIDE DEF r, f
<1>8. Cardinality(K) \in Nat
  BY <1>1, FS_CardinalityType
<1>9. /\ Only(s, S) \in Seq(T) /\ Len(Only(s, S)) = Cardinality(K)
      /\ DOMAIN Only(s, S) = 1 .. Cardinality(K)
  <2>1. \A k \in 1 .. Cardinality(K) : s[f[k]] \in T
    BY <1>7
  <2> QED
    BY <1>3, <1>8, <2>1
<1>10. \A k \in DOMAIN Only(s, S) : Only(s, S)[k] = s[f[k]] /\ s[f[k]] \in S
  BY <1>2, <1>3, <1>6, <1>9
<1>11. \A j, k \in DOMAIN Only(s, S) : f[j] = f[k] => j = k
  BY <1>6, <1>9
<1>12. ASSUME NEW n \in DOMAIN s, s[n] \in S PROVE \E k \in DOMAIN Only(s, S) : f[k] = n
  <2>1. n \in K /\ r[n] \in 1 .. Cardinality(K)
    BY <1>2, <1>4, <1>12
  <2>2. f[r[n]] = n
    BY <1>4, <1>6, <2>1
  <2> QED
    BY <1>9, <2>1, <2>2
<1>13. Len(Only(s, S)) = Cardinality({n \in DOMAIN s : s[n] \in S})
  BY <1>9 DEF K
<1> QED
  BY <1>7, <1>9, <1>10, <1>11, <1>12, <1>13, ZenonT(30) DEF Picks

\* Every place of o is a place of s, and no place of s is taken twice.
Within(o, s) ==
    \A j, k \in DOMAIN o : \E m, n \in DOMAIN s : o[j] = s[m] /\ o[k] = s[n] /\ (m = n => j = k)

\* Only has the elements it is asked for and no others, loses one if there is one to be
\* lost, and takes no place twice.
LEMMA OnlyKeeps ==
    ASSUME NEW T, NEW s \in Seq(T), NEW S
    PROVE  /\ Only(s, S) \in Seq(T)
           /\ Len(Only(s, S)) <= Len(s)
           /\ (\E n \in DOMAIN s : s[n] \notin S) => Len(Only(s, S)) < Len(s)
           /\ Range(Only(s, S)) = Range(s) \cap S
           /\ Within(Only(s, S), s)
<1> DEFINE o == Only(s, S)
           K == {n \in DOMAIN s : s[n] \in S}
<1>1. PICK f \in [DOMAIN o -> DOMAIN s] : Picks(f, o, s, S)
  BY OnlyPlaces, ZenonT(30)
<1>2. o \in Seq(T) /\ Len(o) = Cardinality(K)
  BY OnlyPlaces, ZenonT(30)
<1>3. DOMAIN s = 1 .. Len(s) /\ Len(s) \in Nat
  OBVIOUS
<1>4. IsFiniteSet(DOMAIN s) /\ Cardinality(DOMAIN s) = Len(s)
  <2>1. IsFiniteSet(1 .. Len(s)) /\ Cardinality(1 .. Len(s)) = Len(s)
    BY <1>3, IntervalCount, ZenonT(30)
  <2> QED
    BY <1>3, <2>1, ZenonT(30)
<1>5. K \in SUBSET (DOMAIN s) /\ ((\E n \in DOMAIN s : s[n] \notin S) => K # DOMAIN s)
  OBVIOUS
<1> HIDE DEF K
<1>6. /\ IsFiniteSet(K) /\ Cardinality(K) <= Cardinality(DOMAIN s)
      /\ Cardinality(DOMAIN s) = Cardinality(K) => DOMAIN s = K
  BY <1>4, <1>5, FS_Subset, ZenonT(30)
<1>7. Cardinality(K) \in Nat
  BY <1>6, FS_CardinalityType
<1>8. Len(o) <= Len(s) /\ ((\E n \in DOMAIN s : s[n] \notin S) => Len(o) < Len(s))
  BY <1>2, <1>3, <1>4, <1>5, <1>6, <1>7
<1> HIDE DEF o
<1>9. Range(o) = Range(s) \cap S
  <2>1. ASSUME NEW x \in Range(o) PROVE x \in Range(s) /\ x \in S
    BY <1>1, <2>1 DEF Range, Picks
  <2>2. ASSUME NEW x \in Range(s), x \in S PROVE x \in Range(o)
    BY <1>1, <2>2 DEF Range, Picks
  <2> QED
    BY <2>1, <2>2
<1>10. ASSUME NEW j \in DOMAIN o, NEW k \in DOMAIN o
       PROVE  \E m, n \in DOMAIN s : o[j] = s[m] /\ o[k] = s[n] /\ (m = n => j = k)
  <2>1. f[j] \in DOMAIN s /\ f[k] \in DOMAIN s
    BY <1>1
  <2> QED
    BY <1>1, <2>1 DEF Picks
<1> QED
  BY <1>2, <1>8, <1>9, <1>10 DEF o, Within

\* The empty sequence is a sequence over any set.
LEMMA EmptyText ==
    ASSUME NEW C
    PROVE  << >> \in Seq(C) /\ Len(<< >>) = 0 /\ \A p \in Seq(C) : Len(p) = 0 => p = << >>
  OBVIOUS

\* Two sets have the same maximum if each has, for every element of the other, one that is
\* not smaller.
LEMMA MaxSame ==
    ASSUME NEW A \in SUBSET Nat, NEW B \in SUBSET Nat, NEW n \in Nat, A # {}, B # {},
           \A a \in A : a <= n, \A b \in B : b <= n,
           \A a \in A : \E b \in B : a <= b,
           \A b \in B : \E a \in A : b <= a
    PROVE  Max(A) = Max(B)
<1>1. IsFiniteSet(A) /\ IsFiniteSet(B)
  BY FS_BoundedSetOfNaturals
<1>2. A \in SUBSET Int /\ B \in SUBSET Int
  OBVIOUS
<1>3. Max(A) \in A /\ (\A y \in A : Max(A) >= y) /\ Max(B) \in B /\ (\A y \in B : Max(B) >= y)
  BY <1>1, <1>2, MaxIs, ZenonT(30)
<1>4. PICK b \in B : Max(A) <= b
  BY <1>3, ZenonT(30)
<1>5. PICK a \in A : Max(B) <= a
  BY <1>3, ZenonT(30)
<1>6. Max(A) \in Nat /\ Max(B) \in Nat /\ a \in Nat /\ b \in Nat /\ Max(B) >= b /\ Max(A) >= a
  BY <1>3, ZenonT(30)
<1> QED
  BY <1>4, <1>5, <1>6

-----------------------------------------------------------------------------
(* Prefixes and the longest common prefix. *)

Agree(p, q, n) == \A i \in 1 .. n : p[i] = q[i]

\* The first n bytes of p.
Cut(p, n) == SubSeq(p, 1, n)

\* Agreeing on the first n bytes is transitive.
LEMMA AgreeTrans ==
    ASSUME NEW p, NEW q, NEW r, NEW m \in Nat, NEW n \in Nat, NEW k \in Nat, k <= m, k <= n,
           Agree(p, q, m), Agree(q, r, n)
    PROVE  Agree(p, r, k)
  BY DEF Agree

\* Agreeing on the first n bytes is symmetric.
LEMMA AgreeSym ==
    ASSUME NEW p, NEW q, NEW n, Agree(p, q, n)
    PROVE  Agree(q, p, n)
  BY DEF Agree

\* Texts that agree on all their bytes are the same.
LEMMA SeqSame ==
    ASSUME NEW C, NEW p \in Seq(C), NEW q \in Seq(C), Len(p) = Len(q), Agree(p, q, Len(p))
    PROVE  p = q
  BY DEF Agree

\* What the first n bytes of a text are.
LEMMA CutIs ==
    ASSUME NEW C, NEW p \in Seq(C), NEW n \in 0 .. Len(p)
    PROVE  Cut(p, n) \in Seq(C) /\ Len(Cut(p, n)) = n /\ Agree(Cut(p, n), p, n)
  BY DEF Agree, Cut

\* commonLen gives the largest n such that the first n bytes agree.
LEMMA CommonAgree ==
    ASSUME NEW C, NEW p \in Seq(C), NEW q \in Seq(C)
    PROVE  /\ CommonLen(p, q) \in 0 .. Len(p) /\ CommonLen(p, q) <= Len(q)
           /\ Agree(p, q, CommonLen(p, q))
           /\ \A n \in Nat : n <= Len(p) /\ n <= Len(q) /\ Agree(p, q, n) => n <= CommonLen(p, q)
<1> DEFINE K == {n \in DOMAIN p : n <= Len(q) /\ \A i \in 1 .. n : p[i] = q[i]}
<1>1. DOMAIN p = 1 .. Len(p) /\ Len(p) \in Nat /\ Len(q) \in Nat
  OBVIOUS
<1>2. CommonLen(p, q) = Cardinality(K)
  BY DEF CommonLen
<1>3. K \in SUBSET (1 .. Len(p)) /\ K \in SUBSET Int /\ K \in SUBSET Nat
  BY <1>1
<1>4. IsFiniteSet(K)
  <2> HIDE DEF K
  <2> QED
    BY <1>1, <1>3, IntervalCount, FS_Subset, ZenonT(30)
<1>5. \A n \in 1 .. Len(p) : n \in K <=> n <= Len(q) /\ Agree(p, q, n)
  BY <1>1 DEF Agree
<1>6. CASE K = {}
  <2>1. Cardinality(K) = 0
    BY <1>6, FS_EmptySet, ZenonT(30)
  <2>2. Agree(p, q, 0)
    BY DEF Agree
  <2> HIDE DEF K
  <2>3. ASSUME NEW n \in Nat, n <= Len(p), n <= Len(q), Agree(p, q, n) PROVE n <= 0
    BY <1>1, <1>5, <1>6, <2>3
  <2> QED
    BY <1>1, <1>2, <2>1, <2>2, <2>3
<1>7. CASE K # {}
  <2> HIDE DEF K
  <2>1. PICK m \in K : \A n \in K : m >= n
    BY <1>3, <1>4, <1>7, HasGreatest
  <2>2. m \in 1 .. Len(p) /\ m <= Len(q) /\ Agree(p, q, m)
    BY <1>3, <1>5, <2>1
  <2>3. ASSUME NEW n \in 1 .. m PROVE n \in K
    <3>1. n \in 1 .. Len(p) /\ n <= Len(q)
      BY <1>1, <2>2
    <3>2. Agree(p, q, n)
      BY <2>2 DEF Agree
    <3> QED
      BY <1>5, <3>1, <3>2
  <2>4. K = 1 .. m
    <3>1. \A n \in K : n \in 1 .. m
      BY <1>1, <1>3, <2>1, <2>2
    <3> QED
      BY <2>3, <3>1, ZenonT(30)
  <2>5. Cardinality(K) = m
    BY <2>2, <2>4, IntervalCount
  <2>6. ASSUME NEW n \in Nat, n <= Len(p), n <= Len(q), Agree(p, q, n) PROVE n <= m
    <3>1. n = 0 \/ n \in K
      BY <1>1, <1>5, <2>6
    <3> QED
      BY <2>1, <2>2, <3>1
  <2> QED
    BY <1>1, <1>2, <2>2, <2>5, <2>6
<1> QED
  BY <1>6, <1>7

\* A prefix is a text that is not longer and agrees on all its bytes.
LEMMA PrefixIs ==
    ASSUME NEW C, NEW p \in Seq(C), NEW q \in Seq(C)
    PROVE  IsPrefix(p, q) <=> Len(p) <= Len(q) /\ Agree(p, q, Len(p))
<1>1. Len(p) \in Nat /\ Len(q) \in Nat
  OBVIOUS
<1>2. CommonLen(p, q) \in 0 .. Len(p) /\ CommonLen(p, q) <= Len(q) /\ Agree(p, q, CommonLen(p, q))
  BY CommonAgree, ZenonT(30)
<1>3. Len(p) <= Len(q) /\ Agree(p, q, Len(p)) => Len(p) <= CommonLen(p, q)
  BY <1>1, CommonAgree
<1> QED
  BY <1>1, <1>2, <1>3 DEF IsPrefix

\* The longest common prefix of two texts.
Com(p, q) == Cut(p, CommonLen(p, q))

\* A text is its own prefix.
LEMMA PrefixRefl ==
    ASSUME NEW C, NEW p \in Seq(C)
    PROVE  IsPrefix(p, p)
<1>1. Len(p) \in Nat /\ Agree(p, p, Len(p))
  BY DEF Agree
<1> QED
  BY <1>1, PrefixIs

\* A prefix is not longer.
LEMMA PrefixLen ==
    ASSUME NEW C, NEW p \in Seq(C), NEW q \in Seq(C), IsPrefix(p, q)
    PROVE  Len(p) <= Len(q) /\ (Len(p) = Len(q) => p = q)
  BY PrefixIs, SeqSame

\* A prefix of a prefix is a prefix.
LEMMA PrefixTrans ==
    ASSUME NEW C, NEW p \in Seq(C), NEW q \in Seq(C), NEW r \in Seq(C),
           IsPrefix(p, q), IsPrefix(q, r)
    PROVE  IsPrefix(p, r)
<1>1. Len(p) \in Nat /\ Len(q) \in Nat /\ Len(r) \in Nat
  OBVIOUS
<1>2. Len(p) <= Len(q) /\ Len(q) <= Len(r) /\ Agree(p, q, Len(p)) /\ Agree(q, r, Len(q))
  BY PrefixIs
<1>3. Agree(p, r, Len(p))
  BY <1>1, <1>2, AgreeTrans
<1> QED
  BY <1>1, <1>2, <1>3, PrefixIs

\* Of two prefixes of a text the shorter one is a prefix of the longer one.
LEMMA PrefixChain ==
    ASSUME NEW C, NEW p \in Seq(C), NEW q \in Seq(C), NEW r \in Seq(C),
           IsPrefix(p, r), IsPrefix(q, r), Len(p) <= Len(q)
    PROVE  IsPrefix(p, q)
<1>1. Len(p) \in Nat /\ Len(q) \in Nat /\ Len(r) \in Nat
  OBVIOUS
<1>2. Agree(p, r, Len(p)) /\ Agree(r, q, Len(q))
  BY PrefixIs, AgreeSym
<1>3. Agree(p, q, Len(p))
  BY <1>1, <1>2, AgreeTrans
<1> QED
  BY <1>1, <1>3, PrefixIs

\* The first n bytes of a text are a prefix of it.
LEMMA CutPrefix ==
    ASSUME NEW C, NEW p \in Seq(C), NEW n \in 0 .. Len(p)
    PROVE  Cut(p, n) \in Seq(C) /\ Len(Cut(p, n)) = n /\ IsPrefix(Cut(p, n), p)
<1>1. Cut(p, n) \in Seq(C) /\ Len(Cut(p, n)) = n /\ Agree(Cut(p, n), p, n) /\ n <= Len(p)
  BY CutIs
<1> QED
  BY <1>1, PrefixIs

\* The longest common prefix is a prefix of both.
LEMMA ComIs ==
    ASSUME NEW C, NEW p \in Seq(C), NEW q \in Seq(C)
    PROVE  /\ CommonLen(p, q) \in Nat
           /\ Com(p, q) \in Seq(C) /\ Len(Com(p, q)) = CommonLen(p, q)
           /\ IsPrefix(Com(p, q), p) /\ IsPrefix(Com(p, q), q)
<1> DEFINE c == CommonLen(p, q)
<1>1. c \in 0 .. Len(p) /\ c <= Len(q) /\ Agree(p, q, c)
  BY CommonAgree, ZenonT(30)
<1>2. Len(p) \in Nat /\ Len(q) \in Nat /\ c \in Nat
  BY <1>1
<1> HIDE DEF c
<1>3. Cut(p, c) \in Seq(C) /\ Len(Cut(p, c)) = c /\ Agree(Cut(p, c), p, c)
  BY <1>1, CutIs, ZenonT(30)
<1>4. IsPrefix(Cut(p, c), p)
  BY <1>1, CutPrefix, ZenonT(30)
<1>5. Agree(Cut(p, c), q, c)
  BY <1>1, <1>2, <1>3, AgreeTrans
<1>6. IsPrefix(Cut(p, c), q)
  BY <1>1, <1>3, <1>5, PrefixIs
<1> QED
  BY <1>2, <1>3, <1>4, <1>6 DEF Com, c

\* Every common prefix is a prefix of the longest.
LEMMA ComGreatest ==
    ASSUME NEW C, NEW p \in Seq(C), NEW q \in Seq(C), NEW r \in Seq(C),
           IsPrefix(r, p), IsPrefix(r, q)
    PROVE  Len(r) <= CommonLen(p, q) /\ IsPrefix(r, Com(p, q))
<1>1. Len(r) \in Nat /\ Len(p) \in Nat /\ Len(q) \in Nat
  OBVIOUS
<1>2. Len(r) <= Len(p) /\ Len(r) <= Len(q) /\ Agree(p, r, Len(r)) /\ Agree(r, q, Len(r))
  BY PrefixIs, AgreeSym
<1>3. Agree(p, q, Len(r))
  BY <1>1, <1>2, AgreeTrans
<1>4. Len(r) <= CommonLen(p, q)
  BY <1>1, <1>2, <1>3, CommonAgree
<1> QED
  BY <1>4, ComIs, PrefixChain

\* The longest common prefix is the only common prefix that every other one is a prefix of.
LEMMA ComUnique ==
    ASSUME NEW C, NEW p \in Seq(C), NEW q \in Seq(C), NEW r \in Seq(C),
           IsPrefix(r, p), IsPrefix(r, q), IsPrefix(Com(p, q), r)
    PROVE  Com(p, q) = r /\ CommonLen(p, q) = Len(r)
<1>1. IsPrefix(r, Com(p, q)) /\ Com(p, q) \in Seq(C) /\ Len(Com(p, q)) = CommonLen(p, q)
  BY ComGreatest, ComIs
<1> QED
  BY <1>1, PrefixLen

\* The longest common prefix does not depend on the order.
LEMMA ComSym ==
    ASSUME NEW C, NEW p \in Seq(C), NEW q \in Seq(C)
    PROVE  Com(p, q) = Com(q, p)
<1>1. /\ Com(q, p) \in Seq(C) /\ IsPrefix(Com(q, p), p) /\ IsPrefix(Com(q, p), q)
      /\ Com(p, q) \in Seq(C) /\ IsPrefix(Com(p, q), p) /\ IsPrefix(Com(p, q), q)
  BY ComIs
<1>2. IsPrefix(Com(p, q), Com(q, p))
  BY <1>1, ComGreatest
<1> QED
  BY <1>1, <1>2, ComUnique

\* What a prefix has in common with a text is no more than what the whole has.
LEMMA ComMonotone ==
    ASSUME NEW C, NEW p \in Seq(C), NEW q \in Seq(C), NEW r \in Seq(C), IsPrefix(p, q)
    PROVE  CommonLen(p, r) <= CommonLen(q, r)
<1>1. /\ Com(p, r) \in Seq(C) /\ IsPrefix(Com(p, r), p) /\ IsPrefix(Com(p, r), r)
      /\ Len(Com(p, r)) = CommonLen(p, r)
  BY ComIs
<1>2. IsPrefix(Com(p, r), q)
  BY <1>1, PrefixTrans
<1> QED
  BY <1>1, <1>2, ComGreatest

-----------------------------------------------------------------------------
(* Sets of paths, and the bytes on the edges of the tree they are the nodes of. *)

\* EdgeStart and EdgeBytes, of the set of nodes.
Parents(N, p) == {q \in N : IsStrictPrefix(q, p)}
EdgeFrom(N, p) == Max({0} \cup {Len(q) : q \in Parents(N, p)})
Bytes(N, P) == UNION {{p} \X (EdgeFrom(N, p) + 1 .. Len(p)) : p \in P}

\* An edge starts where the longest node that is a proper prefix ends, or at the root.
LEMMA StartIs ==
    ASSUME NEW C, NEW N \in SUBSET Seq(C), NEW p \in Seq(C)
    PROVE  /\ EdgeFrom(N, p) \in 0 .. Len(p)
           /\ \A q \in Parents(N, p) : Len(q) <= EdgeFrom(N, p)
           /\ EdgeFrom(N, p) = 0 \/ \E q \in Parents(N, p) : Len(q) = EdgeFrom(N, p)
<1> DEFINE S == {0} \cup {Len(q) : q \in Parents(N, p)}
<1>1. \A q \in Parents(N, p) : Len(q) \in 0 .. Len(p)
  <2>1. ASSUME NEW q \in Parents(N, p) PROVE Len(q) \in 0 .. Len(p)
    <3>1. q \in Seq(C) /\ IsPrefix(q, p)
      BY DEF Parents, IsStrictPrefix
    <3> QED
      BY <3>1, PrefixLen
  <2> QED
    BY <2>1
<1>2. S \in SUBSET Nat /\ S \in SUBSET Int /\ (\A n \in S : n <= Len(p)) /\ S # {} /\ Len(p) \in Nat
  BY <1>1
<1>3. IsFiniteSet(S)
  <2> HIDE DEF S
  <2> QED
    BY <1>2, FS_BoundedSetOfNaturals
<1>4. Max(S) \in S /\ \A n \in S : Max(S) >= n
  <2> HIDE DEF S
  <2> QED
    BY <1>2, <1>3, MaxIs
<1>5. EdgeFrom(N, p) = Max(S)
  BY DEF EdgeFrom
<1>6. Max(S) \in Nat /\ Max(S) <= Len(p)
  BY <1>2, <1>4
<1>7. \A q \in Parents(N, p) : Len(q) <= Max(S)
  BY <1>1, <1>4, <1>6
<1> QED
  BY <1>2, <1>4, <1>5, <1>6, <1>7

StartsAt(N, p, e) ==
    /\ \A q \in Parents(N, p) : Len(q) <= e
    /\ e = 0 \/ \E q \in Parents(N, p) : Len(q) = e

\* There is only one place where an edge can start.
LEMMA StartUnique ==
    ASSUME NEW C, NEW N \in SUBSET Seq(C), NEW p \in Seq(C), NEW e \in Nat, StartsAt(N, p, e)
    PROVE  EdgeFrom(N, p) = e
<1>1. \A q \in Parents(N, p) : Len(q) \in Nat
  BY DEF Parents
<1>2. EdgeFrom(N, p) \in Nat
  <2>1. EdgeFrom(N, p) \in 0 .. Len(p)
    BY StartIs, ZenonT(30)
  <2> QED
    BY <2>1
<1>3. StartsAt(N, p, EdgeFrom(N, p))
  BY StartIs, ZenonT(30) DEF StartsAt
<1> QED
  BY <1>1, <1>2, <1>3 DEF StartsAt

\* The start of an edge depends on these prefixes alone.
LEMMA StartSame ==
    ASSUME NEW M, NEW N, NEW p, NEW q, Parents(M, p) = Parents(N, q)
    PROVE  EdgeFrom(M, p) = EdgeFrom(N, q)
  BY DEF EdgeFrom

\* Finitely many nodes have finitely many bytes.
LEMMA BytesFinite ==
    ASSUME NEW C, NEW N \in SUBSET Seq(C), NEW P \in SUBSET N, IsFiniteSet(P)
    PROVE  IsFiniteSet(Bytes(N, P))
<1> DEFINE Edge(p) == {p} \X (EdgeFrom(N, p) + 1 .. Len(p))
           F == [p \in P |-> Edge(p)]
           T == {Edge(p) : p \in P}
<1>1. ASSUME NEW p \in P PROVE IsFiniteSet(Edge(p))
  <2> p \in Seq(C)
    OBVIOUS
  <2>1. EdgeFrom(N, p) + 1 \in Int /\ Len(p) \in Int
    <3>1. EdgeFrom(N, p) \in 0 .. Len(p)
      BY StartIs, ZenonT(30)
    <3>2. Len(p) \in Nat
      OBVIOUS
    <3> QED
      BY <3>1, <3>2
  <2>2. IsFiniteSet(EdgeFrom(N, p) + 1 .. Len(p))
    BY <2>1, FS_Interval
  <2>3. IsFiniteSet({p})
    BY FS_Singleton, ZenonT(30)
  <2> QED
    BY <2>2, <2>3, FS_Product, ZenonT(30)
<1>2. F \in Surjection(P, T)
  <2> HIDE DEF Edge
  <2> QED
    BY ZenonT(30) DEF Surjection
<1>3. \A e \in T : IsFiniteSet(e)
  <2> HIDE DEF Edge
  <2> QED
    BY <1>1, ZenonT(30)
<1>4. Bytes(N, P) = UNION T
  BY ZenonT(30) DEF Bytes
<1> HIDE DEF F, T
<1>5. IsFiniteSet(T)
  BY <1>2, FS_Surjection, ZenonT(30)
<1> QED
  BY <1>3, <1>4, <1>5, FS_UNION, ZenonT(30)

\* The bytes of one edge, counted.
LEMMA EdgeCount ==
    ASSUME NEW p, NEW m \in Nat, NEW n \in Nat, m <= n
    PROVE  IsFiniteSet({p} \X (m + 1 .. n)) /\ Cardinality({p} \X (m + 1 .. n)) = n - m
<1>1. IsFiniteSet({p}) /\ Cardinality({p}) = 1
  BY FS_Singleton, ZenonT(30)
<1>2. IsFiniteSet(m + 1 .. n) /\ Cardinality(m + 1 .. n) = n - m
  <2> DEFINE a == m + 1
  <2>1. a \in Int /\ n \in Int
    OBVIOUS
  <2>2. IsFiniteSet(a .. n) /\ Cardinality(a .. n) = IF a > n THEN 0 ELSE n - a + 1
    <3> HIDE DEF a
    <3> QED
      BY <2>1, FS_Interval
  <2> QED
    BY <2>2
<1>3. /\ IsFiniteSet({p} \X (m + 1 .. n))
      /\ Cardinality({p} \X (m + 1 .. n)) = Cardinality({p}) * Cardinality(m + 1 .. n)
  BY <1>1, <1>2, FS_Product, ZenonT(30)
<1> QED
  BY <1>1, <1>2, <1>3

-----------------------------------------------------------------------------
(* A path is added: the node where it forks off, and its end. *)

\* Nodes that begin alike have a node where they part: no node has two children whose
\* edges begin with the same byte.
Closed(N) == \A p, q \in N : Com(p, q) \in N \cup {<< >>}

\* In a set of texts there is a shortest one.
LEMMA Shortest ==
    ASSUME NEW C, NEW Q \in SUBSET Seq(C), Q # {}
    PROVE  \E p \in Q : \A q \in Q : Len(p) <= Len(q)
<1> DEFINE S(n) == {Len(q) : q \in {q \in Q : Len(q) <= n}}
<1>1. PICK r \in Q : TRUE
  OBVIOUS
<1>2. Len(r) \in Nat /\ \A q \in Q : Len(q) \in Nat
  OBVIOUS
<1>3. S(Len(r)) \in SUBSET Nat /\ S(Len(r)) \in SUBSET Int /\ S(Len(r)) # {} /\ \A n \in S(Len(r)) : n <= Len(r)
  BY <1>1, <1>2
<1>4. PICK m \in S(Len(r)) : \A n \in S(Len(r)) : m <= n
  <2> HIDE DEF S
  <2>1. IsFiniteSet(S(Len(r)))
    BY <1>2, <1>3, FS_BoundedSetOfNaturals, ZenonT(30)
  <2> QED
    BY <1>3, <2>1, HasLeast, ZenonT(30)
<1>5. PICK p \in Q : Len(p) = m /\ m <= Len(r)
  BY <1>3, <1>4
<1>6. ASSUME NEW q \in Q PROVE Len(p) <= Len(q)
  <2>1. CASE Len(q) <= Len(r)
    BY <1>4, <1>5, <2>1, ZenonT(30)
  <2> QED
    BY <1>2, <1>5, <2>1
<1> QED
  BY <1>6

\* Splitting an edge.
LEMMA SplitClosed ==
    ASSUME NEW C, NEW N \in SUBSET Seq(C), Closed(N), NEW f \in Seq(C), NEW r \in N, IsPrefix(f, r)
    PROVE  Closed(N \cup {f})
<1>1. ASSUME NEW p \in N PROVE Com(p, f) \in N \cup {f, << >>}
  <2>1. p \in Seq(C) /\ r \in Seq(C)
    OBVIOUS
  <2>2. Com(p, r) \in N \cup {<< >>} /\ Com(p, r) \in Seq(C) /\ IsPrefix(Com(p, r), p) /\ IsPrefix(Com(p, r), r)
    BY <2>1, ComIs DEF Closed
  <2>3. /\ Com(p, f) \in Seq(C) /\ IsPrefix(Com(p, f), p) /\ IsPrefix(Com(p, f), f)
        /\ Len(f) \in Nat /\ Len(Com(p, r)) \in Nat
    BY <2>1, <2>2, ComIs
  <2>4. IsPrefix(Com(p, f), Com(p, r))
    BY <2>1, <2>3, PrefixTrans, ComGreatest
  <2>5. CASE Len(Com(p, r)) <= Len(f)
    <3>1. IsPrefix(Com(p, r), f)
      BY <2>1, <2>2, <2>5, PrefixChain
    <3>2. Com(p, f) = Com(p, r)
      BY <2>1, <2>2, <2>4, <3>1, ComUnique
    <3> QED
      BY <2>2, <3>2
  <2>6. CASE Len(f) <= Len(Com(p, r))
    <3>1. IsPrefix(f, Com(p, r))
      BY <2>1, <2>2, <2>6, PrefixChain
    <3>2. IsPrefix(f, p) /\ IsPrefix(f, f)
      BY <2>1, <2>2, <3>1, PrefixTrans, PrefixRefl
    <3>3. Com(p, f) = f
      BY <2>1, <2>3, <3>2, ComUnique
    <3> QED
      BY <3>3
  <2> QED
    BY <2>3, <2>5, <2>6
<1>2. Com(f, f) = f
  <2>1. IsPrefix(f, f) /\ IsPrefix(Com(f, f), f)
    BY PrefixRefl, ComIs
  <2> QED
    BY <2>1, ComUnique
<1>3. \A p \in N : Com(f, p) = Com(p, f)
  BY ComSym
<1> QED
  BY <1>1, <1>2, <1>3 DEF Closed

\* Adding a leaf below the node f where the key leaves the tree.
LEMMA LeafClosed ==
    ASSUME NEW C, NEW N \in SUBSET Seq(C), Closed(N), NEW key \in Seq(C), NEW f \in N \cup {<< >>},
           IsPrefix(f, key), \A p \in N : IsPrefix(Com(p, key), f)
    PROVE  Closed(N \cup {key})
<1>1. f \in Seq(C)
  BY EmptyText, ZenonT(30)
<1>2. ASSUME NEW p \in N PROVE Com(p, key) \in N \cup {<< >>}
  <2>1. p \in Seq(C)
    OBVIOUS
  <2>2. /\ Com(p, key) \in Seq(C) /\ IsPrefix(Com(p, key), p)
        /\ Com(p, f) \in Seq(C) /\ IsPrefix(Com(p, f), p) /\ IsPrefix(Com(p, f), f)
    BY <1>1, <2>1, ComIs
  <2>3. IsPrefix(Com(p, key), Com(p, f))
    BY <1>1, <2>1, <2>2, ComGreatest
  <2>4. IsPrefix(Com(p, f), key)
    BY <1>1, <2>2, PrefixTrans
  <2>5. Com(p, key) = Com(p, f)
    BY <2>1, <2>2, <2>3, <2>4, ComUnique
  <2>6. CASE f \in N
    BY <2>5, <2>6 DEF Closed
  <2>7. CASE f = << >>
    <3>1. Len(Com(p, f)) <= Len(f)
      BY <1>1, <2>2, PrefixLen
    <3>2. Len(f) = 0
      BY <2>7, EmptyText, ZenonT(30)
    <3>3. Len(Com(p, f)) = 0
      BY <2>2, <3>1, <3>2
    <3> QED
      BY <2>2, <2>5, <3>3, EmptyText, ZenonT(30)
  <2> QED
    BY <2>6, <2>7
<1>3. Com(key, key) = key
  <2>1. IsPrefix(key, key) /\ IsPrefix(Com(key, key), key)
    BY PrefixRefl, ComIs
  <2> QED
    BY <2>1, ComUnique
<1>4. \A p \in N : Com(key, p) = Com(p, key)
  BY ComSym
<1> QED
  BY <1>2, <1>3, <1>4 DEF Closed

\* The bytes of the new leaf come on top.
LEMMA LeafBytes ==
    ASSUME NEW C, NEW N \in SUBSET Seq(C), IsFiniteSet(N), NEW key \in Seq(C), NEW f \in N \cup {<< >>},
           key \notin N, key # << >>, IsPrefix(f, key), \A p \in N : IsPrefix(Com(p, key), f)
    PROVE  Cardinality(Bytes(N \cup {key}, N \cup {key})) = Cardinality(Bytes(N, N)) + Len(key) - Len(f)
<1> DEFINE M == N \cup {key}
           Edge(p) == {p} \X (EdgeFrom(N, p) + 1 .. Len(p))
           X == {key} \X (Len(f) + 1 .. Len(key))
<1>1. f \in Seq(C) /\ M \in SUBSET Seq(C) /\ Len(f) \in Nat /\ Len(key) \in Nat /\ f # key
  <2>1. f \in Seq(C) /\ f # key
    BY EmptyText, ZenonT(30)
  <2> QED
    BY <2>1
<1>2. Len(f) <= Len(key)
  BY <1>1, PrefixLen
<1>3. ASSUME NEW p \in N PROVE ~ IsPrefix(key, p)
  <2> SUFFICES ASSUME IsPrefix(key, p) PROVE FALSE
    OBVIOUS
  <2>1. p \in Seq(C) /\ IsPrefix(key, key) /\ Com(p, key) \in Seq(C)
    BY PrefixRefl, ComIs
  <2>2. IsPrefix(key, Com(p, key))
    BY <2>1, ComGreatest
  <2>3. IsPrefix(key, f)
    BY <1>1, <2>1, <2>2, PrefixTrans
  <2> QED
    BY <1>1, <2>3, PrefixLen
<1>4. ASSUME NEW p \in N PROVE EdgeFrom(M, p) = EdgeFrom(N, p)
  <2>1. Parents(M, p) = Parents(N, p)
    BY <1>3 DEF Parents, IsStrictPrefix
  <2> QED
    BY <2>1, StartSame
<1>5. EdgeFrom(M, key) = Len(f)
  <2>1. ASSUME NEW q \in Parents(M, key) PROVE Len(q) <= Len(f)
    <3>1. q \in N /\ q \in Seq(C) /\ IsPrefix(q, key)
      BY <2>1 DEF Parents, IsStrictPrefix
    <3>2. IsPrefix(q, q) /\ Com(q, key) \in Seq(C)
      BY <3>1, PrefixRefl, ComIs
    <3>3. IsPrefix(q, Com(q, key))
      BY <3>1, <3>2, ComGreatest
    <3>4. IsPrefix(q, f)
      BY <1>1, <3>1, <3>2, <3>3, PrefixTrans
    <3> QED
      BY <1>1, <3>1, <3>4, PrefixLen
  <2>2. Len(f) = 0 \/ \E q \in Parents(M, key) : Len(q) = Len(f)
    BY <1>1 DEF Parents, IsStrictPrefix
  <2>3. StartsAt(M, key, Len(f))
    BY <2>1, <2>2, ZenonT(30) DEF StartsAt
  <2> QED
    BY <1>1, <2>3, StartUnique
<1>6. Bytes(M, M) = Bytes(N, N) \cup X /\ Bytes(N, N) \cap X = {}
  <2>1. ASSUME NEW x
        PROVE  /\ x \in Bytes(M, M) <=> x \in X \/ \E p \in N : x \in Edge(p)
               /\ x \in Bytes(N, N) <=> \E p \in N : x \in Edge(p)
    BY <1>4, <1>5, ZenonT(30) DEF Bytes
  <2>2. ASSUME NEW x, NEW p \in N, x \in Edge(p) PROVE x \notin X
    BY <2>2
  <2> HIDE DEF Edge, X, M
  <2>3. Bytes(M, M) = Bytes(N, N) \cup X
    BY <2>1
  <2>4. \A x : x \in Bytes(N, N) => x \notin X
    BY <2>1, <2>2
  <2> QED
    BY <2>3, <2>4
<1>7. IsFiniteSet(X) /\ Cardinality(X) = Len(key) - Len(f)
  BY <1>1, <1>2, EdgeCount, ZenonT(30)
<1>8. IsFiniteSet(Bytes(N, N)) /\ Cardinality(Bytes(N, N)) \in Nat
  BY BytesFinite, FS_CardinalityType
<1> HIDE DEF X, M
<1>9. Cardinality(Bytes(N, N) \cup X)
        = Cardinality(Bytes(N, N)) + Cardinality(X) - Cardinality(Bytes(N, N) \cap X)
  BY <1>7, <1>8, FS_Union, ZenonT(30)
<1>10. Cardinality(Bytes(N, N) \cap X) = 0
  BY <1>6, FS_EmptySet, ZenonT(30)
<1>11. Cardinality(Bytes(M, M)) = Cardinality(Bytes(N, N)) + Len(key) - Len(f)
  BY <1>1, <1>6, <1>7, <1>8, <1>9, <1>10
<1> QED
  BY <1>11 DEF M

\* The nodes below a point inside the tree.
Below(N, f) == {p \in N : IsPrefix(f, p)}
IsChild(c, N, f) == c \in Below(N, f) /\ \A q \in Below(N, f) : IsPrefix(c, q)

\* Below such a point there is one child that all the others are below.
LEMMA ChildExists ==
    ASSUME NEW C, NEW N \in SUBSET Seq(C), Closed(N), NEW f \in Seq(C), f # << >>,
           NEW r \in N, IsPrefix(f, r)
    PROVE  \E c : IsChild(c, N, f)
<1>1. Below(N, f) \in SUBSET Seq(C) /\ Below(N, f) # {}
  BY DEF Below
<1>2. PICK c \in Below(N, f) : \A q \in Below(N, f) : Len(c) <= Len(q)
  BY <1>1, Shortest, ZenonT(30)
<1>3. ASSUME NEW q \in Below(N, f) PROVE IsPrefix(c, q)
  <2>1. c \in N /\ q \in N /\ c \in Seq(C) /\ q \in Seq(C) /\ IsPrefix(f, c) /\ IsPrefix(f, q)
    BY <1>1 DEF Below
  <2>2. /\ Com(c, q) \in Seq(C) /\ IsPrefix(Com(c, q), c) /\ IsPrefix(Com(c, q), q)
        /\ Com(c, q) \in N \cup {<< >>}
    BY <2>1, ComIs DEF Closed
  <2>3. IsPrefix(f, Com(c, q))
    BY <2>1, ComGreatest
  <2>4. Com(c, q) # << >>
    <3>1. Len(f) # 0 /\ Len(f) \in Nat /\ Len(f) <= Len(Com(c, q))
      BY <2>2, <2>3, PrefixLen, EmptyText
    <3> QED
      BY <3>1
  <2>5. Com(c, q) \in Below(N, f)
    BY <2>2, <2>3, <2>4 DEF Below
  <2>6. Len(c) <= Len(Com(c, q)) /\ Len(Com(c, q)) <= Len(c)
    BY <1>2, <2>1, <2>2, <2>5, PrefixLen
  <2>7. Com(c, q) = c
    BY <2>1, <2>2, <2>6, PrefixLen
  <2> QED
    BY <2>2, <2>7
<1> QED
  BY <1>2, <1>3 DEF IsChild

\* Splitting an edge moves bytes from the child to the new node, and adds none.
LEMMA SplitBytes ==
    ASSUME NEW C, NEW N \in SUBSET Seq(C), IsFiniteSet(N), Closed(N),
           NEW f \in Seq(C), f # << >>, f \notin N, NEW r \in N, IsPrefix(f, r)
    PROVE  Cardinality(Bytes(N \cup {f}, N \cup {f})) = Cardinality(Bytes(N, N))
<1> DEFINE M == N \cup {f}
           Edge(p) == {p} \X (EdgeFrom(N, p) + 1 .. Len(p))
           Edge1(p) == {p} \X (EdgeFrom(M, p) + 1 .. Len(p))
<1>1. PICK c : IsChild(c, N, f)
  BY ChildExists
<1>2. /\ c \in N /\ c \in Seq(C) /\ IsPrefix(f, c) /\ c # f
      /\ \A q \in N : IsPrefix(f, q) => IsPrefix(c, q)
  BY <1>1 DEF IsChild, Below
<1>3. M \in SUBSET Seq(C) /\ Len(f) \in Nat /\ Len(c) \in Nat /\ Len(f) < Len(c)
  <2>1. Len(f) <= Len(c) /\ (Len(f) = Len(c) => f = c)
    BY <1>2, PrefixLen
  <2> QED
    BY <1>2, <2>1
<1>4. ASSUME NEW q \in Parents(N, c) PROVE IsStrictPrefix(q, f) /\ Len(q) <= Len(f)
  <2>1. q \in N /\ q \in Seq(C) /\ IsPrefix(q, c) /\ q # c /\ Len(q) \in Nat
    BY DEF Parents, IsStrictPrefix
  <2>2. ~ IsPrefix(f, q)
    <3> SUFFICES ASSUME IsPrefix(f, q) PROVE FALSE
      OBVIOUS
    <3>1. IsPrefix(c, q)
      BY <1>2, <2>1
    <3>2. Len(c) <= Len(q) /\ Len(q) <= Len(c)
      BY <1>2, <2>1, <3>1, PrefixLen
    <3>3. q = c
      BY <1>2, <1>3, <2>1, <3>2, PrefixLen
    <3> QED
      BY <2>1, <3>3
  <2>3. ~ (Len(f) <= Len(q))
    BY <1>2, <2>1, <2>2, PrefixChain
  <2>4. Len(q) <= Len(f)
    BY <1>3, <2>1, <2>3
  <2>5. IsPrefix(q, f)
    BY <1>2, <2>1, <2>4, PrefixChain
  <2> QED
    BY <2>1, <2>4, <2>5 DEF IsStrictPrefix
<1>5. EdgeFrom(M, f) = EdgeFrom(N, c)
  <2>1. ASSUME NEW q \in Parents(M, f) PROVE q \in Parents(N, c)
    <3>1. q \in N /\ q \in Seq(C) /\ IsPrefix(q, f) /\ q # f
      BY DEF Parents, IsStrictPrefix
    <3>2. IsPrefix(q, c) /\ Len(q) <= Len(f) /\ Len(q) \in Nat
      BY <1>2, <3>1, PrefixTrans, PrefixLen
    <3>3. q # c
      BY <1>3, <3>2
    <3> QED
      BY <3>1, <3>2, <3>3 DEF Parents, IsStrictPrefix
  <2>2. ASSUME NEW q \in Parents(N, c) PROVE q \in Parents(M, f)
    BY <1>4 DEF Parents
  <2>3. Parents(M, f) = Parents(N, c)
    BY <2>1, <2>2, ZenonT(30)
  <2> QED
    BY <2>3, StartSame
<1>6. EdgeFrom(M, c) = Len(f)
  <2>1. f \in Parents(M, c)
    BY <1>2 DEF Parents, IsStrictPrefix
  <2>2. ASSUME NEW q \in Parents(M, c) PROVE Len(q) <= Len(f)
    <3>1. q = f \/ q \in Parents(N, c)
      BY DEF Parents
    <3> QED
      BY <1>3, <1>4, <3>1
  <2>3. StartsAt(M, c, Len(f))
    BY <2>1, <2>2, ZenonT(30) DEF StartsAt
  <2> HIDE DEF M
  <2> QED
    BY <1>2, <1>3, <2>3, StartUnique
<1>7. ASSUME NEW p \in N, p # c PROVE EdgeFrom(M, p) = EdgeFrom(N, p)
  <2>1. p \in Seq(C)
    OBVIOUS
  <2>2. CASE IsPrefix(f, p)
    <3>1. c \in Parents(N, p)
      BY <1>2, <1>7, <2>2 DEF Parents, IsStrictPrefix
    <3>2. StartsAt(N, p, EdgeFrom(N, p)) /\ EdgeFrom(N, p) \in 0 .. Len(p)
      BY <2>1, StartIs, ZenonT(30) DEF StartsAt
    <3>3. EdgeFrom(N, p) \in Nat /\ Len(c) <= EdgeFrom(N, p)
      BY <2>1, <3>1, <3>2 DEF StartsAt
    <3>4. Len(f) <= EdgeFrom(N, p)
      BY <1>3, <3>3
    <3>5. Parents(M, p) \subseteq Parents(N, p) \cup {f} /\ Parents(N, p) \subseteq Parents(M, p)
      BY DEF Parents
    <3>6. StartsAt(M, p, EdgeFrom(N, p))
      <4> HIDE DEF M
      <4> QED
        BY <3>2, <3>4, <3>5, ZenonT(30) DEF StartsAt
    <3> HIDE DEF M
    <3> QED
      BY <1>3, <2>1, <3>3, <3>6, StartUnique
  <2>3. CASE ~ IsPrefix(f, p)
    <3>1. Parents(M, p) = Parents(N, p)
      BY <2>3 DEF Parents, IsStrictPrefix
    <3> QED
      BY <3>1, StartSame
  <2> QED
    BY <2>2, <2>3
<1> DEFINE e == EdgeFrom(N, c)
           X == {c} \X (e + 1 .. Len(f))
           Y == {f} \X (e + 1 .. Len(f))
<1>8. e \in Nat /\ e <= Len(f)
  <2>1. EdgeFrom(M, f) \in 0 .. Len(f)
    BY <1>3, StartIs, ZenonT(30)
  <2> QED
    BY <1>3, <1>5, <2>1
<1>9. Edge1(f) = Y /\ Edge1(c) = Edge(c) \ X /\ X \subseteq Edge(c) /\ \A p \in N \ {c} : Edge1(p) = Edge(p)
  <2> HIDE DEF M
  <2>1. Edge1(f) = Y /\ Edge1(c) = {c} \X (Len(f) + 1 .. Len(c)) /\ Edge(c) = {c} \X (e + 1 .. Len(c))
    BY <1>5, <1>6, ZenonT(30)
  <2>2. \A p \in N \ {c} : Edge1(p) = Edge(p)
    BY <1>7
  <2> HIDE DEF e
  <2>3. {c} \X (Len(f) + 1 .. Len(c)) = ({c} \X (e + 1 .. Len(c))) \ X
    BY <1>3, <1>8
  <2>4. X \subseteq {c} \X (e + 1 .. Len(c))
    BY <1>3, <1>8
  <2> QED
    BY <2>1, <2>2, <2>3, <2>4, ZenonT(30)
<1>10. ASSUME NEW x, NEW p, NEW q, x \in Edge(p), x \in Edge(q) \/ x \in {q} \X (e + 1 .. Len(f)) PROVE p = q
  BY <1>10
<1>11. ASSUME NEW x
       PROVE  /\ x \in Bytes(M, M) <=> \E p \in M : x \in Edge1(p)
              /\ x \in Bytes(N, N) <=> \E p \in N : x \in Edge(p)
  BY ZenonT(30) DEF Bytes
<1> HIDE DEF Edge, Edge1
<1>12. X \subseteq Bytes(N, N) /\ Bytes(N, N) \cap X = X
  BY <1>2, <1>9, <1>11
<1>13. ASSUME NEW x, x \in Bytes(N, N) PROVE x \notin Y
  <2>1. PICK p \in N : x \in Edge(p)
    BY <1>11, <1>13
  <2>2. x \in Y => p = f
    BY <1>10, <2>1, ZenonT(30)
  <2> QED
    BY <2>2, ZenonT(30)
<1>14. ASSUME NEW x PROVE x \in Bytes(M, M) <=> x \in (Bytes(N, N) \ X) \cup Y
  <2> HIDE DEF Y
  <2>1. ASSUME x \in Bytes(M, M) PROVE x \in (Bytes(N, N) \ X) \cup Y
    <3>1. PICK p \in M : x \in Edge1(p)
      BY <1>11, <2>1
    <3>2. CASE p = f
      BY <1>9, <3>1, <3>2
    <3>3. CASE p = c
      <4> HIDE DEF X
      <4> QED
        BY <1>2, <1>9, <1>11, <3>1, <3>3
    <3>4. CASE p \in N /\ p # c
      <4>1. x \in Edge(p)
        BY <1>9, <3>1, <3>4
      <4>2. x \notin X
        BY <1>10, <3>4, <4>1, ZenonT(30)
      <4> QED
        BY <1>11, <3>4, <4>1, <4>2
    <3> QED
      BY <3>1, <3>2, <3>3, <3>4
  <2>2. ASSUME x \in Y PROVE x \in Bytes(M, M)
    BY <1>9, <1>11, <2>2, ZenonT(30)
  <2>3. ASSUME x \in Bytes(N, N), x \notin X PROVE x \in Bytes(M, M)
    <3>1. PICK p \in N : x \in Edge(p)
      BY <1>11, <2>3
    <3>2. x \in Edge1(p)
      <4> HIDE DEF X
      <4> QED
        BY <1>9, <2>3, <3>1
    <3> QED
      BY <1>11, <3>1, <3>2, ZenonT(30)
  <2> QED
    BY <2>1, <2>2, <2>3
<1>15. Bytes(M, M) = (Bytes(N, N) \ X) \cup Y /\ (Bytes(N, N) \ X) \cap Y = {}
  <2> HIDE DEF X, Y, M
  <2> QED
    BY <1>13, <1>14
<1>16. /\ IsFiniteSet(X) /\ Cardinality(X) = Len(f) - e
       /\ IsFiniteSet(Y) /\ Cardinality(Y) = Len(f) - e
  <2> HIDE DEF e
  <2> QED
    BY <1>3, <1>8, EdgeCount, ZenonT(30)
<1> HIDE DEF X, Y, M, e
<1>17. IsFiniteSet(Bytes(N, N)) /\ Cardinality(Bytes(N, N)) \in Nat
  BY BytesFinite, FS_CardinalityType
<1>18. /\ IsFiniteSet(Bytes(N, N) \ X)
       /\ Cardinality(Bytes(N, N) \ X) = Cardinality(Bytes(N, N)) - Cardinality(Bytes(N, N) \cap X)
  BY <1>17, FS_Difference, ZenonT(30)
<1>19. Cardinality((Bytes(N, N) \ X) \cup Y)
         = Cardinality(Bytes(N, N) \ X) + Cardinality(Y) - Cardinality((Bytes(N, N) \ X) \cap Y)
  BY <1>16, <1>18, FS_Union, ZenonT(30)
<1>20. Cardinality((Bytes(N, N) \ X) \cap Y) = 0
  BY <1>15, FS_EmptySet, ZenonT(30)
<1>21. Cardinality(Bytes(M, M)) = Cardinality(Bytes(N, N))
  <2>1. Cardinality(Bytes(N, N) \cap X) = Len(f) - e
    BY <1>12, <1>16, ZenonT(30)
  <2>2. Cardinality(Bytes(M, M)) = Cardinality((Bytes(N, N) \ X) \cup Y)
    BY <1>15, ZenonT(30)
  <2> QED
    BY <1>3, <1>8, <1>16, <1>17, <1>18, <1>19, <1>20, <2>1, <2>2
<1> QED
  BY <1>21 DEF M

\* Where the key leaves the tree.
Fork(N, key) == Cut(key, Max({0} \cup {CommonLen(p, key) : p \in N}))

\* The fork is the longest prefix the key has in common with a node.
LEMMA ForkIs ==
    ASSUME NEW C, NEW N \in SUBSET Seq(C), NEW key \in Seq(C)
    PROVE  /\ Fork(N, key) \in Seq(C) /\ IsPrefix(Fork(N, key), key)
           /\ \A p \in N : IsPrefix(Com(p, key), Fork(N, key))
           /\ Fork(N, key) = << >> \/ \E p \in N : IsPrefix(Fork(N, key), p)
<1> DEFINE S == {0} \cup {CommonLen(p, key) : p \in N}
           n == Max(S)
           f == Cut(key, n)
<1>1. Len(key) \in Nat
  OBVIOUS
<1>2. \A p \in N : /\ CommonLen(p, key) \in Nat /\ CommonLen(p, key) <= Len(key)
                   /\ Com(p, key) \in Seq(C) /\ Len(Com(p, key)) = CommonLen(p, key)
                   /\ IsPrefix(Com(p, key), p) /\ IsPrefix(Com(p, key), key)
  <2>1. ASSUME NEW p \in N
        PROVE  /\ CommonLen(p, key) \in Nat /\ CommonLen(p, key) <= Len(key)
               /\ Com(p, key) \in Seq(C) /\ Len(Com(p, key)) = CommonLen(p, key)
               /\ IsPrefix(Com(p, key), p) /\ IsPrefix(Com(p, key), key)
    <3>1. p \in Seq(C)
      OBVIOUS
    <3> QED
      BY <3>1, ComIs, CommonAgree
  <2> QED
    BY <2>1
<1>3. S \in SUBSET Nat /\ S \in SUBSET Int /\ S # {} /\ \A m \in S : m <= Len(key)
  BY <1>1, <1>2
<1>4. n \in S /\ \A m \in S : n >= m
  <2> HIDE DEF S
  <2>1. IsFiniteSet(S)
    BY <1>1, <1>3, FS_BoundedSetOfNaturals, ZenonT(30)
  <2> QED
    BY <1>3, <2>1, MaxIs, ZenonT(30)
<1>5. n \in 0 .. Len(key)
  BY <1>1, <1>3, <1>4
<1>6. n = 0 \/ \E p \in N : CommonLen(p, key) = n
  BY <1>4, ZenonT(30)
<1>7. \A p \in N : CommonLen(p, key) <= n
  BY <1>2, <1>4, <1>5
<1> HIDE DEF n
<1>8. f \in Seq(C) /\ Len(f) = n /\ IsPrefix(f, key)
  BY <1>5, CutPrefix, ZenonT(30)
<1>9. f = Fork(N, key)
  BY DEF Fork, n
<1> HIDE DEF f
<1>10. ASSUME NEW p \in N PROVE IsPrefix(Com(p, key), f)
  BY <1>2, <1>7, <1>8, PrefixChain
<1>11. f = << >> \/ \E p \in N : IsPrefix(f, p)
  <2>1. CASE n = 0
    BY <1>8, <2>1, EmptyText
  <2>2. ASSUME NEW p \in N, CommonLen(p, key) = n PROVE IsPrefix(f, p)
    <3>1. IsPrefix(f, Com(p, key)) /\ p \in Seq(C)
      BY <1>2, <1>5, <1>8, <2>2, PrefixChain
    <3> QED
      BY <1>2, <1>8, <3>1, PrefixTrans
  <2> QED
    BY <1>6, <2>1, <2>2
<1> QED
  BY <1>8, <1>9, <1>10, <1>11

\* The nodes after an insertion: a node where the edge is split, and the leaf.
Middle(N, key) == {Fork(N, key)} \ (N \cup {<< >>})
Grown(N, key) == N \cup Middle(N, key) \cup {key}

\* The nodes after Insert are those before it, the fork and the key.
LEMMA GrownIs ==
    ASSUME NEW C, NEW N \in SUBSET Seq(C), IsFiniteSet(N), Closed(N), NEW key \in Seq(C), key # << >>
    PROVE  /\ Grown(N, key) \in SUBSET Seq(C) /\ IsFiniteSet(Grown(N, key)) /\ Closed(Grown(N, key))
           /\ Cardinality(Bytes(Grown(N, key), Grown(N, key)))
                = Cardinality(Bytes(N, N)) + Len(key) - Len(Fork(N, key))
<1> DEFINE f == Fork(N, key)
           M == N \cup Middle(N, key)
<1>1. f \in Seq(C) /\ IsPrefix(f, key) /\ \A p \in N : IsPrefix(Com(p, key), f)
  BY ForkIs, ZenonT(30)
<1>2. f = << >> \/ \E p \in N : IsPrefix(f, p)
  BY ForkIs, ZenonT(30)
<1>3. M = N \/ (M = N \cup {f} /\ f \notin N /\ f # << >>)
  BY DEF Middle
<1>4. f \in M \cup {<< >>} /\ M \in SUBSET Seq(C)
  BY <1>1 DEF Middle
<1>5. Grown(N, key) = M \cup {key}
  BY DEF Grown
<1> HIDE DEF f, M
<1>6. /\ IsFiniteSet(M) /\ Closed(M)
      /\ Cardinality(Bytes(M, M)) = Cardinality(Bytes(N, N))
  <2>1. CASE M = N
    BY <2>1
  <2>2. CASE M = N \cup {f} /\ f \notin N /\ f # << >>
    <3>1. PICK r \in N : IsPrefix(f, r)
      BY <1>2, <2>2
    <3>2. IsFiniteSet(N \cup {f})
      BY FS_AddElement, ZenonT(30)
    <3>3. Closed(N \cup {f})
      BY <1>1, <3>1, SplitClosed
    <3>4. Cardinality(Bytes(N \cup {f}, N \cup {f})) = Cardinality(Bytes(N, N))
      BY <1>1, <2>2, <3>1, SplitBytes
    <3> QED
      BY <2>2, <3>2, <3>3, <3>4, ZenonT(30)
  <2> QED
    BY <1>3, <2>1, <2>2
<1>7. \A p \in M : IsPrefix(Com(p, key), f)
  <2>1. IsPrefix(Com(f, key), f)
    BY <1>1, ComIs
  <2> QED
    BY <1>1, <1>3, <2>1
<1>8. IsFiniteSet(M \cup {key}) /\ Closed(M \cup {key})
  <2>1. IsFiniteSet(M \cup {key})
    BY <1>6, FS_AddElement, ZenonT(30)
  <2> QED
    BY <1>1, <1>4, <1>6, <1>7, <2>1, LeafClosed, ZenonT(30)
<1>9. Cardinality(Bytes(M \cup {key}, M \cup {key})) = Cardinality(Bytes(M, M)) + Len(key) - Len(f)
  <2>1. CASE key \notin M
    BY <1>1, <1>4, <1>6, <1>7, <2>1, LeafBytes
  <2>2. CASE key \in M
    <3>1. IsPrefix(Com(key, key), f) /\ IsPrefix(key, key) /\ Com(key, key) \in Seq(C)
      BY <1>7, <2>2, PrefixRefl, ComIs
    <3>2. IsPrefix(key, Com(key, key))
      BY <3>1, ComGreatest
    <3>3. IsPrefix(key, f)
      BY <1>1, <3>1, <3>2, PrefixTrans
    <3>4. Len(key) = Len(f)
      BY <1>1, <3>3, PrefixLen
    <3>5. M \cup {key} = M
      BY <2>2
    <3>6. Cardinality(Bytes(M, M)) \in Nat
      BY <1>4, <1>6, BytesFinite, FS_CardinalityType
    <3>7. Cardinality(Bytes(M \cup {key}, M \cup {key})) = Cardinality(Bytes(M, M))
      BY <3>5, ZenonT(30)
    <3> QED
      BY <1>1, <3>4, <3>6, <3>7
  <2> QED
    BY <2>1, <2>2
<1>10. Grown(N, key) \in SUBSET Seq(C)
  BY <1>4, <1>5
<1>11. Cardinality(Bytes(Grown(N, key), Grown(N, key))) = Cardinality(Bytes(N, N)) + Len(key) - Len(f)
  BY <1>5, <1>6, <1>9
<1> QED
  BY <1>5, <1>8, <1>10, <1>11 DEF f


-----------------------------------------------------------------------------
(* What is true of the tree. *)

\* clip leaves a text.
LEMMA ClipIs ==
    ASSUME NEW C, NEW text \in Seq(C)
    PROVE  Clip(text) \in Seq(C)
<1>1. Len(text) \in Nat /\ {Len(text), MaxPrefix} \in SUBSET Int
  BY TreeAssumption
<1>2. IsFiniteSet({Len(text), MaxPrefix})
  <2>1. {Len(text), MaxPrefix} = {Len(text)} \cup {MaxPrefix}
    OBVIOUS
  <2>2. IsFiniteSet({Len(text)} \cup {MaxPrefix})
    BY FS_Singleton, FS_AddElement, ZenonT(30)
  <2> QED
    BY <2>1, <2>2, ZenonT(30)
<1>3. /\ Min({Len(text), MaxPrefix}) \in {Len(text), MaxPrefix}
      /\ \A y \in {Len(text), MaxPrefix} : Min({Len(text), MaxPrefix}) <= y
  BY <1>1, <1>2, MinIs
<1>4. Min({Len(text), MaxPrefix}) \in 0 .. Len(text)
  BY <1>1, <1>3, TreeAssumption
<1> QED
  BY <1>4, CutPrefix, ZenonT(30) DEF Clip, Cut

IsTree(t, C) ==
    /\ t = [marks |-> t.marks, nodes |-> t.nodes, bytes |-> t.bytes, floor |-> t.floor]
    /\ t.marks \in [Nodes(t) -> [Owners -> Nat]]
    /\ Nodes(t) \in SUBSET Seq(C) /\ << >> \notin Nodes(t) /\ IsFiniteSet(Nodes(t))
    /\ t.floor \in Nat

Counted(t) ==
    /\ t.nodes = Cardinality(Nodes(t))
    /\ t.bytes = Cardinality(Bytes(Nodes(t), Nodes(t)))

\* The marks set, as far as they have not been taken away, are of texts that end in a node.
History(hs, N, C) ==
    /\ IsFiniteSet(hs)
    /\ \A h \in hs : h.id \in Owners /\ h.text \in Seq(C) /\ h.text \in N \cup {<< >>} /\ h.at \in Nat \ {0}

\* m is the time of the last mark an owner set on the way to a text below p.
Latest(m, p, o, hs) ==
    /\ \A h \in hs : h.id = o /\ IsPrefix(p, h.text) => h.at <= m
    /\ m # 0 => \E h \in hs : h.id = o /\ IsPrefix(p, h.text) /\ h.at = m

Marked(t, hs) == \A p \in Nodes(t), o \in Owners : Latest(t.marks[p][o], p, o, hs)

\* Every node is on the way to a text.
Used(N, hs) == \A p \in N : \E h \in hs : IsPrefix(p, h.text)

Sound(t, hs, C) ==
    /\ IsTree(t, C) /\ Closed(Nodes(t)) /\ Counted(t)
    /\ History(hs, Nodes(t), C) /\ Marked(t, hs) /\ Used(Nodes(t), hs)

\* Match gives the longest prefix that the text has in common with a text of the owner.
LEMMA MatchLongest ==
    ASSUME NEW C, NEW t, NEW hs, Sound(t, hs, C),
           NEW text \in Seq(C), NEW o \in Owners
    PROVE  Match(t, text)[o]
             = Max({0} \cup {CommonLen(h.text, Clip(text)) : h \in {h \in hs : h.id = o}})
<1> DEFINE key == Clip(text)
           N == Nodes(t)
           P == {p \in N : CommonLen(p, key) > EdgeStart(t, p) /\ t.marks[p][o] > 0}
           H == {h \in hs : h.id = o}
           A == {0} \cup {CommonLen(p, key) : p \in P}
           B == {0} \cup {CommonLen(h.text, key) : h \in H}
<1>1. key \in Seq(C) /\ Len(key) \in Nat
  BY ClipIs
<1>2. Match(t, text)[o] = Max(A)
  <2>1. P = {p \in {p \in N : CommonLen(p, key) > EdgeStart(t, p)} : t.marks[p][o] > 0}
    BY ZenonT(30)
  <2> QED
    BY <2>1, ZenonT(30) DEF Match
<1> HIDE DEF key
<1>3. N \in SUBSET Seq(C) /\ << >> \notin N
  BY DEF Sound, IsTree
<1>4. \A h \in H : h \in hs /\ h.text \in Seq(C) /\ h.text \in N \cup {<< >>} /\ h.at \in Nat \ {0}
  BY DEF Sound, History
<1>5. \A p \in N : EdgeStart(t, p) = EdgeFrom(N, p)
  BY ZenonT(30) DEF EdgeStart, EdgeFrom, Parents
<1>6. \A p \in Seq(C) : CommonLen(p, key) \in Nat /\ CommonLen(p, key) <= Len(key)
  BY <1>1, CommonAgree
<1>7. ASSUME NEW p \in P PROVE \E h \in H : CommonLen(p, key) <= CommonLen(h.text, key)
  <2>1. p \in N /\ p \in Seq(C) /\ t.marks[p][o] > 0
    BY <1>3
  <2>2. Latest(t.marks[p][o], p, o, hs) /\ t.marks[p][o] # 0
    <3>1. t.marks[p][o] \in Nat
      BY <2>1 DEF Sound, IsTree
    <3> QED
      BY <2>1, <3>1 DEF Sound, Marked
  <2>3. PICK h \in hs : h.id = o /\ IsPrefix(p, h.text)
    BY <2>2 DEF Latest
  <2>4. h \in H /\ h.text \in Seq(C)
    BY <1>4, <2>3
  <2> QED
    BY <1>1, <2>1, <2>3, <2>4, ComMonotone
<1>8. ASSUME NEW h \in H, CommonLen(h.text, key) # 0
      PROVE  \E p \in P : CommonLen(h.text, key) <= CommonLen(p, key)
  <2> DEFINE c == CommonLen(h.text, key)
             com == Com(h.text, key)
             Q == {q \in N : IsPrefix(q, h.text) /\ c <= Len(q)}
  <2>1. h \in hs /\ h.id = o /\ h.text \in Seq(C) /\ h.text \in N \cup {<< >>} /\ h.at \in Nat \ {0}
    BY <1>4
  <2>2. /\ c \in Nat /\ com \in Seq(C) /\ Len(com) = c /\ IsPrefix(com, h.text) /\ IsPrefix(com, key)
        /\ c <= Len(h.text)
    <3>1. /\ c \in Nat /\ com \in Seq(C) /\ Len(com) = c
          /\ IsPrefix(com, h.text) /\ IsPrefix(com, key)
      BY <1>1, <2>1, ComIs, ZenonT(30)
    <3> HIDE DEF c, com
    <3> QED
      BY <2>1, <3>1, PrefixLen
  <2>3. h.text \in N
    BY <1>8, <2>1, <2>2
  <2>4. h.text \in Q
    BY <2>1, <2>2, <2>3, PrefixRefl
  <2>5. Q \in SUBSET Seq(C) /\ Q # {}
    BY <1>3, <2>4
  <2> HIDE DEF c, com
  <2>6. PICK p \in Q : \A q \in Q : Len(p) <= Len(q)
    <3> HIDE DEF Q
    <3> QED
      BY <2>5, Shortest, ZenonT(30)
  <2>7. p \in N /\ p \in Seq(C) /\ IsPrefix(p, h.text) /\ c <= Len(p) /\ p # << >>
    BY <1>3, <2>6
  <2>8. IsPrefix(com, p)
    BY <2>1, <2>2, <2>7, PrefixChain
  <2>9. c <= CommonLen(p, key)
    BY <1>1, <2>2, <2>7, <2>8, ComGreatest
  <2>10. ASSUME NEW q \in Parents(N, p) PROVE Len(q) < c
    <3>1. q \in N /\ q \in Seq(C) /\ IsPrefix(q, p) /\ q # p
      BY <1>3 DEF Parents, IsStrictPrefix
    <3>2. Len(q) < Len(p) /\ Len(q) \in Nat /\ Len(p) \in Nat
      BY <2>7, <3>1, PrefixLen
    <3>3. IsPrefix(q, h.text)
      BY <2>1, <2>7, <3>1, PrefixTrans
    <3> QED
      BY <2>2, <2>6, <3>1, <3>2, <3>3
  <2>11. EdgeFrom(N, p) < c
    <3>1. c \in Nat /\ c # 0
      BY <1>8, <2>2 DEF c
    <3>2. EdgeFrom(N, p) = 0 \/ \E q \in Parents(N, p) : Len(q) = EdgeFrom(N, p)
      BY <1>3, <2>7, StartIs, ZenonT(30)
    <3> QED
      BY <2>10, <3>1, <3>2
  <2>12. t.marks[p][o] > 0
    <3>1. Latest(t.marks[p][o], p, o, hs) /\ t.marks[p][o] \in Nat
      BY <2>7 DEF Sound, Marked, IsTree
    <3> QED
      BY <2>1, <2>7, <3>1 DEF Latest
  <2>13. EdgeFrom(N, p) \in Nat /\ CommonLen(p, key) \in Nat
    <3>1. EdgeFrom(N, p) \in 0 .. Len(p) /\ CommonLen(p, key) \in Nat
      BY <1>3, <1>6, <2>7, StartIs, ZenonT(30)
    <3> QED
      BY <3>1
  <2>14. p \in P
    BY <1>5, <2>2, <2>7, <2>9, <2>11, <2>12, <2>13
  <2> QED
    BY <2>9, <2>14 DEF c
<1>9. \A p \in P : p \in Seq(C)
  BY <1>3
<1>10. A \in SUBSET Nat /\ B \in SUBSET Nat /\ A # {} /\ B # {}
  BY <1>4, <1>6, <1>9
<1>11. (\A a \in A : a <= Len(key)) /\ (\A b \in B : b <= Len(key))
  BY <1>1, <1>4, <1>6, <1>9
<1> HIDE DEF P, H
<1>12. ASSUME NEW a \in A PROVE \E b \in B : a <= b
  <2>1. CASE a = 0
    BY <2>1
  <2>2. CASE a # 0
    <3>1. PICK p \in P : a = CommonLen(p, key)
      BY <2>2
    <3>2. PICK h \in H : a <= CommonLen(h.text, key)
      BY <1>7, <3>1
    <3> QED
      BY <3>2, ZenonT(30)
  <2> QED
    BY <2>1, <2>2
<1>13. ASSUME NEW b \in B PROVE \E a \in A : b <= a
  <2>1. CASE b = 0
    BY <2>1
  <2>2. CASE b # 0
    <3>1. PICK h \in H : b = CommonLen(h.text, key)
      BY <2>2
    <3>2. PICK p \in P : b <= CommonLen(p, key)
      BY <1>8, <2>2, <3>1
    <3> QED
      BY <3>2, ZenonT(30)
  <2> QED
    BY <2>1, <2>2
<1>14. Max(A) = Max(B)
  <2> HIDE DEF A, B
  <2> QED
    BY <1>1, <1>10, <1>11, <1>12, <1>13, MaxSame, ZenonT(30)
<1> QED
  BY <1>2, <1>14 DEF H, key

-----------------------------------------------------------------------------
(* Marks that are taken away. *)

\* A tree that is no larger is within the budget if the other one is.
Lighter(u, t) ==
    /\ u.nodes \in Int /\ t.nodes \in Int /\ u.nodes <= t.nodes
    /\ u.bytes \in Int /\ t.bytes \in Int /\ u.bytes <= t.bytes

\* A tree that is not larger than one within its limits is within them.
LEMMA LighterWithin ==
    ASSUME NEW u, NEW t, Lighter(u, t), ~ OverBudget(t)
    PROVE  ~ OverBudget(u)
  BY TreeAssumption DEF Lighter, OverBudget

\* Without keeps the tree sound, if the marks left are those of the history left.
LEMMA WithoutKeeps ==
    ASSUME NEW C, NEW t, NEW hs, Sound(t, hs, C), NEW gs \in SUBSET hs,
           NEW left \in [Nodes(t) -> [Owners -> Nat]],
           \A p \in Nodes(t), o \in Owners : Latest(left[p][o], p, o, gs)
    PROVE  /\ Sound(Without(t, left), gs, C) /\ Without(t, left).floor = t.floor
           /\ Lighter(Without(t, left), t)
<1> DEFINE N == Nodes(t)
           gone == {p \in N : \A q \in N : IsPrefix(p, q) => left[q] = Nobody}
           M == N \ gone
           u == Without(t, left)
<1>1. /\ t = [marks |-> t.marks, nodes |-> t.nodes, bytes |-> t.bytes, floor |-> t.floor]
      /\ N \in SUBSET Seq(C) /\ << >> \notin N /\ IsFiniteSet(N) /\ t.floor \in Nat
  BY DEF Sound, IsTree
<1>2. /\ u = [marks |-> u.marks, nodes |-> u.nodes, bytes |-> u.bytes, floor |-> u.floor]
      /\ u.marks = [p \in M |-> left[p]]
      /\ u.nodes = t.nodes - Cardinality(gone)
      /\ u.bytes = t.bytes - Cardinality(Bytes(N, gone))
      /\ u.floor = t.floor
  <2>1. EdgeBytes(t, gone) = Bytes(N, gone)
    BY ZenonT(30) DEF EdgeBytes, Bytes, EdgeStart, EdgeFrom, Parents
  <2>2. u = [t EXCEPT !.marks = [p \in M |-> left[p]],
                      !.nodes = @ - Cardinality(gone),
                      !.bytes = @ - Cardinality(Bytes(N, gone))]
    BY <2>1, ZenonT(30) DEF Without
  <2> HIDE DEF u, gone, M, N
  <2> QED
    BY <1>1, <2>2, ZenonT(30)
<1>3. Nodes(u) = M
  BY <1>2 DEF Nodes
<1>4. ASSUME NEW p \in N PROVE p \in M <=> \E h \in gs : IsPrefix(p, h.text)
  <2>1. p \in Seq(C) /\ IsPrefix(p, p)
    BY <1>1, PrefixRefl
  <2>2. ASSUME NEW q \in N, IsPrefix(p, q), left[q] # Nobody PROVE \E h \in gs : IsPrefix(p, h.text)
    <3>1. PICK o \in Owners : left[q][o] # 0
      BY <2>2 DEF Nobody
    <3>2. PICK h \in gs : IsPrefix(q, h.text)
      BY <3>1 DEF Latest
    <3>3. h.text \in Seq(C) /\ q \in Seq(C)
      BY <1>1 DEF Sound, History
    <3> QED
      BY <2>1, <2>2, <3>2, <3>3, PrefixTrans
  <2>3. ASSUME NEW h \in gs, IsPrefix(p, h.text) PROVE left[p] # Nobody
    <3>1. h.id \in Owners /\ h.at \in Nat \ {0}
      BY DEF Sound, History
    <3>2. h.at <= left[p][h.id] /\ left[p][h.id] \in Nat
      BY <2>3, <3>1 DEF Latest
    <3>3. left[p][h.id] # 0
      BY <3>1, <3>2
    <3> QED
      BY <3>1, <3>3 DEF Nobody
  <2> QED
    BY <2>1, <2>2, <2>3
<1>5. M \in SUBSET N /\ gone \in SUBSET N /\ M \cap gone = {} /\ M \cup gone = N
  OBVIOUS
<1> HIDE DEF gone, M, u
<1>6. IsFiniteSet(M) /\ IsFiniteSet(gone) /\ M \in SUBSET Seq(C)
  <2>1. IsFiniteSet(M) /\ IsFiniteSet(gone)
    BY <1>1, <1>5, FS_Subset, ZenonT(30)
  <2> QED
    BY <1>1, <1>5, <2>1
<1>7. IsTree(u, C)
  <2>1. u.marks \in [M -> [Owners -> Nat]]
    BY <1>2, <1>5
  <2>2. << >> \notin M /\ u.floor \in Nat
    BY <1>1, <1>2, <1>5
  <2> QED
    BY <1>2, <1>3, <1>6, <2>1, <2>2 DEF IsTree
<1>8. Marked(u, gs)
  BY <1>2, <1>3, <1>5 DEF Marked
<1>9. Used(M, gs)
  BY <1>4, <1>5 DEF Used
<1>10. ASSUME NEW p \in N, NEW q \in M, IsPrefix(p, q) PROVE p \in M
  <2>1. PICK h \in gs : IsPrefix(q, h.text)
    BY <1>9 DEF Used
  <2>2. h.text \in Seq(C) /\ q \in Seq(C) /\ p \in Seq(C)
    BY <1>1, <1>5 DEF Sound, History
  <2>3. IsPrefix(p, h.text)
    BY <1>10, <2>1, <2>2, PrefixTrans
  <2> QED
    BY <1>4, <2>3
<1>11. Closed(M)
  <2>1. ASSUME NEW p \in M, NEW q \in M, Com(p, q) # << >> PROVE Com(p, q) \in M
    <3>1. p \in N /\ q \in N /\ p \in Seq(C) /\ q \in Seq(C)
      BY <1>1, <1>5
    <3>2. Com(p, q) \in N
      BY <2>1, <3>1 DEF Sound, Closed
    <3>3. IsPrefix(Com(p, q), p)
      BY <3>1, ComIs
    <3> QED
      BY <1>10, <3>2, <3>3
  <2> QED
    BY <2>1 DEF Closed
<1>12. History(gs, M, C)
  <2>1. IsFiniteSet(gs)
    BY FS_Subset, ZenonT(30) DEF Sound, History
  <2>2. ASSUME NEW h \in gs
        PROVE  h.id \in Owners /\ h.text \in Seq(C) /\ h.text \in M \cup {<< >>} /\ h.at \in Nat \ {0}
    <3>1. h.id \in Owners /\ h.text \in Seq(C) /\ h.text \in N \cup {<< >>} /\ h.at \in Nat \ {0}
      BY DEF Sound, History
    <3>2. IsPrefix(h.text, h.text)
      BY <3>1, PrefixRefl
    <3>3. h.text \in N => h.text \in M
      BY <1>4, <3>2
    <3> QED
      BY <3>1, <3>3
  <2> QED
    BY <2>1, <2>2 DEF History
<1>13. Counted(u)
  <2>1. t.nodes = Cardinality(N) /\ t.bytes = Cardinality(Bytes(N, N))
    BY DEF Sound, Counted
  <2>2. Cardinality(M) = Cardinality(N) - Cardinality(gone)
    <3>1. M = N \ gone /\ N \cap gone = gone
      BY <1>5
    <3> QED
      BY <1>1, <3>1, FS_Difference, ZenonT(30)
  <2>3. \A p \in M : EdgeFrom(M, p) = EdgeFrom(N, p)
    <3>1. ASSUME NEW p \in M PROVE Parents(M, p) = Parents(N, p)
      BY <1>5, <1>10 DEF Parents, IsStrictPrefix
    <3> QED
      BY <3>1, StartSame
  <2>4. Bytes(M, M) = Bytes(N, N) \ Bytes(N, gone) /\ Bytes(N, N) \cap Bytes(N, gone) = Bytes(N, gone)
    <3> DEFINE Edge(p) == {p} \X (EdgeFrom(N, p) + 1 .. Len(p))
    <3>1. ASSUME NEW x, NEW p, NEW q, x \in Edge(p), x \in Edge(q) PROVE p = q
      BY <3>1
    <3>2. ASSUME NEW x
          PROVE  /\ x \in Bytes(M, M) <=> \E p \in M : x \in Edge(p)
                 /\ x \in Bytes(N, N) <=> \E p \in N : x \in Edge(p)
                 /\ x \in Bytes(N, gone) <=> \E p \in gone : x \in Edge(p)
      BY <2>3, ZenonT(30) DEF Bytes
    <3> HIDE DEF Edge
    <3>3. ASSUME NEW x
          PROVE  /\ x \in Bytes(M, M) <=> x \in Bytes(N, N) /\ x \notin Bytes(N, gone)
                 /\ x \in Bytes(N, gone) => x \in Bytes(N, N)
      BY <1>5, <3>1, <3>2
    <3> QED
      BY <3>3
  <2>5. Cardinality(Bytes(M, M)) = Cardinality(Bytes(N, N)) - Cardinality(Bytes(N, gone))
    <3>1. IsFiniteSet(Bytes(N, N))
      BY <1>1, BytesFinite
    <3>2. Cardinality(Bytes(N, N) \ Bytes(N, gone))
            = Cardinality(Bytes(N, N)) - Cardinality(Bytes(N, N) \cap Bytes(N, gone))
      BY <3>1, FS_Difference, ZenonT(30)
    <3> QED
      BY <2>4, <3>2, ZenonT(30)
  <2> QED
    BY <1>2, <1>3, <2>1, <2>2, <2>5 DEF Counted
<1>14. Lighter(u, t)
  <2>1. /\ IsFiniteSet(Bytes(N, gone)) /\ IsFiniteSet(Bytes(N, N))
    BY <1>1, <1>5, <1>6, BytesFinite
  <2>2. /\ Cardinality(gone) \in Nat /\ Cardinality(Bytes(N, gone)) \in Nat
        /\ Cardinality(N) \in Nat /\ Cardinality(Bytes(N, N)) \in Nat
    BY <1>1, <1>6, <2>1, FS_CardinalityType, ZenonT(30)
  <2>3. t.nodes = Cardinality(N) /\ t.bytes = Cardinality(Bytes(N, N))
    BY DEF Sound, Counted
  <2> QED
    BY <1>2, <2>2, <2>3 DEF Lighter
<1> QED
  BY <1>2, <1>3, <1>7, <1>8, <1>9, <1>11, <1>12, <1>13, <1>14 DEF Sound, u

\* The floor alone does not matter for the rest of the tree.
LEMMA FloorKeeps ==
    ASSUME NEW C, NEW t, NEW hs, Sound(t, hs, C), NEW n \in Nat
    PROVE  /\ Sound([t EXCEPT !.floor = n], hs, C) /\ [t EXCEPT !.floor = n].floor = n
           /\ [t EXCEPT !.floor = n].nodes = t.nodes /\ [t EXCEPT !.floor = n].bytes = t.bytes
<1> DEFINE u == [t EXCEPT !.floor = n]
<1>1. t = [marks |-> t.marks, nodes |-> t.nodes, bytes |-> t.bytes, floor |-> t.floor]
  BY DEF Sound, IsTree
<1>2. /\ u = [marks |-> u.marks, nodes |-> u.nodes, bytes |-> u.bytes, floor |-> u.floor]
      /\ u.marks = t.marks /\ u.nodes = t.nodes /\ u.bytes = t.bytes /\ u.floor = n
  BY <1>1
<1> HIDE DEF u
<1>3. Nodes(u) = Nodes(t)
  BY <1>2 DEF Nodes
<1>4. IsTree(u, C) /\ Counted(u) /\ Marked(u, hs)
  BY <1>2, <1>3 DEF Sound, IsTree, Counted, Marked
<1> QED
  BY <1>2, <1>3, <1>4 DEF Sound, u

\* pruneNode takes away the marks that are older than the deadline.
LEMMA PruneKeeps ==
    ASSUME NEW C, NEW t, NEW hs, Sound(t, hs, C), NEW d \in Nat \ {0}
    PROVE  /\ Sound(PruneNode(t, d), {h \in hs : h.at >= d}, C)
           /\ Lighter(PruneNode(t, d), t) /\ PruneNode(t, d).floor \in Nat
           /\ PruneNode(t, d).floor >= t.floor /\ PruneNode(t, d).floor >= d - 1
           /\ PruneNode(t, d).floor \in {t.floor, d - 1}
<1> DEFINE left == [p \in Nodes(t) |-> [o \in Owners |->
                       IF t.marks[p][o] < d THEN 0 ELSE t.marks[p][o]]]
           gs == {h \in hs : h.at >= d}
           n == Max({t.floor, d - 1})
           u == Without(t, left)
<1>1. t.marks \in [Nodes(t) -> [Owners -> Nat]] /\ t.floor \in Nat
  BY DEF Sound, IsTree
<1>2. left \in [Nodes(t) -> [Owners -> Nat]]
  BY <1>1
<1>3. ASSUME NEW p \in Nodes(t), NEW o \in Owners PROVE Latest(left[p][o], p, o, gs)
  <2> DEFINE m == t.marks[p][o]
  <2>1. Latest(m, p, o, hs) /\ m \in Nat
    BY <1>1 DEF Sound, Marked
  <2>2. left[p][o] = IF m < d THEN 0 ELSE m
    OBVIOUS
  <2>3. \A h \in hs : h.at \in Nat
    BY DEF Sound, History
  <2> HIDE DEF left, m
  <2>4. ASSUME NEW h \in gs, h.id = o, IsPrefix(p, h.text) PROVE h.at <= left[p][o]
    <3>1. h.at <= m /\ h.at >= d /\ h.at \in Nat
      BY <2>1, <2>3, <2>4 DEF Latest
    <3> QED
      BY <2>1, <2>2, <3>1
  <2>5. ASSUME left[p][o] # 0 PROVE \E h \in gs : h.id = o /\ IsPrefix(p, h.text) /\ h.at = left[p][o]
    <3>1. left[p][o] = m /\ m >= d /\ m # 0
      BY <2>1, <2>2, <2>5
    <3>2. PICK h \in hs : h.id = o /\ IsPrefix(p, h.text) /\ h.at = m
      BY <2>1, <3>1 DEF Latest
    <3> QED
      BY <3>1, <3>2
  <2> QED
    BY <2>4, <2>5 DEF Latest
<1>4. gs \in SUBSET hs
  OBVIOUS
<1>5. Sound(u, gs, C) /\ u.floor = t.floor /\ Lighter(u, t)
  <2> HIDE DEF left, gs
  <2> QED
    BY <1>2, <1>3, <1>4, WithoutKeeps, ZenonT(30)
<1>6. n \in {t.floor, d - 1} /\ n >= t.floor /\ n >= d - 1
  <2>1. {t.floor, d - 1} \in SUBSET Int /\ {t.floor, d - 1} # {}
    BY <1>1
  <2>2. IsFiniteSet({t.floor, d - 1})
    <3>1. {t.floor, d - 1} = {t.floor} \cup {d - 1}
      OBVIOUS
    <3>2. IsFiniteSet({t.floor} \cup {d - 1})
      BY FS_Singleton, FS_AddElement, ZenonT(30)
    <3> QED
      BY <3>1, <3>2, ZenonT(30)
  <2>3. n \in {t.floor, d - 1} /\ \A y \in {t.floor, d - 1} : n >= y
    BY <2>1, <2>2, MaxIs
  <2> QED
    BY <2>3
<1>7. n \in Nat
  BY <1>1, <1>6
<1>8. PruneNode(t, d) = [u EXCEPT !.floor = n]
  <2>1. PruneNode(t, d) = [u EXCEPT !.floor = Max({@, d - 1})]
    BY ZenonT(30) DEF PruneNode
  <2>2. u = [marks |-> u.marks, nodes |-> u.nodes, bytes |-> u.bytes, floor |-> u.floor]
    BY <1>5, ZenonT(30) DEF Sound, IsTree
  <2> HIDE DEF u
  <2> QED
    BY <1>5, <2>1, <2>2
<1> HIDE DEF left, u, n, gs
<1>9. /\ Sound(PruneNode(t, d), gs, C) /\ PruneNode(t, d).floor = n
      /\ PruneNode(t, d).nodes = u.nodes /\ PruneNode(t, d).bytes = u.bytes
  BY <1>5, <1>7, <1>8, FloorKeeps
<1>10. Lighter(PruneNode(t, d), t)
  BY <1>5, <1>9 DEF Lighter
<1> QED
  BY <1>6, <1>7, <1>9, <1>10 DEF gs

\* RemoveBackedBy takes away the marks of one owner.
LEMMA RemoveKeeps ==
    ASSUME NEW C, NEW t, NEW hs, Sound(t, hs, C), NEW owner \in Owners
    PROVE  /\ Sound(RemoveBackedBy(t, owner), {h \in hs : h.id # owner}, C)
           /\ RemoveBackedBy(t, owner).floor = t.floor /\ Lighter(RemoveBackedBy(t, owner), t)
<1> DEFINE left == [p \in Nodes(t) |-> [t.marks[p] EXCEPT ![owner] = 0]]
           gs == {h \in hs : h.id # owner}
<1>1. t.marks \in [Nodes(t) -> [Owners -> Nat]]
  BY DEF Sound, IsTree
<1>2. left \in [Nodes(t) -> [Owners -> Nat]]
  BY <1>1
<1>3. ASSUME NEW p \in Nodes(t), NEW o \in Owners PROVE Latest(left[p][o], p, o, gs)
  <2>1. Latest(t.marks[p][o], p, o, hs)
    BY DEF Sound, Marked
  <2>2. left[p][o] = IF o = owner THEN 0 ELSE t.marks[p][o]
    BY <1>1
  <2> HIDE DEF left
  <2>3. CASE o = owner
    BY <2>2, <2>3 DEF Latest
  <2>4. CASE o # owner
    BY <2>1, <2>2, <2>4 DEF Latest
  <2> QED
    BY <2>3, <2>4
<1>4. gs \in SUBSET hs
  OBVIOUS
<1>5. RemoveBackedBy(t, owner) = Without(t, left)
  BY ZenonT(30) DEF RemoveBackedBy
<1> HIDE DEF left, gs
<1>6. /\ Sound(Without(t, left), gs, C) /\ Without(t, left).floor = t.floor
      /\ Lighter(Without(t, left), t)
  BY <1>2, <1>3, <1>4, WithoutKeeps, ZenonT(30)
<1> QED
  BY <1>5, <1>6 DEF gs

-----------------------------------------------------------------------------
(* Insert. *)

\* The marks a node starts from: its own, those of the child whose edge is split, or none.
OldMarks(t, key, p) ==
    IF p \in Nodes(t) THEN t.marks[p]
    ELSE IF p \in Middle(Nodes(t), key)
         THEN t.marks[CHOOSE c \in Below(Nodes(t), Fork(Nodes(t), key)) :
                          \A q \in Below(Nodes(t), Fork(Nodes(t), key)) : IsPrefix(c, q)]
         ELSE Nobody

\* The marks that Insert finds on the nodes it needs, the one it adds in the middle of an
\* edge included.
LEMMA OldMarksAre ==
    ASSUME NEW C, NEW t, NEW hs, Sound(t, hs, C), NEW key \in Seq(C), key # << >>,
           NEW p \in Grown(Nodes(t), key)
    PROVE  /\ OldMarks(t, key, p) \in [Owners -> Nat]
           /\ \A o \in Owners : Latest(OldMarks(t, key, p)[o], p, o, hs)
<1> DEFINE N == Nodes(t)
           f == Fork(N, key)
<1>1. /\ t.marks \in [N -> [Owners -> Nat]] /\ N \in SUBSET Seq(C) /\ << >> \notin N
      /\ Closed(N) /\ \A q \in N, o \in Owners : Latest(t.marks[q][o], q, o, hs)
  BY DEF Sound, IsTree, Marked
<1>2. \A h \in hs : h.text \in Seq(C) /\ h.text \in N \cup {<< >>}
  BY DEF Sound, History
<1>3. /\ f \in Seq(C) /\ IsPrefix(f, key) /\ \A q \in N : IsPrefix(Com(q, key), f)
      /\ f = << >> \/ \E q \in N : IsPrefix(f, q)
  <2> HIDE DEF N
  <2>1. N \in SUBSET Seq(C)
    BY <1>1
  <2>2. f \in Seq(C) /\ IsPrefix(f, key) /\ \A q \in N : IsPrefix(Com(q, key), f)
    BY <2>1, ForkIs, ZenonT(30)
  <2>3. f = << >> \/ \E q \in N : IsPrefix(f, q)
    BY <2>1, ForkIs, ZenonT(30)
  <2> QED
    BY <2>2, <2>3, ZenonT(30)
<1>4. CASE p \in N
  BY <1>1, <1>4 DEF OldMarks
<1>5. CASE p \notin N /\ p \in Middle(N, key)
  <2>1. p = f /\ f # << >> /\ f \notin N
    BY <1>5 DEF Middle
  <2> DEFINE c == CHOOSE c \in Below(N, f) : \A q \in Below(N, f) : IsPrefix(c, q)
  <2>2. IsChild(c, N, f)
    <3>1. PICK r \in N : IsPrefix(f, r)
      BY <1>3, <2>1
    <3>2. \E d : IsChild(d, N, f)
      BY <1>1, <1>3, <2>1, <3>1, ChildExists
    <3> QED
      BY <3>2, ZenonT(30) DEF IsChild
  <2>3. OldMarks(t, key, p) = t.marks[c]
    BY <1>5, ZenonT(30) DEF OldMarks
  <2> HIDE DEF c
  <2>4. c \in N /\ c \in Seq(C) /\ IsPrefix(f, c) /\ \A q \in N : IsPrefix(f, q) => IsPrefix(c, q)
    BY <1>1, <2>2 DEF IsChild, Below
  <2> HIDE DEF f
  <2>5. ASSUME NEW h \in hs PROVE IsPrefix(f, h.text) <=> IsPrefix(c, h.text)
    <3>1. h.text \in Seq(C)
      BY <1>2
    <3>2. IsPrefix(c, h.text) => IsPrefix(f, h.text)
      BY <1>3, <2>4, <3>1, PrefixTrans
    <3>3. CASE h.text \in N
      BY <2>4, <3>2, <3>3
    <3>4. CASE h.text = << >>
      <4>1. ~ IsPrefix(f, h.text)
        <5>1. Len(f) \in Nat /\ Len(f) # 0 /\ Len(h.text) = 0
          BY <1>3, <2>1, <3>4, EmptyText
        <5> QED
          BY <1>3, <3>1, <5>1, PrefixLen
      <4> QED
        BY <3>2, <4>1
    <3> QED
      BY <1>2, <3>3, <3>4
  <2>6. ASSUME NEW o \in Owners PROVE Latest(t.marks[c][o], p, o, hs)
    <3>1. Latest(t.marks[c][o], c, o, hs)
      BY <1>1, <2>4
    <3> QED
      BY <2>1, <2>5, <3>1 DEF Latest
  <2>7. t.marks[c] \in [Owners -> Nat]
    BY <1>1, <2>4
  <2> QED
    BY <2>3, <2>6, <2>7
<1>6. CASE p \notin N /\ p \notin Middle(N, key)
  <2>1. p = key
    BY <1>6 DEF Grown
  <2>2. OldMarks(t, key, p) = Nobody
    BY <1>6, ZenonT(30) DEF OldMarks
  <2>3. ASSUME NEW h \in hs, IsPrefix(key, h.text) PROVE FALSE
    <3>1. h.text \in Seq(C) /\ IsPrefix(key, key) /\ IsPrefix(key, Com(h.text, key)) /\ Com(h.text, key) \in Seq(C)
      BY <1>2, <2>3, PrefixRefl, ComGreatest, ComIs, ZenonT(30)
    <3>2. CASE h.text \in N
      <4>1. IsPrefix(key, f)
        <5>1. IsPrefix(Com(h.text, key), f)
          BY <1>3, <3>2
        <5> QED
          BY <1>3, <3>1, <5>1, PrefixTrans
      <4>2. key = f
        BY <1>3, <4>1, PrefixLen
      <4> QED
        BY <1>6, <2>1, <4>2 DEF Middle
    <3>3. CASE h.text = << >>
      <4>1. Len(key) \in Nat /\ Len(key) # 0 /\ Len(h.text) = 0
        BY <3>3, EmptyText
      <4> QED
        BY <2>3, <3>1, <4>1, PrefixLen
    <3> QED
      BY <1>2, <3>2, <3>3
  <2>4. Nobody \in [Owners -> Nat] /\ \A o \in Owners : Nobody[o] = 0
    BY DEF Nobody
  <2>5. ASSUME NEW o \in Owners PROVE Latest(0, p, o, hs)
    BY <2>1, <2>3 DEF Latest
  <2> QED
    BY <2>2, <2>4, <2>5
<1> QED
  BY <1>4, <1>5, <1>6

\* Insert, before the budget is enforced, records the mark and keeps the tree sound.
LEMMA InsertedKeeps ==
    ASSUME NEW C, NEW t, NEW hs, Sound(t, hs, C),
           NEW text \in Seq(C), Clip(text) # << >>, NEW o \in Owners, NEW now \in Nat \ {0},
           \A h \in hs : h.at <= now,
           NEW mark, mark.id = o, mark.text = Clip(text), mark.at = now
    PROVE  /\ Sound(Inserted(t, text, o, now), hs \cup {mark}, C)
           /\ Inserted(t, text, o, now).floor = t.floor
<1> DEFINE key == Clip(text)
           N == Nodes(t)
           f == Fork(N, key)
           M == Grown(N, key)
           added == Middle(N, key) \cup ({key} \ N)
           Old(p) == OldMarks(t, key, p)
           u == Inserted(t, text, o, now)
           gs == hs \cup {mark}
<1>1. key \in Seq(C) /\ key # << >> /\ mark.text = key
  BY ClipIs
<1>2. /\ t = [marks |-> t.marks, nodes |-> t.nodes, bytes |-> t.bytes, floor |-> t.floor]
      /\ N \in SUBSET Seq(C) /\ << >> \notin N /\ IsFiniteSet(N) /\ t.floor \in Nat /\ Closed(N)
  BY DEF Sound, IsTree
<1>3. M = N \cup added /\ N \cap added = {}
  BY DEF Grown, Middle
<1>4. /\ u = [marks |-> u.marks, nodes |-> u.nodes, bytes |-> u.bytes, floor |-> u.floor]
      /\ u.marks = [p \in N \cup added |->
                       IF IsPrefix(p, key) THEN [Old(p) EXCEPT ![o] = now] ELSE Old(p)]
      /\ u.nodes = t.nodes + Cardinality(added)
      /\ u.bytes = t.bytes + (Len(key) - Len(f))
      /\ u.floor = t.floor
  <2>1. u = [t EXCEPT !.marks = [p \in N \cup added |->
                          IF IsPrefix(p, key) THEN [Old(p) EXCEPT ![o] = now] ELSE Old(p)],
                      !.nodes = @ + Cardinality(added),
                      !.bytes = @ + (Len(key) - Len(f))]
    BY ZenonT(30) DEF Inserted, AddedBytes, Inherited, OldMarks, Middle, Below, Fork, Cut
  <2> HIDE DEF u, added, f, N, key, Old
  <2> QED
    BY <1>2, <2>1, ZenonT(30)
<1> HIDE DEF key, added, u
<1>5. Nodes(u) = M
  BY <1>3, <1>4 DEF Nodes
<1>6. /\ M \in SUBSET Seq(C) /\ IsFiniteSet(M) /\ Closed(M)
      /\ Cardinality(Bytes(M, M)) = Cardinality(Bytes(N, N)) + Len(key) - Len(f)
  BY <1>1, <1>2, GrownIs, ZenonT(30)
<1>7. ASSUME NEW p \in M
      PROVE  /\ Old(p) \in [Owners -> Nat]
             /\ \A w \in Owners : Latest(Old(p)[w], p, w, hs)
  BY <1>1, OldMarksAre, ZenonT(30)
<1> HIDE DEF Old
<1>8. ASSUME NEW p \in M
      PROVE  /\ u.marks[p] \in [Owners -> Nat]
             /\ \A w \in Owners : Latest(u.marks[p][w], p, w, gs)
  <2>1. u.marks[p] = IF IsPrefix(p, key) THEN [Old(p) EXCEPT ![o] = now] ELSE Old(p)
    BY <1>3, <1>4
  <2>2. u.marks[p] \in [Owners -> Nat]
    BY <1>7, <2>1
  <2>3. ASSUME NEW w \in Owners PROVE Latest(u.marks[p][w], p, w, gs)
    <3>1. Latest(Old(p)[w], p, w, hs)
      BY <1>7
    <3>2. CASE IsPrefix(p, key) /\ w = o
      <4>1. u.marks[p][w] = now
        BY <1>7, <2>1, <3>2
      <4>2. \A h \in gs : h.at <= now
        OBVIOUS
      <4>3. mark \in gs /\ mark.id = w /\ IsPrefix(p, mark.text) /\ mark.at = now
        BY <1>1, <3>2
      <4> HIDE DEF gs
      <4> QED
        BY <4>1, <4>2, <4>3 DEF Latest
    <3>3. CASE ~ (IsPrefix(p, key) /\ w = o)
      <4>1. u.marks[p][w] = Old(p)[w]
        BY <1>7, <2>1, <3>3
      <4>2. ~ (mark.id = w /\ IsPrefix(p, mark.text))
        BY <1>1, <3>3
      <4> QED
        BY <3>1, <4>1, <4>2 DEF Latest
    <3> QED
      BY <3>2, <3>3
  <2> QED
    BY <2>2, <2>3, ZenonT(30)
<1>9. IsTree(u, C)
  <2>1. u.marks \in [M -> [Owners -> Nat]]
    <3>1. DOMAIN u.marks = M /\ u.marks = [p \in M |-> u.marks[p]]
      BY <1>3, <1>4
    <3> HIDE DEF M
    <3> QED
      BY <1>8, <3>1
  <2>2. << >> \notin M
    BY <1>1, <1>2 DEF Grown, Middle
  <2> HIDE DEF M
  <2> QED
    BY <1>2, <1>4, <1>5, <1>6, <2>1, <2>2 DEF IsTree
<1>10. Marked(u, gs)
  <2> HIDE DEF M, gs
  <2> QED
    BY <1>5, <1>8 DEF Marked
<1>11. Used(M, gs)
  <2>1. ASSUME NEW p \in M PROVE \E h \in gs : IsPrefix(p, h.text)
    <3>1. CASE p \in N
      BY <3>1 DEF Sound, Used
    <3>2. CASE p \notin N
      <4>1. p \in {f, key}
        BY <3>2 DEF Grown, Middle
      <4>2. IsPrefix(f, key) /\ IsPrefix(key, key)
        BY <1>1, <1>2, ForkIs, PrefixRefl, ZenonT(30)
      <4>3. IsPrefix(p, mark.text)
        BY <1>1, <4>1, <4>2
      <4> QED
        BY <4>3
    <3> QED
      BY <3>1, <3>2
  <2> QED
    BY <2>1 DEF Used
<1>12. History(gs, M, C)
  <2>1. IsFiniteSet(gs)
    BY FS_AddElement, ZenonT(30) DEF Sound, History
  <2>2. ASSUME NEW h \in gs
        PROVE  h.id \in Owners /\ h.text \in Seq(C) /\ h.text \in M \cup {<< >>} /\ h.at \in Nat \ {0}
    <3>1. CASE h \in hs
      BY <3>1 DEF Sound, History, Grown
    <3>2. CASE h = mark
      BY <1>1, <3>2 DEF Grown
    <3> QED
      BY <3>1, <3>2
  <2> QED
    BY <2>1, <2>2 DEF History
<1>13. Counted(u)
  <2>1. t.nodes = Cardinality(N) /\ t.bytes = Cardinality(Bytes(N, N))
    BY ZenonT(30) DEF Sound, Counted
  <2>2. IsFiniteSet(added)
    <3>1. added \in SUBSET M
      BY <1>3
    <3> QED
      BY <1>6, <3>1, FS_Subset, ZenonT(30)
  <2>3. Cardinality(N \cup added) = Cardinality(N) + Cardinality(added) - Cardinality(N \cap added)
    BY <1>2, <2>2, FS_Union, ZenonT(30)
  <2>4. Cardinality(N \cap added) = 0
    BY <1>3, FS_EmptySet, ZenonT(30)
  <2>5. Cardinality(M) = Cardinality(N \cup added)
    BY <1>3, ZenonT(30)
  <2>6. Cardinality(N) \in Nat /\ Cardinality(added) \in Nat /\ Cardinality(Bytes(N, N)) \in Nat
    BY <1>2, <2>2, BytesFinite, FS_CardinalityType
  <2>7. Len(key) \in Nat /\ Len(f) \in Nat
    <3>1. f \in Seq(C)
      BY <1>1, <1>2, ForkIs, ZenonT(30)
    <3> QED
      BY <1>1, <3>1
  <2> HIDE DEF M, f
  <2> QED
    BY <1>4, <1>5, <1>6, <2>1, <2>3, <2>4, <2>5, <2>6, <2>7 DEF Counted
<1> HIDE DEF M, gs
<1>14. Sound(u, gs, C)
  BY <1>5, <1>6, <1>9, <1>10, <1>11, <1>12, <1>13, ZenonT(30) DEF Sound
<1> QED
  BY <1>4, <1>14 DEF u, gs

-----------------------------------------------------------------------------
(* The budget. *)

\* The times of the marks in the tree are times of the history, and reach up to its youngest
\* mark.
LEMMA TimesAre ==
    ASSUME NEW C, NEW t, NEW hs, Sound(t, hs, C)
    PROVE  /\ OwnerTimes(t) \in SUBSET Nat /\ IsFiniteSet(OwnerTimes(t))
           /\ \A ts \in OwnerTimes(t) : \E h \in hs : h.at = ts
           /\ \A h \in hs : h.text # << >> => \E ts \in OwnerTimes(t) : h.at <= ts
<1> DEFINE N == Nodes(t)
           A == {h.at : h \in hs}
           F == [h \in hs |-> h.at]
<1>1. /\ t.marks \in [N -> [Owners -> Nat]] /\ N \in SUBSET Seq(C)
      /\ \A p \in N, o \in Owners : Latest(t.marks[p][o], p, o, hs)
  BY DEF Sound, IsTree, Marked
<1>2. /\ IsFiniteSet(hs)
      /\ \A h \in hs : h.id \in Owners /\ h.text \in Seq(C) /\ h.text \in N \cup {<< >>} /\ h.at \in Nat \ {0}
  BY DEF Sound, History
<1>3. ASSUME NEW ts \in OwnerTimes(t) PROVE ts \in Nat /\ \E h \in hs : h.at = ts
  <2>1. PICK p \in N : \E o \in Owners : ts = t.marks[p][o] /\ ts # 0
    BY DEF OwnerTimes
  <2>2. PICK o \in Owners : ts = t.marks[p][o] /\ ts # 0
    BY <2>1
  <2>3. ts \in Nat /\ Latest(ts, p, o, hs)
    BY <1>1, <2>2
  <2> QED
    BY <2>2, <2>3 DEF Latest
<1>4. ASSUME NEW h \in hs, h.text # << >> PROVE \E ts \in OwnerTimes(t) : h.at <= ts
  <2> DEFINE ts == t.marks[h.text][h.id]
  <2>1. h.text \in N /\ h.id \in Owners /\ h.at \in Nat \ {0} /\ IsPrefix(h.text, h.text)
    BY <1>2, <1>4, PrefixRefl
  <2>2. Latest(ts, h.text, h.id, hs) /\ ts \in Nat
    BY <1>1, <2>1
  <2>3. h.at <= ts
    BY <2>1, <2>2 DEF Latest
  <2>4. ts # 0
    BY <2>1, <2>2, <2>3
  <2>5. ts \in OwnerTimes(t)
    BY <2>1, <2>4 DEF OwnerTimes
  <2> QED
    BY <2>3, <2>5
<1>5. IsFiniteSet(A)
  <2>1. F \in Surjection(hs, A)
    BY DEF Surjection
  <2> HIDE DEF F, A
  <2> QED
    BY <1>2, <2>1, FS_Surjection, ZenonT(30)
<1>6. OwnerTimes(t) \in SUBSET A
  BY <1>3
<1>7. IsFiniteSet(OwnerTimes(t))
  <2> HIDE DEF A
  <2> QED
    BY <1>5, <1>6, FS_Subset, ZenonT(30)
<1>8. OwnerTimes(t) \in SUBSET Nat
  BY <1>3
<1> QED
  BY <1>3, <1>4, <1>7, <1>8

\* A tree without marks has no nodes, so it is within any budget: enforceBudget never
\* gives up with the tree over a limit.
LEMMA UnmarkedIsEmpty ==
    ASSUME NEW C, NEW t, NEW hs, Sound(t, hs, C),
           OwnerTimes(t) = {}
    PROVE  ~ OverBudget(t)
<1> DEFINE N == Nodes(t)
<1>1. N = {}
  <2> SUFFICES ASSUME NEW p \in N PROVE FALSE
    OBVIOUS
  <2>1. p \in Seq(C) /\ p # << >>
    BY DEF Sound, IsTree
  <2>2. PICK h \in hs : IsPrefix(p, h.text)
    BY DEF Sound, Used
  <2>3. h.text \in Seq(C)
    BY DEF Sound, History
  <2>4. h.text # << >>
    <3>1. Len(p) \in Nat /\ Len(p) # 0 /\ Len(p) <= Len(h.text)
      BY <2>1, <2>2, <2>3, PrefixLen, EmptyText
    <3> QED
      BY <3>1
  <2> QED
    BY <2>4, TimesAre
<1>2. t.nodes = Cardinality(N) /\ t.bytes = Cardinality(Bytes(N, N))
  BY DEF Sound, Counted
<1>3. Bytes(N, N) = {}
  BY <1>1 DEF Bytes
<1>4. t.nodes = 0 /\ t.bytes = 0
  BY <1>1, <1>2, <1>3, FS_EmptySet, ZenonT(30)
<1> QED
  BY <1>4, TreeAssumption DEF OverBudget

\* enforceBudget brings the tree within its limits, and takes away whole ages of marks.
LEMMA EnforceKeeps ==
    ASSUME NEW C, NEW t, NEW hs, Sound(t, hs, C),
           \A h \in hs : h.at > t.floor
    PROVE  /\ Sound(EnforceBudget(t), {h \in hs : h.at > EnforceBudget(t).floor}, C)
           /\ ~ OverBudget(EnforceBudget(t))
           /\ EnforceBudget(t).floor = t.floor \/ \E h \in hs : EnforceBudget(t).floor = h.at
<1> DEFINE times == OwnerTimes(t)
           Old(ts) == PruneNode(t, ts + 1)
           enough == {ts \in times : ~ OverBudget(Old(ts)) \/ OwnerTimes(Old(ts)) = {}}
           u == EnforceBudget(t)
<1>1. u = IF OverBudget(t) /\ times # {} THEN Old(Min(enough)) ELSE t
  BY ZenonT(30) DEF EnforceBudget
<1>2. /\ times \in SUBSET Nat /\ IsFiniteSet(times)
      /\ \A ts \in times : \E h \in hs : h.at = ts
      /\ \A h \in hs : h.text # << >> => \E ts \in times : h.at <= ts
  BY TimesAre, ZenonT(30)
<1>3. t.floor \in Nat /\ \A h \in hs : h.at \in Nat
  BY DEF Sound, IsTree, History
<1> HIDE DEF times
<1>4. CASE ~ (OverBudget(t) /\ times # {})
  <2>1. u = t
    BY <1>1, <1>4
  <2>2. {h \in hs : h.at > t.floor} = hs
    OBVIOUS
  <2>3. ~ OverBudget(t)
    BY <1>4, UnmarkedIsEmpty DEF times
  <2> QED
    BY <2>1, <2>2, <2>3, ZenonT(30)
<1>5. CASE OverBudget(t) /\ times # {}
  <2>1. PICK m \in times : \A ts \in times : m >= ts
    <3>1. times \in SUBSET Int
      BY <1>2
    <3> QED
      BY <1>2, <1>5, <3>1, HasGreatest, ZenonT(30)
  <2>2. m \in Nat /\ m + 1 \in Nat \ {0}
    BY <1>2
  <2>3. Sound(Old(m), {h \in hs : h.at >= m + 1}, C)
    BY <2>2, PruneKeeps, ZenonT(30)
  <2>4. OwnerTimes(Old(m)) = {}
    <3> SUFFICES ASSUME NEW ts \in OwnerTimes(Old(m)) PROVE FALSE
      OBVIOUS
    <3> DEFINE g == Old(m)
    <3>1. PICK p \in Nodes(g) : \E o \in Owners : ts = g.marks[p][o] /\ ts # 0
      BY DEF OwnerTimes
    <3>2. PICK o \in Owners : ts = g.marks[p][o] /\ ts # 0
      BY <3>1
    <3> HIDE DEF g
    <3>3. Latest(ts, p, o, {h \in hs : h.at >= m + 1}) /\ p \in Seq(C) /\ p # << >>
      BY <2>3, <3>2, ZenonT(30) DEF g, Sound, Marked, IsTree
    <3>4. PICK h \in hs : h.at >= m + 1 /\ IsPrefix(p, h.text)
      BY <3>2, <3>3 DEF Latest
    <3>5. h.text \in Seq(C)
      BY ZenonT(30) DEF Sound, History
    <3>6. h.text # << >>
      <4>1. Len(p) \in Nat /\ Len(p) # 0 /\ Len(p) <= Len(h.text)
        BY <3>3, <3>4, <3>5, PrefixLen, EmptyText
      <4> QED
        BY <4>1
    <3>7. PICK z \in times : h.at <= z
      BY <1>2, <3>6
    <3>8. z <= m /\ z \in Nat /\ h.at \in Nat
      BY <1>2, <1>3, <2>1, <2>2
    <3> QED
      BY <2>2, <3>4, <3>7, <3>8
  <2>5. enough \in SUBSET times /\ enough # {}
    BY <2>1, <2>4
  <2> DEFINE ts == Min(enough)
  <2>6. ts \in enough
    <3> HIDE DEF enough
    <3>1. enough \in SUBSET Int /\ IsFiniteSet(enough)
      <4>1. enough \in SUBSET Int
        BY <1>2, <2>5
      <4> QED
        BY <1>2, <2>5, <4>1, FS_Subset, ZenonT(30)
    <3> QED
      BY <2>5, <3>1, MinIs, ZenonT(30)
  <2>7. u = Old(ts) /\ ts \in times /\ (~ OverBudget(u) \/ OwnerTimes(u) = {})
    <3>1. u = Old(ts)
      BY <1>1, <1>5, ZenonT(30)
    <3>2. ts \in times /\ (~ OverBudget(Old(ts)) \/ OwnerTimes(Old(ts)) = {})
      BY <2>6
    <3> QED
      BY <3>1, <3>2, ZenonT(30)
  <2> HIDE DEF ts, enough, u
  <2>8. ts \in Nat /\ ts + 1 \in Nat \ {0} /\ ts > t.floor
    <3>1. ts \in Nat
      BY <1>2, <2>7, ZenonT(30)
    <3>2. PICK h \in hs : h.at = ts
      BY <1>2, <2>7, ZenonT(30)
    <3>3. ts > t.floor
      BY <3>2, ZenonT(30)
    <3> QED
      BY <3>1, <3>3
  <2> DEFINE d == ts + 1
  <2>9. /\ Sound(u, {h \in hs : h.at >= d}, C)
        /\ u.floor \in Nat /\ u.floor >= t.floor /\ u.floor >= d - 1 /\ u.floor \in {t.floor, d - 1}
    <3>1. d \in Nat \ {0} /\ u = PruneNode(t, d)
      BY <2>7, <2>8
    <3> HIDE DEF d
    <3> QED
      BY <3>1, PruneKeeps, ZenonT(30)
  <2>10. u.floor = ts
    BY <1>3, <2>8, <2>9
  <2>11. {h \in hs : h.at >= d} = {h \in hs : h.at > u.floor}
    BY <1>3, <2>8, <2>10
  <2>12. Sound(u, {h \in hs : h.at > u.floor}, C)
    BY <2>9, <2>11
  <2>13. ~ OverBudget(u)
    BY <2>7, <2>12, UnmarkedIsEmpty
  <2>14. \E h \in hs : u.floor = h.at
    BY <1>2, <2>7, <2>10
  <2> QED
    BY <2>12, <2>13, <2>14 DEF u
<1> QED
  BY <1>4, <1>5

\* Insert of a text without bytes leaves the tree alone.
LEMMA EmptyMark ==
    ASSUME NEW C, NEW t, NEW hs, Sound(t, hs, C),
           NEW mark, mark.id \in Owners, mark.text = << >>, mark.at \in Nat \ {0}
    PROVE  Sound(t, hs \cup {mark}, C)
<1> DEFINE gs == hs \cup {mark}
<1>1. \A p \in Nodes(t) : ~ IsPrefix(p, << >>)
  <2>1. ASSUME NEW p \in Nodes(t) PROVE ~ IsPrefix(p, << >>)
    <3>1. p \in Seq(C) /\ p # << >>
      BY DEF Sound, IsTree
    <3>2. Len(p) \in Nat /\ Len(p) # 0 /\ << >> \in Seq(C) /\ Len(<< >>) = 0
      BY <3>1, EmptyText
    <3>3. IsPrefix(p, << >>) => Len(p) <= Len(<< >>)
      BY <3>1, <3>2, PrefixLen, ZenonT(30)
    <3> QED
      BY <3>2, <3>3
  <2> QED
    BY <2>1
<1>2. Marked(t, gs)
  <2>1. ASSUME NEW p \in Nodes(t), NEW o \in Owners PROVE Latest(t.marks[p][o], p, o, gs)
    <3>1. Latest(t.marks[p][o], p, o, hs) /\ ~ IsPrefix(p, mark.text)
      BY <1>1, ZenonT(30) DEF Sound, Marked
    <3> QED
      BY <3>1, ZenonT(30) DEF Latest
  <2> QED
    BY <2>1, ZenonT(30) DEF Marked
<1>3. Used(Nodes(t), gs)
  BY DEF Sound, Used
<1>4. History(gs, Nodes(t), C)
  <2>1. IsFiniteSet(gs)
    BY FS_AddElement, ZenonT(30) DEF Sound, History
  <2>2. ASSUME NEW h \in gs
        PROVE  h.id \in Owners /\ h.text \in Seq(C) /\ h.text \in Nodes(t) \cup {<< >>} /\ h.at \in Nat \ {0}
    <3>1. CASE h \in hs
      BY <3>1 DEF Sound, History
    <3>2. CASE h = mark
      BY <3>2, EmptyText, ZenonT(30)
    <3> QED
      BY <3>1, <3>2
  <2> QED
    BY <2>1, <2>2 DEF History
<1> QED
  BY <1>2, <1>3, <1>4, ZenonT(30) DEF Sound

\* The marks are younger than the floor and no younger than the time.
Dated(hs, floor, now) == \A h \in hs : floor < h.at /\ h.at <= now

\* Insert of a text, and the marks that are left when the mark it sets is added.
Inserts(t, hs, text, mark, next, kept) ==
    /\ mark.text = Clip(text)
    /\ next = Insert(t, text, mark.id, mark.at)
    /\ kept = {h \in hs \cup {mark} : h.at > next.floor}

\* Insert as a whole.
LEMMA InsertKeeps ==
    ASSUME NEW C, NEW t, NEW hs, Sound(t, hs, C),
           ~ OverBudget(t),
           NEW text \in Seq(C), NEW mark, mark.id \in Owners, mark.at \in Nat \ {0},
           t.floor < mark.at, Dated(hs, t.floor, mark.at),
           NEW next, NEW kept, Inserts(t, hs, text, mark, next, kept)
    PROVE  Sound(next, kept, C) /\ ~ OverBudget(next) /\ next.floor <= mark.at
<1> DEFINE o == mark.id
           now == mark.at
           gs == hs \cup {mark}
           u == Inserted(t, text, o, now)
<1>1. /\ mark.text = Clip(text) /\ next = Insert(t, text, o, now)
      /\ kept = {h \in gs : h.at > next.floor}
  BY ZenonT(30) DEF Inserts
<1>2. (\A h \in gs : h.at > t.floor /\ h.at <= now) /\ t.floor <= now
  BY DEF Sound, IsTree, Dated
<1>3. CASE Clip(text) = << >>
  <2>1. next = t
    BY <1>1, <1>3, ZenonT(30) DEF Insert
  <2>2. Sound(t, gs, C)
    BY <1>1, <1>3, EmptyMark
  <2> HIDE DEF gs
  <2>3. {h \in gs : h.at > t.floor} = gs
    BY <1>2
  <2> QED
    BY <1>1, <1>2, <2>1, <2>2, <2>3, ZenonT(30) DEF gs
<1>4. CASE Clip(text) # << >>
  <2>1. next = EnforceBudget(u)
    BY <1>1, <1>4 DEF Insert
  <2>2. Sound(u, gs, C) /\ u.floor = t.floor
    <3>1. /\ o \in Owners /\ now \in Nat \ {0} /\ mark.id = o /\ mark.at = now
          /\ (\A h \in hs : h.at <= now)
      BY DEF Dated
    <3> HIDE DEF o, now
    <3>2. /\ Sound(Inserted(t, text, o, now), hs \cup {mark}, C)
          /\ Inserted(t, text, o, now).floor = t.floor
      BY <1>1, <1>4, <3>1, InsertedKeeps
    <3> QED
      BY <3>2, ZenonT(30)
  <2> HIDE DEF gs, u
  <2>3. \A h \in gs : h.at > u.floor
    BY <1>2, <2>2
  <2>4. /\ Sound(EnforceBudget(u), {h \in gs : h.at > EnforceBudget(u).floor}, C)
        /\ ~ OverBudget(EnforceBudget(u))
        /\ EnforceBudget(u).floor = u.floor \/ \E h \in gs : EnforceBudget(u).floor = h.at
    BY <2>2, <2>3, EnforceKeeps, ZenonT(30)
  <2>5. EnforceBudget(u).floor <= now
    BY <1>2, <2>2, <2>4
  <2> QED
    BY <1>1, <2>1, <2>4, <2>5 DEF gs
<1> QED
  BY <1>3, <1>4
=============================================================================
