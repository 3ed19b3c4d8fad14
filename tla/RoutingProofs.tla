--------------------------- MODULE RoutingProofs ----------------------------
(***************************************************************************)
(* What is proved of routing, for any backends, subpools, weights, texts,  *)
(* limits and any number of requests: the pools agree, no request goes to  *)
(* an instance that was gone before it began, a subpool without weight is  *)
(* not picked, and the prefix tree counts itself and finds the longest     *)
(* match.  The operations of the tree are in TreeProofs.                   *)
(***************************************************************************)
EXTENDS Routing, TreeProofs

\* The time the provers have for a leaf, in seconds.
USE SMTT(30), ZenonT(30)

Picking == {"split", "pool", "ring", "match"}
NoInstance == [id |-> Whole, n |-> 0]

Reqs == [pc : Picking \cup {"idle", "sent"}, text : Texts \cup {<< >>}, x : Int, k : Nat,
         from : Pools, seen : Seq(Instances), cand : SUBSET Instances,
         b : Instances \cup {NoInstance}, live : SUBSET Instances,
         gone : BOOLEAN, moved : BOOLEAN]

\* The registry: the pools hold registered instances, and what PoolsAgree says of them.
Agreed(ps, reg) ==
    /\ \A p \in Pools : Range(ps[p]) \subseteq reg /\ IsInjective(ps[p])
    /\ Range(ps[Whole]) = UNION {Range(ps[s]) : s \in Range(Splits)}

RegistryInv ==
    /\ byID \in [Ids -> 0 .. MaxChanges + 1] /\ changes \in 0 .. MaxChanges
    /\ pool \in [Pools -> Seq(Instances)] /\ Agreed(pool, Registered)

\* A request that is picking has seen every instance that is registered now, and what it
\* may pick is among those it has seen.
Tracked(q, reg) ==
    /\ q.pc # "idle" => q.text \in Texts
    /\ q.pc \in Picking => reg \subseteq q.live
    /\ q.pc \in {"ring", "match"} => q.cand # {} /\ q.cand \subseteq Range(q.seen) /\ Range(q.seen) \subseteq q.live
    /\ q.pc = "sent" => q.b \in Instances
    /\ ~ q.gone

\* What is left of x lies below the weights that are still to come, as long as no weight
\* has changed.
Scanning(q, w) ==
    q.pc = "split" => /\ q.k \in 1 .. Len(Splits)
                      /\ ~ q.moved => q.x >= 0 /\ q.x + w[q.k - 1] < w[Len(Splits)]

RequestInv ==
    /\ weight \in [Range(Splits) -> Nat] /\ req \in [Requests -> Reqs]
    /\ \A r \in Requests : Tracked(req[r], Registered) /\ Scanning(req[r], WeightUpTo)

-----------------------------------------------------------------------------
(* The registry. *)

\* What the assumptions say of the pools: there is a subpool, and the whole pool is none of
\* them.
LEMMA RouteFacts ==
    /\ IsFiniteSet(Ids) /\ MaxChanges \in Nat
    /\ Whole \notin Range(Splits) /\ Range(Splits) # {}
    /\ Whole \in Pools /\ Range(Splits) \subseteq Pools
    /\ Pools = {Whole} \cup Range(Splits)
<1>1. Range(Splits) # {}
  <2>1. Splits \in Seq(Range(Splits)) /\ Splits # << >>
    BY RouteAssumption
  <2>2. 1 \in DOMAIN Splits
    BY <2>1
  <2> QED
    BY <2>2 DEF Range
<1> QED
  BY <1>1, RouteAssumption DEF Pools

\* What is left of a pool when the instances of one ID leave it.
Others(s, id) == {b \in Range(s) : b.id # id}

\* Removed drops them from the slice, keeps the others and adds none.
LEMMA LeftOf ==
    ASSUME NEW s \in Seq(Instances), IsInjective(s), NEW id
    PROVE  /\ Only(s, Others(s, id)) \in Seq(Instances) /\ IsInjective(Only(s, Others(s, id)))
           /\ Range(Only(s, Others(s, id))) = Others(s, id)
<1> DEFINE S == {b \in Range(s) : b.id # id}
           o == Only(s, S)
<1>1. o \in Seq(Instances) /\ Range(o) = Range(s) \cap S /\ Within(o, s)
  BY OnlyKeeps, ZenonT(30)
<1>2. Range(s) \cap S = S
  OBVIOUS
<1> HIDE DEF o, S
<1>3. IsInjective(o)
  BY <1>1 DEF Within, IsInjective
<1> QED
  BY <1>1, <1>2, <1>3 DEF o, S, Others

\* removeLocked takes the instances of the ID out of every pool, and the pools still agree.
LEMMA RemovedAgree ==
    ASSUME NEW ps \in [Pools -> Seq(Instances)], NEW reg, Agreed(ps, reg), NEW id
    PROVE  /\ Removed(id, ps) \in [Pools -> Seq(Instances)]
           /\ Agreed(Removed(id, ps), {b \in reg : b.id # id})
<1> DEFINE rs == Removed(id, ps)
<1>1. ASSUME NEW p \in Pools
      PROVE  /\ rs[p] \in Seq(Instances) /\ IsInjective(rs[p])
             /\ Range(rs[p]) = Others(ps[p], id)
  <2>1. ps[p] \in Seq(Instances) /\ IsInjective(ps[p])
    BY DEF Agreed
  <2>2. rs[p] = Only(ps[p], Others(ps[p], id))
    BY ZenonT(30) DEF Removed, Others
  <2> HIDE DEF rs
  <2> QED
    BY <2>1, <2>2, LeftOf, ZenonT(30)
<1>2. rs \in [Pools -> Seq(Instances)]
  <2>1. DOMAIN rs = Pools /\ rs = [p \in Pools |-> rs[p]]
    BY ZenonT(30) DEF Removed
  <2> HIDE DEF rs
  <2> QED
    BY <1>1, <2>1, ZenonT(30)
<1> HIDE DEF rs
<1>3. ASSUME NEW p \in Pools PROVE Range(rs[p]) \subseteq {b \in reg : b.id # id}
  BY <1>1 DEF Agreed, Others
<1>4. Range(rs[Whole]) = UNION {Range(rs[s]) : s \in Range(Splits)}
  <2>1. Whole \in Pools /\ \A s \in Range(Splits) : s \in Pools
    BY RouteFacts, ZenonT(30)
  <2>2. Range(ps[Whole]) = UNION {Range(ps[s]) : s \in Range(Splits)}
    BY DEF Agreed
  <2>3. ASSUME NEW b \in Range(rs[Whole]) PROVE \E s \in Range(Splits) : b \in Range(rs[s])
    <3>1. b \in Range(ps[Whole]) /\ b.id # id
      BY <1>1, <2>1, <2>3 DEF Others
    <3>2. PICK s \in Range(Splits) : b \in Range(ps[s])
      BY <2>2, <3>1, ZenonT(30)
    <3> QED
      BY <1>1, <2>1, <3>1, <3>2 DEF Others
  <2>4. ASSUME NEW s \in Range(Splits), NEW b \in Range(rs[s]) PROVE b \in Range(rs[Whole])
    <3>1. b \in Range(ps[s]) /\ b.id # id
      BY <1>1, <2>1, <2>4 DEF Others
    <3>2. b \in Range(ps[Whole])
      BY <2>2, <3>1, ZenonT(30)
    <3> QED
      BY <1>1, <2>1, <3>1, <3>2 DEF Others
  <2> QED
    BY <2>3, <2>4, ZenonT(30)
<1> QED
  BY <1>1, <1>2, <1>3, <1>4, ZenonT(30) DEF Agreed, rs

\* Appending an element adds it to the range, and keeps a sequence without duplicates so if
\* it is new.
LEMMA AppendIs ==
    ASSUME NEW T, NEW s \in Seq(T), NEW b \in T
    PROVE  /\ Append(s, b) \in Seq(T) /\ Range(Append(s, b)) = Range(s) \cup {b}
           /\ IsInjective(s) /\ b \notin Range(s) => IsInjective(Append(s, b))
<1> DEFINE a == Append(s, b)
<1>1. /\ a \in Seq(T) /\ Len(s) \in Nat
      /\ DOMAIN a = 1 .. Len(s) + 1 /\ DOMAIN s = 1 .. Len(s)
      /\ a[Len(s) + 1] = b /\ \A n \in 1 .. Len(s) : a[n] = s[n]
  OBVIOUS
<1> HIDE DEF a
<1>2. Range(a) = Range(s) \cup {b}
  <2>1. ASSUME NEW x \in Range(a) PROVE x \in Range(s) \cup {b}
    BY <1>1 DEF Range
  <2>2. ASSUME NEW x \in Range(s) \cup {b} PROVE x \in Range(a)
    BY <1>1 DEF Range
  <2> QED
    BY <2>1, <2>2
<1>3. ASSUME IsInjective(s), b \notin Range(s), NEW m \in DOMAIN a, NEW n \in DOMAIN a, a[m] = a[n]
      PROVE  m = n
  <2>1. \A k \in 1 .. Len(s) : s[k] # b
    BY <1>1, <1>3 DEF Range
  <2> QED
    BY <1>1, <1>3, <2>1 DEF IsInjective
<1> QED
  BY <1>1, <1>2, <1>3 DEF a, IsInjective

\* withBackend adds a new instance to every pool.
LEMMA JoinedAgree ==
    ASSUME NEW ps \in [Pools -> Seq(Instances)], NEW reg, Agreed(ps, reg),
           NEW b \in Instances, b \notin reg
    PROVE  /\ Joined(ps, b) \in [Pools -> Seq(Instances)]
           /\ Agreed(Joined(ps, b), reg \cup {b})
<1> DEFINE js == Joined(ps, b)
<1>1. ASSUME NEW p \in Pools
      PROVE  /\ js[p] \in Seq(Instances) /\ IsInjective(js[p])
             /\ Range(js[p]) = Range(ps[p]) \cup {b}
  <2>1. ps[p] \in Seq(Instances) /\ IsInjective(ps[p]) /\ b \notin Range(ps[p])
    BY DEF Agreed
  <2>2. js[p] = Append(ps[p], b)
    BY ZenonT(30) DEF Joined
  <2> HIDE DEF js
  <2> QED
    BY <2>1, <2>2, AppendIs
<1>2. js \in [Pools -> Seq(Instances)]
  <2>1. js = [p \in Pools |-> js[p]]
    BY ZenonT(30) DEF Joined
  <2> HIDE DEF js
  <2> QED
    BY <1>1, <2>1, ZenonT(30)
<1> HIDE DEF js
<1>3. ASSUME NEW p \in Pools PROVE Range(js[p]) \subseteq reg \cup {b}
  BY <1>1 DEF Agreed
<1>4. Range(js[Whole]) = UNION {Range(js[s]) : s \in Range(Splits)}
  <2>1. Whole \in Pools /\ (\A s \in Range(Splits) : s \in Pools) /\ \E s \in Range(Splits) : TRUE
    BY RouteFacts, ZenonT(30)
  <2>2. Range(ps[Whole]) = UNION {Range(ps[s]) : s \in Range(Splits)}
    BY DEF Agreed
  <2>3. \A c \in Range(ps[Whole]) : \E s \in Range(Splits) : c \in Range(ps[s])
    BY <2>2, ZenonT(30)
  <2>4. ASSUME NEW c \in Range(js[Whole]) PROVE \E s \in Range(Splits) : c \in Range(js[s])
    <3>1. PICK s \in Range(Splits) : TRUE
      BY <2>1
    <3>2. CASE c = b
      <4>1. s \in Pools
        BY <2>1
      <4> QED
        BY <1>1, <3>2, <4>1, ZenonT(30)
    <3>3. CASE c \in Range(ps[Whole])
      <4>1. PICK z \in Range(Splits) : c \in Range(ps[z])
        BY <2>3, <3>3, ZenonT(30)
      <4> QED
        BY <1>1, <2>1, <4>1
    <3> QED
      BY <1>1, <2>1, <3>2, <3>3
  <2>5. ASSUME NEW s \in Range(Splits), NEW c \in Range(js[s]) PROVE c \in Range(js[Whole])
    <3>1. c = b \/ c \in Range(ps[s])
      BY <1>1, <2>1
    <3>2. c \in Range(ps[s]) => c \in Range(ps[Whole])
      BY <2>2, ZenonT(30)
    <3> QED
      BY <1>1, <2>1, <3>1, <3>2
  <2> QED
    BY <2>4, <2>5, ZenonT(30)
<1> QED
  BY <1>1, <1>2, <1>3, <1>4, ZenonT(30) DEF Agreed, js

Firsts(ids) == {[id |-> i, n |-> 1] : i \in ids}

\* The instances that some IDs start with are finitely many.
LEMMA FirstsAre ==
    ASSUME NEW ids \in SUBSET Ids
    PROVE  Firsts(ids) \in SUBSET Instances /\ IsFiniteSet(Firsts(ids))
<1>1. IsFiniteSet(ids)
  BY RouteFacts, FS_Subset, ZenonT(30)
<1> DEFINE F == [i \in ids |-> [id |-> i, n |-> 1]]
<1>2. F \in Surjection(ids, Firsts(ids))
  BY DEF Surjection, Firsts
<1>3. IsFiniteSet(Firsts(ids))
  <2> HIDE DEF F
  <2> QED
    BY <1>1, <1>2, FS_Surjection, ZenonT(30)
<1>4. 1 \in 1 .. MaxChanges + 1
  BY RouteFacts
<1> QED
  BY <1>3, <1>4 DEF Firsts, Instances

\* NewRegistry puts every instance into a pool once.
LEMMA PoolOfIs ==
    ASSUME NEW ids \in SUBSET Ids
    PROVE  /\ PoolOf(ids) \in Seq(Instances) /\ IsInjective(PoolOf(ids))
           /\ Range(PoolOf(ids)) = Firsts(ids)
<1> DEFINE bs == Firsts(ids)
           s == PoolOf(ids)
<1>1. bs \in SUBSET Instances /\ IsFiniteSet(bs)
  BY FirstsAre, ZenonT(30)
<1>2. s = CHOOSE f \in Bijection(1 .. Cardinality(bs), bs) : TRUE
  BY ZenonT(30) DEF PoolOf, Firsts
<1> HIDE DEF bs, s
<1>3. Cardinality(bs) \in Nat /\ Bijection(1 .. Cardinality(bs), bs) # {}
  BY <1>1, FS_CardinalityType, ZenonT(30) DEF ExistsBijection
<1>4. s \in Bijection(1 .. Cardinality(bs), bs)
  BY <1>2, <1>3, ZenonT(30)
<1>5. /\ s \in [1 .. Cardinality(bs) -> bs] /\ IsInjective(s)
      /\ \A b \in bs : \E n \in 1 .. Cardinality(bs) : s[n] = b
  BY <1>4, ZenonT(30) DEF Bijection, Injection, Surjection
<1>6. s \in Seq(Instances)
  BY <1>1, <1>3, <1>5
<1>7. Range(s) = bs
  BY <1>5 DEF Range
<1> QED
  BY <1>5, <1>6, <1>7 DEF bs, s

\* NewRegistry: the whole pool is the union of the subpools, and all of it is registered.
LEMMA RegistryInit ==
    ASSUME Init
    PROVE  RegistryInv
<1> DEFINE ids(p) == IF p = Whole THEN UNION Range(Members) ELSE Members[p]
<1>1. /\ MaxChanges \in Nat /\ 1 \in 1 .. MaxChanges + 1
      /\ Members \in [Range(Splits) -> SUBSET Ids]
      /\ Pools = {Whole} \cup Range(Splits) /\ Whole \notin Range(Splits)
  BY RouteFacts, RouteAssumption
<1>2. byID \in [Ids -> 0 .. MaxChanges + 1] /\ changes \in 0 .. MaxChanges
  BY <1>1 DEF Init
<1>3. /\ \A s \in Range(Splits) : ids(s) = Members[s] /\ ids(s) \in SUBSET Ids
      /\ ids(Whole) = UNION {Members[s] : s \in Range(Splits)}
      /\ ids(Whole) \in SUBSET Ids
  BY <1>1 DEF Range
<1>4. /\ DOMAIN pool = Pools /\ pool = [p \in Pools |-> pool[p]]
      /\ \A p \in Pools : pool[p] = PoolOf(ids(p))
  BY ZenonT(30) DEF Init
<1>5. \A i \in Ids : byID[i] = IF i \in ids(Whole) THEN 1 ELSE 0
  <2>1. byID = [i \in Ids |-> IF \E s \in DOMAIN Members : i \in Members[s] THEN 1 ELSE 0]
    BY DEF Init
  <2>2. DOMAIN Members = Range(Splits)
    BY <1>1
  <2>3. \A i : (\E s \in DOMAIN Members : i \in Members[s]) <=> i \in ids(Whole)
    BY <1>3, <2>2
  <2> HIDE DEF ids
  <2> QED
    BY <2>1, <2>3, ZenonT(30)
<1> HIDE DEF ids
<1>6. ASSUME NEW p \in Pools PROVE ids(p) \in SUBSET Ids /\ ids(p) \subseteq ids(Whole)
  BY <1>1, <1>3
<1>7. ASSUME NEW p \in Pools
      PROVE  /\ pool[p] \in Seq(Instances) /\ IsInjective(pool[p]) /\ Range(pool[p]) = Firsts(ids(p))
  BY <1>4, <1>6, PoolOfIs, ZenonT(30)
<1>8. pool \in [Pools -> Seq(Instances)]
  BY <1>4, <1>7, ZenonT(30)
<1>9. ASSUME NEW p \in Pools PROVE Range(pool[p]) \subseteq Registered
  <2>1. Firsts(ids(p)) \in SUBSET Instances
    BY <1>6, FirstsAre, ZenonT(30)
  <2>2. ASSUME NEW b \in Firsts(ids(p)) PROVE byID[b.id] = b.n
    BY <1>5, <1>6, <2>2 DEF Firsts
  <2> QED
    BY <1>7, <2>1, <2>2 DEF Registered
<1>10. Range(pool[Whole]) = UNION {Range(pool[s]) : s \in Range(Splits)}
  <2>1. \A p \in Pools : Range(pool[p]) = Firsts(ids(p))
    BY <1>7
  <2>2. ASSUME NEW b \in Firsts(ids(Whole)) PROVE \E s \in Range(Splits) : b \in Firsts(ids(s))
    BY <1>3 DEF Firsts
  <2>3. ASSUME NEW s \in Range(Splits), NEW b \in Firsts(ids(s)) PROVE b \in Firsts(ids(Whole))
    BY <1>3 DEF Firsts
  <2>4. Whole \in Pools /\ \A s \in Range(Splits) : s \in Pools
    BY <1>1
  <2> QED
    BY <2>1, <2>2, <2>3, <2>4, ZenonT(30)
<1> QED
  BY <1>2, <1>7, <1>8, <1>9, <1>10, ZenonT(30) DEF RegistryInv, Agreed

\* A request leaves the registry and the weights alone.
LEMMA RequestFrame ==
    ASSUME NEW r \in Requests,
           PickSplit(r) \/ ScanSplit(r) \/ ReadPool(r) \/ PickHashStable(r)
             \/ PickCacheAware(r) \/ Observe(r) \/ Fail(r)
    PROVE  UNCHANGED <<byID, pool, weight, changes>>
<1>1. CASE PickSplit(r)
  BY <1>1, ZenonT(30) DEF PickSplit, Becomes
<1>2. CASE ScanSplit(r)
  BY <1>2, ZenonT(30) DEF ScanSplit, Becomes
<1>3. CASE ReadPool(r)
  BY <1>3, ZenonT(30) DEF ReadPool, Becomes, Send
<1>4. CASE PickHashStable(r)
  BY <1>4, ZenonT(30) DEF PickHashStable, Becomes, Send
<1>5. CASE PickCacheAware(r)
  BY <1>5, ZenonT(30) DEF PickCacheAware, Becomes, Send
<1>6. CASE Observe(r)
  BY <1>6, ZenonT(30) DEF Observe, Becomes
<1>7. CASE Fail(r)
  BY <1>7, ZenonT(30) DEF Fail, Becomes
<1> QED
  BY <1>1, <1>2, <1>3, <1>4, <1>5, <1>6, <1>7, ZenonT(30)

\* Adding and removing keep the pools in agreement with each other and with byID.
LEMMA RegistryStep ==
    ASSUME RegistryInv, Next
    PROVE  RegistryInv'
<1>1. /\ MaxChanges \in Nat /\ changes \in 0 .. MaxChanges /\ byID \in [Ids -> 0 .. MaxChanges + 1]
      /\ pool \in [Pools -> Seq(Instances)] /\ Agreed(pool, Registered)
  BY RouteFacts DEF RegistryInv
<1> DEFINE rest(id) == {b \in Registered : b.id # id}
<1>2. ASSUME NEW id \in Ids
      PROVE  Removed(id, pool) \in [Pools -> Seq(Instances)] /\ Agreed(Removed(id, pool), rest(id))
  BY <1>1, RemovedAgree, ZenonT(30)
<1>3. ASSUME NEW id \in Ids, UpsertBackend(id) PROVE RegistryInv'
  <2> DEFINE b == [id |-> id, n |-> changes + 2]
  <2>1. /\ changes < MaxChanges /\ changes' = changes + 1
        /\ byID' = [byID EXCEPT ![id] = b.n] /\ pool' = Joined(Removed(id, pool), b)
    BY <1>3, ZenonT(30) DEF UpsertBackend, Registering
  <2>2. b.n \in 1 .. MaxChanges + 1 /\ b \in Instances /\ b.id = id /\ b.n = changes + 2
    BY <1>1, <2>1 DEF Instances
  <2> HIDE DEF b
  <2>3. changes' \in 0 .. MaxChanges /\ byID' \in [Ids -> 0 .. MaxChanges + 1]
    BY <1>1, <2>1, <2>2
  <2>4. b \notin rest(id)
    BY <2>2
  <2>5. Registered' = rest(id) \cup {b}
    <3>1. \A c \in Instances : c.id \in Ids /\ c = [id |-> c.id, n |-> c.n]
      BY DEF Instances
    <3>2. \A i \in Ids : byID'[i] = IF i = id THEN b.n ELSE byID[i]
      BY <1>1, <2>1
    <3>3. b = [id |-> id, n |-> b.n]
      BY <2>2, <3>1
    <3> QED
      BY <2>2, <3>1, <3>2, <3>3 DEF Registered
  <2> HIDE DEF rest
  <2>6. pool' \in [Pools -> Seq(Instances)] /\ Agreed(pool', rest(id) \cup {b})
    BY <1>2, <2>1, <2>2, <2>4, JoinedAgree, ZenonT(30)
  <2> QED
    BY <2>3, <2>5, <2>6, ZenonT(30) DEF RegistryInv
<1>4. ASSUME NEW id \in Ids, RemoveBackend(id) PROVE RegistryInv'
  <2>1. /\ changes < MaxChanges /\ changes' = changes + 1
        /\ byID' = [byID EXCEPT ![id] = 0] /\ pool' = Removed(id, pool)
    BY <1>4 DEF RemoveBackend
  <2>2. changes' \in 0 .. MaxChanges /\ byID' \in [Ids -> 0 .. MaxChanges + 1]
    BY <1>1, <2>1
  <2>3. Registered' = rest(id)
    <3>1. \A c \in Instances : c.id \in Ids /\ c.n \in Nat /\ c.n # 0
      BY <1>1 DEF Instances
    <3>2. \A i \in Ids : byID'[i] = IF i = id THEN 0 ELSE byID[i]
      BY <1>1, <2>1
    <3> QED
      BY <3>1, <3>2 DEF Registered
  <2> HIDE DEF rest
  <2> QED
    BY <1>2, <2>1, <2>2, <2>3, ZenonT(30) DEF RegistryInv
<1>5. ASSUME UNCHANGED <<byID, pool>>, changes' \in 0 .. MaxChanges PROVE RegistryInv'
  <2>1. Registered' = Registered
    BY <1>5 DEF Registered
  <2> QED
    BY <1>1, <1>5, <2>1, ZenonT(30) DEF RegistryInv
<1>6. ASSUME NEW s \in Range(Splits), NEW w \in Weights, SetWeight(s, w) PROVE RegistryInv'
  <2>1. changes < MaxChanges /\ changes' = changes + 1 /\ UNCHANGED <<byID, pool>>
    BY <1>6 DEF SetWeight
  <2>2. changes' \in 0 .. MaxChanges
    BY <1>1, <2>1
  <2> QED
    BY <1>5, <2>1, <2>2
<1>7. ASSUME UNCHANGED <<byID, pool, weight, changes>> PROVE RegistryInv'
  BY <1>1, <1>5, <1>7
<1>8. ASSUME NEW r \in Requests, PickSplit(r) \/ ScanSplit(r) \/ ReadPool(r) \/ PickHashStable(r)
                                   \/ PickCacheAware(r) \/ Observe(r) \/ Fail(r)
      PROVE  UNCHANGED <<byID, pool, weight, changes>>
  BY <1>8, RequestFrame
<1>9. ASSUME Prune PROVE UNCHANGED <<byID, pool, weight, changes>>
  BY <1>9 DEF Prune
<1> QED
  BY <1>3, <1>4, <1>6, <1>7, <1>8, <1>9 DEF Next

-----------------------------------------------------------------------------
(* The weights. *)

IsSum(f, w, n) ==
    /\ f \in [0 .. n -> Nat] /\ f[0] = 0
    /\ \A k \in 1 .. n : f[k] = f[k - 1] + w[Splits[k]]

\* The sums of the weights up to each subpool exist: if they do not up to some subpool,
\* look at the first such one.
LEMMA SumExists ==
    ASSUME NEW w \in [Range(Splits) -> Nat]
    PROVE  \E f : IsSum(f, w, Len(Splits))
<1> DEFINE bad == {n \in 0 .. Len(Splits) : ~ \E f : IsSum(f, w, n)}
<1>1. Splits \in Seq(Range(Splits)) /\ Len(Splits) \in Nat
  BY RouteAssumption
<1>2. \A k \in 1 .. Len(Splits) : w[Splits[k]] \in Nat
  BY <1>1
<1> SUFFICES ASSUME bad # {} PROVE FALSE
  BY <1>1
<1>3. PICK n \in bad : \A m \in bad : n <= m
  <2>1. bad \in SUBSET Int /\ bad \in SUBSET (0 .. Len(Splits))
    OBVIOUS
  <2>2. IsFiniteSet(0 .. Len(Splits))
    BY <1>1, FS_Interval
  <2> HIDE DEF bad
  <2>3. IsFiniteSet(bad)
    BY <2>1, <2>2, FS_Subset, ZenonT(30)
  <2> QED
    BY <2>1, <2>3, HasLeast, ZenonT(30)
<1>4. n \in 0 .. Len(Splits) /\ ~ \E f : IsSum(f, w, n)
  OBVIOUS
<1>5. n # 0
  <2>1. IsSum([k \in 0 .. 0 |-> 0], w, 0)
    BY DEF IsSum
  <2> QED
    BY <1>4, <2>1
<1>6. PICK f : IsSum(f, w, n - 1)
  <2>1. n - 1 \in 0 .. Len(Splits) /\ ~ (n <= n - 1)
    BY <1>4, <1>5
  <2>2. n - 1 \notin bad
    BY <1>3, <2>1
  <2> QED
    BY <2>1, <2>2
<1> DEFINE g == [k \in 0 .. n |-> IF k = n THEN f[n - 1] + w[Splits[n]] ELSE f[k]]
<1>7. IsSum(g, w, n)
  <2>1. f \in [0 .. n - 1 -> Nat] /\ f[0] = 0 /\ \A k \in 1 .. n - 1 : f[k] = f[k - 1] + w[Splits[k]]
    BY <1>6 DEF IsSum
  <2>2. n \in Nat /\ n - 1 \in Nat /\ n - 1 \in 0 .. n - 1 /\ w[Splits[n]] \in Nat
    BY <1>2, <1>4, <1>5
  <2>3. g \in [0 .. n -> Nat] /\ g[0] = 0
    BY <2>1, <2>2
  <2>4. ASSUME NEW k \in 1 .. n PROVE g[k] = g[k - 1] + w[Splits[k]]
    BY <2>1, <2>2
  <2> HIDE DEF g
  <2> QED
    BY <2>3, <2>4 DEF IsSum
<1> QED
  BY <1>4, <1>7

\* The first loop of PickSplit adds up the weights.
LEMMA SumIs ==
    ASSUME weight \in [Range(Splits) -> Nat]
    PROVE  IsSum(WeightUpTo, weight, Len(Splits))
<1> DEFINE F(f) == [k \in 0 .. Len(Splits) |-> IF k = 0 THEN 0 ELSE f[k - 1] + weight[Splits[k]]]
<1>1. PICK f : IsSum(f, weight, Len(Splits))
  BY SumExists
<1>2. Len(Splits) \in Nat
  BY RouteAssumption
<1>3. f = F(f)
  BY <1>1, <1>2 DEF IsSum
<1>4. WeightUpTo = CHOOSE g : g = F(g)
  BY DEF WeightUpTo
<1>5. WeightUpTo = F(WeightUpTo)
  <2> HIDE DEF F
  <2> QED
    BY <1>3, <1>4
<1> DEFINE bad == {k \in 0 .. Len(Splits) : WeightUpTo[k] # f[k]}
<1>6. bad = {}
  <2> SUFFICES ASSUME bad # {} PROVE FALSE
    OBVIOUS
  <2>1. PICK n \in bad : \A m \in bad : n <= m
    <3>1. bad \in SUBSET Int /\ bad \in SUBSET (0 .. Len(Splits))
      OBVIOUS
    <3>2. IsFiniteSet(0 .. Len(Splits))
      BY <1>2, FS_Interval
    <3> HIDE DEF bad
    <3>3. IsFiniteSet(bad)
      BY <3>1, <3>2, FS_Subset, ZenonT(30)
    <3> QED
      BY <3>1, <3>3, HasLeast, ZenonT(30)
  <2>2. n \in 0 .. Len(Splits) /\ WeightUpTo[n] # f[n]
    OBVIOUS
  <2>3. \A k \in 0 .. Len(Splits) : WeightUpTo[k] = IF k = 0 THEN 0 ELSE WeightUpTo[k - 1] + weight[Splits[k]]
    BY <1>5, ZenonT(30)
  <2>4. \A k \in 0 .. Len(Splits) : f[k] = IF k = 0 THEN 0 ELSE f[k - 1] + weight[Splits[k]]
    BY <1>3, ZenonT(30)
  <2>5. n # 0
    BY <2>2, <2>3, <2>4
  <2>6. n - 1 \in 0 .. Len(Splits) /\ ~ (n <= n - 1)
    BY <2>2, <2>5
  <2>7. WeightUpTo[n - 1] = f[n - 1]
    BY <2>1, <2>6
  <2> QED
    BY <2>2, <2>3, <2>4, <2>5, <2>7
<1>7. WeightUpTo = [k \in 0 .. Len(Splits) |-> WeightUpTo[k]]
  BY <1>5, ZenonT(30)
<1>8. f = [k \in 0 .. Len(Splits) |-> f[k]]
  BY <1>3, ZenonT(30)
<1>9. WeightUpTo = f
  <2>1. \A k \in 0 .. Len(Splits) : WeightUpTo[k] = f[k]
    BY <1>6, ZenonT(30)
  <2> QED
    BY <1>7, <1>8, <2>1, ZenonT(30)
<1> QED
  BY <1>1, <1>9, ZenonT(30)

-----------------------------------------------------------------------------
(* The requests. *)

\* The values the fields are given.
LEMMA FieldValues ==
    /\ \A p \in Picking : p \in Picking \cup {"idle", "sent"}
    /\ "idle" \in Picking \cup {"idle", "sent"} /\ "sent" \in Picking \cup {"idle", "sent"}
    /\ "split" \in Picking /\ "pool" \in Picking /\ "ring" \in Picking /\ "match" \in Picking
    /\ << >> \in Texts \cup {<< >>} /\ << >> \in Seq(Instances) /\ {} \in SUBSET Instances
    /\ (\A text \in Texts : text \in Texts \cup {<< >>})
    /\ NoInstance \in Instances \cup {NoInstance} /\ (\A b \in Instances : b \in Instances \cup {NoInstance})
    /\ Whole \in Pools /\ TRUE \in BOOLEAN /\ FALSE \in BOOLEAN
    /\ 0 \in Int /\ 0 \in Nat /\ 1 \in Nat
<1>1. << >> \in Seq(Instances)
  BY EmptyText, ZenonT(30)
<1>2. 0 \in Int /\ 0 \in Nat /\ 1 \in Nat
  OBVIOUS
<1>3. Whole \in Pools
  BY RouteFacts, ZenonT(30)
<1> QED
  BY <1>1, <1>2, <1>3, ZenonT(30) DEF Picking

Good(q, reg, w) == q \in Reqs /\ Tracked(q, reg) /\ Scanning(q, w)

Moves(r) == \E v : Good(v, Registered, WeightUpTo) /\ req' = [req EXCEPT ![r] = v]

\* The values of a request that is not under way satisfy the invariant.
LEMMA IdleIsGood ==
    ASSUME NEW reg, NEW w
    PROVE  Good(Idle, reg, w)
<1>1. Idle \in Reqs
  BY FieldValues, ZenonT(30) DEF Reqs, Idle, NoInstance
<1>2. Idle.pc = "idle" /\ Idle.gone = FALSE
  BY DEF Idle
<1> HIDE DEF Idle
<1> QED
  BY <1>1, <1>2 DEF Good, Tracked, Scanning, Picking

\* A request that begins has seen what is registered.
LEMMA BegunIsGood ==
    ASSUME NEW text \in Texts, NEW reg \in SUBSET Instances, NEW w, NEW q,
           q = [Idle EXCEPT !.text = text, !.live = reg]
    PROVE  /\ Good([q EXCEPT !.pc = "pool"], reg, w)
           /\ \A x \in Nat : x + w[0] < w[Len(Splits)] =>
                Good([q EXCEPT !.pc = "split", !.x = x, !.k = 1], reg, w)
<1>1. Len(Splits) \in Nat /\ 1 \in 1 .. Len(Splits)
  <2>1. Splits \in Seq(Range(Splits)) /\ Splits # << >>
    BY RouteAssumption
  <2> QED
    BY <2>1
<1>2. q \in Reqs /\ q.text = text /\ q.live = reg /\ q.gone = FALSE
  <2>1. Idle \in Reqs /\ Idle.gone = FALSE
    BY IdleIsGood, ZenonT(30) DEF Good, Idle
  <2> HIDE DEF Idle
  <2>2. q \in Reqs
    BY <2>1, FieldValues, ZenonT(30) DEF Reqs
  <2> QED
    BY <2>1, <2>2 DEF Reqs
<1>3. Good([q EXCEPT !.pc = "pool"], reg, w)
  <2> DEFINE v == [q EXCEPT !.pc = "pool"]
  <2>1. v.pc = "pool" /\ v.text = text /\ v.live = reg /\ v.gone = FALSE
    BY <1>2 DEF Reqs
  <2>2. v \in Reqs
    BY <1>2, FieldValues, ZenonT(30) DEF Reqs
  <2> HIDE DEF v
  <2>3. Tracked(v, reg) /\ Scanning(v, w)
    BY <2>1 DEF Tracked, Scanning, Picking
  <2> QED
    BY <2>1, <2>3, <2>2 DEF Good, v
<1>4. ASSUME NEW x \in Nat, x + w[0] < w[Len(Splits)]
      PROVE  Good([q EXCEPT !.pc = "split", !.x = x, !.k = 1], reg, w)
  <2> DEFINE v == [q EXCEPT !.pc = "split", !.x = x, !.k = 1]
  <2>1. /\ v.pc = "split" /\ v.text = text /\ v.live = reg /\ v.gone = FALSE
        /\ v.x = x /\ v.k = 1
    BY <1>2 DEF Reqs
  <2>2. v \in Reqs
    <3>1. x \in Int
      OBVIOUS
    <3> QED
      BY <1>2, <3>1, FieldValues, ZenonT(30) DEF Reqs
  <2> HIDE DEF v
  <2>3. Tracked(v, reg)
    BY <2>1 DEF Tracked, Picking
  <2>4. v.k - 1 = 0 /\ x >= 0
    BY <2>1
  <2>5. Scanning(v, w)
    BY <1>1, <1>4, <2>1, <2>4 DEF Scanning
  <2> QED
    BY <2>3, <2>5, <2>2 DEF Good, v
<1> QED
  BY <1>3, <1>4, ZenonT(30)

\* A request that is sent to an instance it has seen.
LEMMA SentIsGood ==
    ASSUME RequestInv, NEW r \in Requests, req[r].text \in Texts,
           NEW b \in Instances, b \in req[r].live, Send(r, b)
    PROVE  Moves(r)
<1> DEFINE v == [Idle EXCEPT !.pc = "sent", !.text = req[r].text, !.b = b, !.gone = b \notin req[r].live]
<1>1. v \in Reqs
  <2>1. Idle \in Reqs
    BY IdleIsGood DEF Good
  <2>2. (b \notin req[r].live) \in BOOLEAN
    BY ZenonT(30)
  <2> HIDE DEF Idle
  <2> QED
    BY <2>1, <2>2, FieldValues, ZenonT(30) DEF Reqs
<1>2. v.pc = "sent" /\ v.text \in Texts /\ v.b = b /\ v.gone = FALSE
  BY ZenonT(30) DEF Idle
<1>3. req' = [req EXCEPT ![r] = v]
  BY ZenonT(30) DEF Send, Becomes
<1> HIDE DEF v
<1>4. Tracked(v, Registered) /\ Scanning(v, WeightUpTo)
  BY <1>2 DEF Tracked, Scanning, Picking
<1> QED
  BY <1>1, <1>3, <1>4, ZenonT(30) DEF Good, Moves

\* A request that ends becomes one that is not under way.
LEMMA IdleMoves ==
    ASSUME NEW r \in Requests, Becomes(r, Idle)
    PROVE  Moves(r)
<1>1. req' = [req EXCEPT ![r] = Idle]
  BY ZenonT(30) DEF Becomes
<1> QED
  BY <1>1, IdleIsGood, ZenonT(30) DEF Moves

\* PickSplit draws x below the sum of the weights.
LEMMA PickSplitMoves ==
    ASSUME RequestInv, NEW r \in Requests, PickSplit(r)
    PROVE  Moves(r)
<1>1. PICK text \in Texts :
        LET q == [Idle EXCEPT !.text = text, !.live = Registered]
        IN  IF TotalWeight > 0
            THEN \E x \in 0 .. TotalWeight - 1 : Becomes(r, [q EXCEPT !.pc = "split", !.x = x, !.k = 1])
            ELSE Becomes(r, [q EXCEPT !.pc = "pool"])
  BY ZenonT(30) DEF PickSplit
<1> DEFINE q == [Idle EXCEPT !.text = text, !.live = Registered]
           W == WeightUpTo
<1>2. Registered \in SUBSET Instances
  BY DEF Registered
<1>3. /\ Good([q EXCEPT !.pc = "pool"], Registered, W)
      /\ \A x \in Nat : x + W[0] < W[Len(Splits)] =>
           Good([q EXCEPT !.pc = "split", !.x = x, !.k = 1], Registered, W)
  <2> HIDE DEF W
  <2> QED
    BY <1>2, BegunIsGood, ZenonT(30)
<1>4. W[0] = 0 /\ W[Len(Splits)] = TotalWeight /\ TotalWeight \in Nat
  <2>1. IsSum(W, weight, Len(Splits)) /\ Len(Splits) \in Nat
    BY SumIs, RouteAssumption DEF RequestInv
  <2>2. W[Len(Splits)] = TotalWeight
    BY DEF TotalWeight
  <2> HIDE DEF W
  <2> QED
    BY <2>1, <2>2 DEF IsSum
<1> HIDE DEF q
<1>5. CASE TotalWeight > 0
  <2>1. PICK x \in 0 .. TotalWeight - 1 : Becomes(r, [q EXCEPT !.pc = "split", !.x = x, !.k = 1])
    BY <1>1, <1>5, ZenonT(30) DEF q
  <2> HIDE DEF W
  <2>2. x \in Nat /\ x + W[0] < W[Len(Splits)]
    BY <1>4
  <2>3. Good([q EXCEPT !.pc = "split", !.x = x, !.k = 1], Registered, W)
    BY <1>3, <2>2, ZenonT(30)
  <2> QED
    BY <2>1, <2>3, ZenonT(30) DEF Moves, Becomes, W
<1>6. CASE ~ (TotalWeight > 0)
  <2>1. Becomes(r, [q EXCEPT !.pc = "pool"])
    BY <1>1, <1>6, ZenonT(30) DEF q
  <2> QED
    BY <1>3, <2>1, ZenonT(30) DEF Moves, Becomes
<1> QED
  BY <1>5, <1>6

\* The weights that are left for the rest of the loop, and what a turn leaves of x.
LEMMA ScanSplitMoves ==
    ASSUME RequestInv, NEW r \in Requests, ScanSplit(r)
    PROVE  Moves(r)
<1> DEFINE q == req[r]
           s == Splits[q.k]
           x == q.x - weight[s]
           W == WeightUpTo
           v == [q EXCEPT !.pc = "pool", !.from = s, !.x = 0, !.k = 0, !.moved = FALSE]
           u == [q EXCEPT !.x = x, !.k = q.k + 1]
<1>1. /\ q.pc = "split"
      /\ IF Reached(x, s) \/ q.k = Len(Splits) THEN req' = [req EXCEPT ![r] = v]
                                               ELSE req' = [req EXCEPT ![r] = u]
  BY ZenonT(30) DEF ScanSplit, Becomes
<1>2. q \in Reqs /\ Tracked(q, Registered) /\ Scanning(q, W)
  BY DEF RequestInv
<1>3. Splits \in Seq(Range(Splits)) /\ Len(Splits) \in Nat /\ weight \in [Range(Splits) -> Nat]
  BY RouteAssumption DEF RequestInv
<1>4. IsSum(W, weight, Len(Splits))
  BY <1>3, SumIs
<1> HIDE DEF q, W
<1>5. q.k \in 1 .. Len(Splits) /\ q.k \in Nat /\ q.x \in Int
  BY <1>1, <1>2 DEF Scanning, Reqs
<1>6. s \in Range(Splits) /\ s \in Pools /\ weight[s] \in Nat
  BY <1>3, <1>5, RouteFacts
<1>7. x \in Int /\ q.k + 1 \in Nat
  BY <1>5, <1>6
<1>8. CASE Reached(x, s) \/ q.k = Len(Splits)
  <2>1. v \in Reqs
    BY <1>2, <1>6, FieldValues, ZenonT(30) DEF Reqs
  <2>2. v.pc = "pool" /\ v.text = q.text /\ v.live = q.live /\ v.gone = q.gone
    BY <1>2 DEF Reqs
  <2> HIDE DEF v
  <2>3. Tracked(v, Registered) /\ Scanning(v, W)
    BY <1>1, <1>2, <2>2 DEF Tracked, Scanning, Picking
  <2> QED
    BY <1>1, <1>8, <2>1, <2>3, ZenonT(30) DEF Moves, Good, W, q
<1>9. CASE ~ (Reached(x, s) \/ q.k = Len(Splits))
  <2>1. u \in Reqs
    BY <1>2, <1>7, ZenonT(30) DEF Reqs
  <2>2. /\ u.pc = q.pc /\ u.text = q.text /\ u.live = q.live /\ u.gone = q.gone /\ u.moved = q.moved
        /\ u.x = x /\ u.k = q.k + 1
    BY <1>2 DEF Reqs
  <2>3. W[q.k] = W[q.k - 1] + weight[s] /\ W[q.k - 1] \in Nat /\ W[Len(Splits)] \in Nat
    <3>1. W \in [0 .. Len(Splits) -> Nat] /\ \A k \in 1 .. Len(Splits) : W[k] = W[k - 1] + weight[Splits[k]]
      BY <1>4, ZenonT(30) DEF IsSum
    <3>2. q.k - 1 \in 0 .. Len(Splits) /\ Len(Splits) \in 0 .. Len(Splits)
      BY <1>3, <1>5
    <3> QED
      BY <1>5, <3>1, <3>2
  <2>4. u.k - 1 = q.k /\ u.k \in 1 .. Len(Splits)
    BY <1>3, <1>5, <1>9, <2>2
  <2>5. ASSUME ~ q.moved PROVE x >= 0 /\ x + W[q.k] < W[Len(Splits)]
    <3>1. q.x >= 0 /\ q.x + W[q.k - 1] < W[Len(Splits)]
      BY <1>1, <1>2, <2>5 DEF Scanning
    <3>2. x > 0 \/ weight[s] = 0
      BY <1>6, <1>7, <1>9 DEF Reached
    <3> QED
      BY <1>5, <1>6, <2>3, <3>1, <3>2
  <2> HIDE DEF u, x, s
  <2>6. Tracked(u, Registered)
    BY <1>1, <1>2, <2>2 DEF Tracked, Picking
  <2>7. Scanning(u, W)
    BY <2>2, <2>4, <2>5 DEF Scanning
  <2> QED
    BY <1>1, <1>9, <2>1, <2>6, <2>7, ZenonT(30) DEF Moves, Good, W, q
<1> QED
  BY <1>8, <1>9

\* What the pools hold is registered, so the request has seen it.
LEMMA ReadPoolMoves ==
    ASSUME RequestInv, RegistryInv, NEW r \in Requests, ReadPool(r)
    PROVE  Moves(r)
<1> DEFINE q == req[r]
           ps == pool[q.from]
<1>1. /\ q.pc = "pool"
      /\ \E cand \in SUBSET Range(ps) :
           \/ /\ cand = {}
              /\ Becomes(r, IF q.from = Whole THEN Idle ELSE [q EXCEPT !.from = Whole])
           \/ /\ Cardinality(cand) = 1
              /\ \E b \in cand : Send(r, b)
           \/ /\ Cardinality(cand) > 1
              /\ \/ Becomes(r, [q EXCEPT !.pc = "ring", !.seen = ps, !.cand = cand])
                 \/ Becomes(r, [q EXCEPT !.pc = "match", !.seen = ps, !.cand = cand])
                 \/ \E b \in cand : Send(r, b)
  BY ZenonT(30) DEF ReadPool
<1>2. q \in Reqs /\ Tracked(q, Registered)
  BY DEF RequestInv
<1>3. q.text \in Texts /\ Registered \subseteq q.live /\ q.from \in Pools
  BY <1>1, <1>2 DEF Tracked, Picking, Reqs
<1>4. ps \in Seq(Instances) /\ Range(ps) \subseteq Registered
  BY <1>3 DEF RegistryInv, Agreed
<1>5. Registered \subseteq Instances
  BY DEF Registered
<1>6. PICK cand \in SUBSET Range(ps) :
           \/ /\ cand = {}
              /\ Becomes(r, IF q.from = Whole THEN Idle ELSE [q EXCEPT !.from = Whole])
           \/ /\ Cardinality(cand) = 1
              /\ \E b \in cand : Send(r, b)
           \/ /\ Cardinality(cand) > 1
              /\ \/ Becomes(r, [q EXCEPT !.pc = "ring", !.seen = ps, !.cand = cand])
                 \/ Becomes(r, [q EXCEPT !.pc = "match", !.seen = ps, !.cand = cand])
                 \/ \E b \in cand : Send(r, b)
  BY <1>1, ZenonT(30)
<1>7. ASSUME NEW b \in cand, Send(r, b) PROVE Moves(r)
  <2>1. b \in Instances /\ b \in req[r].live
    BY <1>3, <1>4, <1>5
  <2> QED
    BY <1>3, <1>7, <2>1, SentIsGood, ZenonT(30)
<1>8. ASSUME NEW pc \in {"ring", "match"}, Cardinality(cand) > 1,
             Becomes(r, [q EXCEPT !.pc = pc, !.seen = ps, !.cand = cand])
      PROVE  Moves(r)
  <2> DEFINE v == [q EXCEPT !.pc = pc, !.seen = ps, !.cand = cand]
  <2>1. cand # {}
    BY <1>8, FS_EmptySet
  <2>2. cand \in SUBSET Instances /\ pc \in Picking
    BY <1>4, <1>5 DEF Picking
  <2> HIDE DEF ps
  <2>3. v \in Reqs
    BY <1>2, <1>4, <2>2, FieldValues, ZenonT(30) DEF Reqs
  <2>4. v.pc = pc /\ v.text = q.text /\ v.live = q.live /\ v.gone = q.gone /\ v.seen = ps /\ v.cand = cand
    BY <1>2 DEF Reqs
  <2>5. req' = [req EXCEPT ![r] = v]
    BY <1>8, ZenonT(30) DEF Becomes
  <2> HIDE DEF v, q
  <2>6. Tracked(v, Registered) /\ Scanning(v, WeightUpTo)
    BY <1>2, <1>3, <1>4, <2>1, <2>2, <2>4 DEF Tracked, Scanning
  <2> QED
    BY <2>3, <2>5, <2>6, ZenonT(30) DEF Moves, Good
<1>9. ASSUME Becomes(r, [q EXCEPT !.from = Whole]) PROVE Moves(r)
  <2> DEFINE v == [q EXCEPT !.from = Whole]
  <2>1. v \in Reqs
    BY <1>2, FieldValues, ZenonT(30) DEF Reqs
  <2>2. v.pc = q.pc /\ v.text = q.text /\ v.live = q.live /\ v.gone = q.gone
    BY <1>2 DEF Reqs
  <2>3. req' = [req EXCEPT ![r] = v]
    BY <1>9, ZenonT(30) DEF Becomes
  <2> HIDE DEF v, q
  <2>4. Tracked(v, Registered) /\ Scanning(v, WeightUpTo)
    BY <1>1, <1>2, <1>3, <2>2 DEF Tracked, Scanning, Picking
  <2> QED
    BY <2>1, <2>3, <2>4, ZenonT(30) DEF Moves, Good
<1>10. CASE Becomes(r, Idle)
  BY <1>10, IdleMoves, ZenonT(30)
<1> HIDE DEF q, ps
<1>11. Becomes(r, IF q.from = Whole THEN Idle ELSE [q EXCEPT !.from = Whole]) => Moves(r)
  BY <1>9, <1>10, ZenonT(30)
<1> QED
  BY <1>6, <1>7, <1>8, <1>11, ZenonT(30)

\* A ring that is taken from the cache is one of the pool the request has seen, and the key
\* finds a candidate on it.
LEMMA PickHashStableMoves ==
    ASSUME RequestInv, NEW r \in Requests, PickHashStable(r)
    PROVE  Moves(r)
<1> DEFINE q     == req[r]
           sig   == Signature(q)
           fresh == sig \in DOMAIN rings /\ SameInstances(rings[sig], q.seen)
           ring  == IF fresh THEN rings[sig] ELSE q.seen
           order == RingOrder[q.text]
           hits  == {n \in DOMAIN order : order[n] \in IDsOf(ring) /\ \E b \in q.cand : b.id = order[n]}
           found == CHOOSE b \in Range(ring) : b.id = order[Min(hits)]
<1>1. q.pc = "ring" /\ Send(r, found)
  BY ZenonT(30) DEF PickHashStable
<1>2. q \in Reqs /\ Tracked(q, Registered)
  BY DEF RequestInv
<1>3. ring = q.seen
  BY ZenonT(30) DEF SameInstances
<1> HIDE DEF ring, q, found
<1>4. /\ q.text \in Texts /\ q.cand # {} /\ q.cand \subseteq Range(q.seen) /\ Range(q.seen) \subseteq q.live
      /\ q.seen \in Seq(Instances) /\ q.live \in SUBSET Instances
  BY <1>1, <1>2 DEF Tracked, Reqs
<1>5. order \in Seq(Ids) /\ Range(order) = Ids
  BY <1>4, RouteAssumption
<1> HIDE DEF order
<1>6. hits # {}
  <2>1. PICK c \in q.cand : c \in Range(q.seen)
    BY <1>4
  <2>2. c \in Instances /\ c.id \in Ids
    BY <1>4, <2>1 DEF Instances
  <2>3. PICK n \in DOMAIN order : order[n] = c.id
    BY <1>5, <2>2 DEF Range
  <2>4. c.id \in IDsOf(ring)
    BY <1>3, <2>1 DEF IDsOf
  <2> QED
    BY <2>1, <2>3, <2>4
<1>7. Min(hits) \in hits
  <2>1. DOMAIN order = 1 .. Len(order) /\ Len(order) \in Nat
    BY <1>5
  <2>2. hits \in SUBSET (DOMAIN order)
    BY ZenonT(30)
  <2>3. IsFiniteSet(DOMAIN order)
    BY <2>1, IntervalCount
  <2> HIDE DEF hits
  <2>4. hits \in SUBSET Int
    BY <2>1, <2>2
  <2>5. IsFiniteSet(hits)
    BY <2>2, <2>3, FS_Subset, ZenonT(30)
  <2> QED
    BY <1>6, <2>4, <2>5, MinIs, ZenonT(30)
<1>8. order[Min(hits)] \in IDsOf(ring)
  BY <1>7, ZenonT(30)
<1>9. found \in Range(ring)
  BY <1>8, ZenonT(30) DEF IDsOf, found
<1>10. found \in Instances /\ found \in q.live
  BY <1>3, <1>4, <1>9
<1> QED
  BY <1>1, <1>4, <1>10, SentIsGood, ZenonT(30) DEF q

\* pickCacheAware picks one of the candidates.
LEMMA PickCacheAwareMoves ==
    ASSUME RequestInv, NEW r \in Requests, PickCacheAware(r)
    PROVE  Moves(r)
<1> DEFINE q == req[r]
<1>1. q.pc = "match" /\ \E b \in q.cand : Send(r, b)
  BY ZenonT(30) DEF PickCacheAware
<1>2. q \in Reqs /\ Tracked(q, Registered)
  BY DEF RequestInv
<1>3. PICK b \in q.cand : Send(r, b)
  BY <1>1
<1> HIDE DEF q
<1>4. q.text \in Texts /\ q.cand \subseteq q.live /\ q.live \subseteq Instances
  BY <1>1, <1>2 DEF Tracked, Reqs
<1>5. b \in Instances /\ b \in q.live
  BY <1>4
<1> QED
  BY <1>3, <1>4, <1>5, SentIsGood, ZenonT(30) DEF q

-----------------------------------------------------------------------------
(* What the registry and the weights do to the requests. *)

\* No request has begun.
LEMMA RequestInit ==
    ASSUME Init
    PROVE  RequestInv
<1>1. weight \in [Range(Splits) -> Nat]
  BY RouteAssumption DEF Init
<1>2. req = [r \in Requests |-> Idle]
  BY DEF Init
<1>3. ASSUME NEW r \in Requests PROVE req[r] \in Reqs /\ Tracked(req[r], Registered) /\ Scanning(req[r], WeightUpTo)
  BY <1>2, IdleIsGood, ZenonT(30) DEF Good
<1>4. req \in [Requests -> Reqs]
  BY <1>2, <1>3, ZenonT(30)
<1> QED
  BY <1>1, <1>3, <1>4, ZenonT(30) DEF RequestInv

\* A step of one request.
LEMMA MovesKeep ==
    ASSUME RequestInv, NEW r \in Requests, Moves(r), UNCHANGED <<byID, weight>>
    PROVE  RequestInv'
<1>1. PICK v : Good(v, Registered, WeightUpTo) /\ req' = [req EXCEPT ![r] = v]
  BY ZenonT(30) DEF Moves
<1>2. Registered' = Registered /\ WeightUpTo' = WeightUpTo
  BY DEF Registered, WeightUpTo
<1>3. weight \in [Range(Splits) -> Nat] /\ req \in [Requests -> Reqs]
  BY DEF RequestInv
<1>4. ASSUME NEW z \in Requests PROVE Good(req'[z], Registered, WeightUpTo)
  <2>1. CASE z = r
    BY <1>1, <1>3, <2>1
  <2>2. CASE z # r
    BY <1>1, <1>3, <2>2 DEF RequestInv, Good
  <2> QED
    BY <2>1, <2>2
<1>5. req' \in [Requests -> Reqs]
  BY <1>1, <1>3, ZenonT(30) DEF Good
<1> QED
  BY <1>2, <1>3, <1>4, <1>5, ZenonT(30) DEF RequestInv, Good

\* Registering an instance shows it to every request that is picking.
LEMMA RegisteringKeeps ==
    ASSUME RequestInv, RegistryInv, NEW id \in Ids, Registering(id)
    PROVE  RequestInv'
<1> DEFINE b == [id |-> id, n |-> changes + 2]
           v(r) == [req[r] EXCEPT !.live = req[r].live \cup {b}]
<1>1. /\ changes < MaxChanges /\ byID' = [byID EXCEPT ![id] = b.n]
      /\ req' = [r \in Requests |-> IF req[r].pc \in {"idle", "sent"} THEN req[r] ELSE v(r)]
      /\ weight' = weight
  BY ZenonT(30) DEF Registering
<1>2. b \in Instances /\ b = [id |-> id, n |-> b.n] /\ b.id = id
  BY <1>1, RouteFacts DEF Instances, RegistryInv
<1> HIDE DEF b
<1>3. Registered' \subseteq Registered \cup {b}
  <2>1. \A c \in Instances : c.id \in Ids /\ c = [id |-> c.id, n |-> c.n]
    BY DEF Instances
  <2>2. \A i \in Ids : byID'[i] = IF i = id THEN b.n ELSE byID[i]
    BY <1>1 DEF RegistryInv
  <2> QED
    BY <1>2, <2>1, <2>2 DEF Registered
<1>4. WeightUpTo' = WeightUpTo
  BY <1>1 DEF WeightUpTo
<1>5. weight \in [Range(Splits) -> Nat] /\ req \in [Requests -> Reqs]
  BY DEF RequestInv
<1>6. ASSUME NEW r \in Requests PROVE Good(req'[r], Registered', WeightUpTo)
  <2> DEFINE q == req[r]
  <2>1. q \in Reqs /\ Tracked(q, Registered) /\ Scanning(q, WeightUpTo)
    BY DEF RequestInv
  <2>2. CASE q.pc \in {"idle", "sent"}
    <3>1. req'[r] = q
      BY <1>1, <2>2
    <3> HIDE DEF q
    <3>2. Tracked(q, Registered')
      BY <2>1, <2>2 DEF Tracked, Picking
    <3> QED
      BY <2>1, <3>1, <3>2, ZenonT(30) DEF Good
  <2>3. CASE q.pc \notin {"idle", "sent"}
    <3>1. req'[r] = v(r)
      BY <1>1, <2>3
    <3> DEFINE u == [q EXCEPT !.live = q.live \cup {b}]
    <3>2. u \in Reqs
      <4>1. q.live \cup {b} \in SUBSET Instances
        BY <1>2, <2>1 DEF Reqs
      <4> QED
        BY <2>1, <4>1, ZenonT(30) DEF Reqs
    <3>3. /\ u.pc = q.pc /\ u.text = q.text /\ u.live = q.live \cup {b} /\ u.gone = q.gone
          /\ u.seen = q.seen /\ u.cand = q.cand /\ u.b = q.b
          /\ u.x = q.x /\ u.k = q.k /\ u.moved = q.moved
      BY <2>1 DEF Reqs
    <3>4. req'[r] = u
      BY <3>1
    <3> HIDE DEF u, q
    <3>5. Tracked(u, Registered')
      BY <1>3, <2>1, <3>3 DEF Tracked, Picking
    <3>6. Scanning(u, WeightUpTo)
      BY <2>1, <3>3 DEF Scanning
    <3> QED
      BY <3>2, <3>4, <3>5, <3>6, ZenonT(30) DEF Good
  <2> QED
    BY <2>2, <2>3
<1>7. req' \in [Requests -> Reqs]
  <2>1. DOMAIN req' = Requests /\ req' = [r \in Requests |-> req'[r]]
    BY <1>1
  <2> QED
    BY <1>6, <2>1, ZenonT(30) DEF Good
<1> QED
  BY <1>1, <1>4, <1>5, <1>6, <1>7, ZenonT(30) DEF RequestInv, Good

\* Removing an instance leaves fewer that a request must have seen.
LEMMA RemovingKeeps ==
    ASSUME RequestInv, RegistryInv, NEW id \in Ids, RemoveBackend(id)
    PROVE  RequestInv'
<1>1. byID' = [byID EXCEPT ![id] = 0] /\ req' = req /\ weight' = weight
  BY DEF RemoveBackend
<1>2. Registered' \subseteq Registered
  <2>1. \A c \in Instances : c.id \in Ids /\ c.n \in Nat /\ c.n # 0
    BY RouteFacts DEF Instances
  <2>2. \A i \in Ids : byID'[i] = IF i = id THEN 0 ELSE byID[i]
    BY <1>1 DEF RegistryInv
  <2> QED
    BY <2>1, <2>2 DEF Registered
<1>3. WeightUpTo' = WeightUpTo
  BY <1>1 DEF WeightUpTo
<1>4. ASSUME NEW r \in Requests PROVE Tracked(req[r], Registered') /\ Scanning(req[r], WeightUpTo)
  <2>1. Tracked(req[r], Registered) /\ Scanning(req[r], WeightUpTo)
    BY DEF RequestInv
  <2> QED
    BY <1>2, <2>1 DEF Tracked
<1> QED
  BY <1>1, <1>3, <1>4, ZenonT(30) DEF RequestInv

\* A request that is scanning the weights when one changes has been warned.
LEMMA SetWeightKeeps ==
    ASSUME RequestInv, NEW s \in Range(Splits), NEW w \in Weights, SetWeight(s, w)
    PROVE  RequestInv'
<1> DEFINE v(r) == [req[r] EXCEPT !.moved = TRUE]
<1>1. /\ weight' = [weight EXCEPT ![s] = w] /\ byID' = byID
      /\ req' = [r \in Requests |-> IF req[r].pc = "split" THEN v(r) ELSE req[r]]
  BY ZenonT(30) DEF SetWeight
<1>2. weight \in [Range(Splits) -> Nat] /\ req \in [Requests -> Reqs] /\ w \in Nat
  BY RouteAssumption DEF RequestInv
<1>3. weight' \in [Range(Splits) -> Nat]
  BY <1>1, <1>2
<1>4. Registered' = Registered
  BY <1>1 DEF Registered
<1>5. ASSUME NEW r \in Requests PROVE Good(req'[r], Registered, WeightUpTo')
  <2> DEFINE q == req[r]
  <2>1. q \in Reqs /\ Tracked(q, Registered) /\ Scanning(q, WeightUpTo)
    BY DEF RequestInv
  <2>2. CASE q.pc # "split"
    <3>1. req'[r] = q
      BY <1>1, <2>2
    <3>2. Scanning(q, WeightUpTo')
      BY <2>2 DEF Scanning
    <3> QED
      BY <2>1, <3>1, <3>2, ZenonT(30) DEF Good
  <2>3. CASE q.pc = "split"
    <3> DEFINE u == [q EXCEPT !.moved = TRUE]
    <3>1. req'[r] = u
      BY <1>1, <2>3
    <3>2. u \in Reqs
      BY <2>1, FieldValues, ZenonT(30) DEF Reqs
    <3>3. /\ u.pc = q.pc /\ u.text = q.text /\ u.live = q.live /\ u.gone = q.gone
          /\ u.k = q.k /\ u.moved = TRUE
      BY <2>1 DEF Reqs
    <3> HIDE DEF u, q
    <3>4. Tracked(u, Registered)
      BY <2>1, <2>3, <3>3 DEF Tracked
    <3>5. Scanning(u, WeightUpTo')
      BY <2>1, <2>3, <3>3 DEF Scanning
    <3> QED
      BY <3>1, <3>2, <3>4, <3>5, ZenonT(30) DEF Good
  <2> QED
    BY <2>2, <2>3
<1>6. req' \in [Requests -> Reqs]
  <2>1. DOMAIN req' = Requests /\ req' = [r \in Requests |-> req'[r]]
    BY <1>1
  <2> QED
    BY <1>5, <2>1, ZenonT(30) DEF Good
<1> QED
  BY <1>3, <1>4, <1>5, <1>6, ZenonT(30) DEF RequestInv, Good

\* Every step keeps the requests' part of the invariant.
LEMMA RequestStep ==
    ASSUME RequestInv, RegistryInv, Next
    PROVE  RequestInv'
<1>1. ASSUME NEW id \in Ids, UpsertBackend(id) PROVE RequestInv'
  BY <1>1, RegisteringKeeps, ZenonT(30) DEF UpsertBackend
<1>2. ASSUME NEW id \in Ids, RemoveBackend(id) PROVE RequestInv'
  BY <1>2, RemovingKeeps, ZenonT(30)
<1>3. ASSUME NEW s \in Range(Splits), NEW w \in Weights, SetWeight(s, w) PROVE RequestInv'
  BY <1>3, SetWeightKeeps, ZenonT(30)
<1>4. ASSUME NEW r \in Requests,
             PickSplit(r) \/ ScanSplit(r) \/ ReadPool(r) \/ PickHashStable(r)
               \/ PickCacheAware(r) \/ Observe(r) \/ Fail(r)
      PROVE  RequestInv'
  <2>1. UNCHANGED <<byID, weight>>
    BY <1>4, RequestFrame
  <2>2. Observe(r) \/ Fail(r) => Becomes(r, Idle)
    BY ZenonT(30) DEF Observe, Fail
  <2>3. Moves(r)
    BY <1>4, <2>2, PickSplitMoves, ScanSplitMoves, ReadPoolMoves, PickHashStableMoves,
       PickCacheAwareMoves, IdleMoves, ZenonT(30)
  <2> QED
    BY <2>1, <2>3, MovesKeep, ZenonT(30)
<1>5. ASSUME Prune PROVE RequestInv'
  <2>1. req' = req /\ byID' = byID /\ weight' = weight
    BY <1>5 DEF Prune
  <2>2. Registered' = Registered /\ WeightUpTo' = WeightUpTo
    BY <2>1 DEF Registered, WeightUpTo
  <2> QED
    BY <2>1, <2>2, ZenonT(30) DEF RequestInv
<1> QED
  BY <1>1, <1>2, <1>3, <1>4, <1>5, ZenonT(30) DEF Next

\* The turn that ends the loop of PickSplit ends it at a subpool with weight: as long as no
\* weight changes, what is left of x lies below the weight of the last subpool at the latest.
LEMMA ScanEnds ==
    ASSUME RequestInv, NEW r \in Requests, ScanSplit(r), req'[r].pc = "pool"
    PROVE  weight[req'[r].from] > 0 \/ req[r].moved
<1> DEFINE q == req[r]
           s == Splits[q.k]
           x == q.x - weight[s]
           W == WeightUpTo
           v == [q EXCEPT !.pc = "pool", !.from = s, !.x = 0, !.k = 0, !.moved = FALSE]
           u == [q EXCEPT !.x = x, !.k = q.k + 1]
<1>1. /\ q.pc = "split"
      /\ IF Reached(x, s) \/ q.k = Len(Splits) THEN req' = [req EXCEPT ![r] = v]
                                               ELSE req' = [req EXCEPT ![r] = u]
  BY ZenonT(30) DEF ScanSplit, Becomes
<1>2. q \in Reqs /\ Scanning(q, W) /\ req \in [Requests -> Reqs]
  BY DEF RequestInv
<1>3. Splits \in Seq(Range(Splits)) /\ Len(Splits) \in Nat /\ weight \in [Range(Splits) -> Nat]
  BY RouteAssumption DEF RequestInv
<1>4. IsSum(W, weight, Len(Splits))
  BY <1>3, SumIs
<1>5. Reached(x, s) \/ q.k = Len(Splits)
  <2>1. u.pc = "split"
    BY <1>1, <1>2 DEF Reqs
  <2> HIDE DEF u, v, x, s
  <2> QED
    BY <1>1, <1>2, <2>1
<1>6. req'[r] = v
  BY <1>1, <1>2, <1>5, ZenonT(30)
<1>7. req'[r].from = s
  BY <1>2, <1>6 DEF Reqs
<1>8. q.k \in 1 .. Len(Splits) /\ q.x \in Int
  BY <1>1, <1>2 DEF Scanning, Reqs
<1>9. weight[s] \in Nat
  BY <1>3, <1>8
<1> HIDE DEF W, q
<1>10. CASE Reached(x, s)
  BY <1>7, <1>10 DEF Reached
<1>11. CASE q.k = Len(Splits) /\ ~ q.moved
  <2>1. q.x >= 0 /\ q.x + W[q.k - 1] < W[q.k]
    BY <1>1, <1>2, <1>11 DEF Scanning
  <2>2. W \in [0 .. Len(Splits) -> Nat] /\ \A k \in 1 .. Len(Splits) : W[k] = W[k - 1] + weight[Splits[k]]
    BY <1>4, ZenonT(30) DEF IsSum
  <2>3. q.k - 1 \in 0 .. Len(Splits)
    BY <1>3, <1>8
  <2>4. W[q.k] = W[q.k - 1] + weight[s] /\ W[q.k - 1] \in Nat
    BY <1>8, <2>2, <2>3
  <2>5. weight[s] > 0
    BY <1>8, <1>9, <2>1, <2>4
  <2> QED
    BY <1>7, <2>5
<1> QED
  BY <1>5, <1>10, <1>11 DEF q

NoPick(r) == req[r].pc = "split" /\ req'[r].pc = "pool" => weight[req'[r].from] > 0 \/ req[r].moved

\* A step that ends the loop of PickSplit ends it at a subpool with weight, or a weight has
\* changed.
LEMMA StepPicksWeight ==
    ASSUME RequestInv, RegistryInv, Next, NEW r \in Requests
    PROVE  NoPick(r)
<1>1. req \in [Requests -> Reqs] /\ req[r] \in Reqs
  BY DEF RequestInv
<1>2. ASSUME req'[r].pc = req[r].pc PROVE NoPick(r)
  BY <1>2, ZenonT(30) DEF NoPick
<1>3. ASSUME NEW id \in Ids, UpsertBackend(id) PROVE NoPick(r)
  <2> DEFINE b == [id |-> id, n |-> changes + 2]
             v == [req[r] EXCEPT !.live = req[r].live \cup {b}]
  <2>1. req'[r] = req[r] \/ req'[r] = v
    BY <1>3, ZenonT(30) DEF UpsertBackend, Registering
  <2>2. v.pc = req[r].pc
    BY <1>1 DEF Reqs
  <2> HIDE DEF v
  <2> QED
    BY <1>2, <2>1, <2>2, ZenonT(30)
<1>4. ASSUME NEW s \in Range(Splits), NEW w \in Weights, SetWeight(s, w) PROVE NoPick(r)
  <2> DEFINE v == [req[r] EXCEPT !.moved = TRUE]
  <2>1. req'[r] = req[r] \/ req'[r] = v
    BY <1>4, ZenonT(30) DEF SetWeight
  <2>2. v.pc = req[r].pc
    BY <1>1 DEF Reqs
  <2> HIDE DEF v
  <2> QED
    BY <1>2, <2>1, <2>2, ZenonT(30)
<1>5. ASSUME req' = req PROVE NoPick(r)
  BY <1>2, <1>5, ZenonT(30)
<1>6. ASSUME NEW z \in Requests,
             PickSplit(z) \/ ScanSplit(z) \/ ReadPool(z) \/ PickHashStable(z)
               \/ PickCacheAware(z) \/ Observe(z) \/ Fail(z)
      PROVE  NoPick(r)
  <2>1. CASE z # r
    <3>1. Observe(z) \/ Fail(z) => Becomes(z, Idle)
      BY ZenonT(30) DEF Observe, Fail
    <3>2. Moves(z)
      BY <1>1, <1>6, <3>1, PickSplitMoves, ScanSplitMoves, ReadPoolMoves, PickHashStableMoves,
         PickCacheAwareMoves, IdleMoves, ZenonT(30)
    <3>3. PICK v : req' = [req EXCEPT ![z] = v]
      BY <3>2, ZenonT(30) DEF Moves
    <3>4. req'[r] = req[r]
      BY <1>1, <2>1, <3>3
    <3> QED
      BY <1>2, <3>4, ZenonT(30)
  <2>2. CASE z = r
    <3>1. CASE ScanSplit(r)
      BY <1>1, <3>1, ScanEnds, ZenonT(30) DEF NoPick
    <3>2. CASE req[r].pc # "split"
      BY <3>2, ZenonT(30) DEF NoPick
    <3>3. PickSplit(r) => req[r].pc = "idle"
      BY ZenonT(30) DEF PickSplit
    <3>4. (ReadPool(r) => req[r].pc = "pool") /\ (PickHashStable(r) => req[r].pc = "ring")
      BY ZenonT(30) DEF ReadPool, PickHashStable
    <3>5. /\ PickCacheAware(r) => req[r].pc = "match"
          /\ Observe(r) \/ Fail(r) => req[r].pc = "sent"
      BY ZenonT(30) DEF PickCacheAware, Observe, Fail
    <3> QED
      BY <1>6, <2>2, <3>1, <3>2, <3>3, <3>4, <3>5
  <2> QED
    BY <2>1, <2>2
<1>7. ASSUME NEW id \in Ids, RemoveBackend(id) PROVE NoPick(r)
  BY <1>5, <1>7, ZenonT(30) DEF RemoveBackend
<1>8. ASSUME Prune PROVE NoPick(r)
  BY <1>5, <1>8, ZenonT(30) DEF Prune
<1> QED
  BY <1>3, <1>4, <1>6, <1>7, <1>8, ZenonT(30) DEF Next

-----------------------------------------------------------------------------
(* The tree and its marks in the steps of the system. *)

Chars == UNION {Range(text) : text \in Texts}

\* The tree records the marks that are younger than the floor.
TreeInv ==
    /\ Sound(tree, served, Chars) /\ ~ OverBudget(tree)
    /\ clock \in Nat /\ tree.floor <= clock
    /\ Dated(served, tree.floor, clock)

\* What MarksAreOfTheInstance says, and that every mark is of an instance.
MarkInv == \A h \in served : h.n # 0 /\ (h.n = byID[h.id] \/ h.late)

RouteInv == RegistryInv /\ RequestInv /\ TreeInv /\ MarkInv

\* Every prompt is a text over the bytes of the prompts.
LEMMA TextsAre ==
    ASSUME NEW text \in Texts
    PROVE  text \in Seq(Chars)
<1>1. text \in Seq(Range(text))
  BY RouteAssumption
<1>2. Range(text) \subseteq Chars
  BY DEF Chars
<1> QED
  BY <1>1, <1>2

\* The tree is empty at the start, and so is the history.
LEMMA TreeInit ==
    ASSUME Init
    PROVE  TreeInv /\ MarkInv
<1>1. tree = EmptyTree /\ served = {} /\ clock = 0
  BY DEF Init
<1>2. /\ tree.marks = [p \in {} |-> Nobody] /\ tree.nodes = 0 /\ tree.bytes = 0 /\ tree.floor = 0
      /\ tree = [marks |-> tree.marks, nodes |-> tree.nodes, bytes |-> tree.bytes, floor |-> tree.floor]
  BY <1>1 DEF EmptyTree
<1>3. Nodes(tree) = {}
  BY <1>2 DEF Nodes
<1>4. IsFiniteSet({}) /\ Cardinality({}) = 0
  BY FS_EmptySet
<1>5. IsTree(tree, Chars)
  <2>1. tree.marks \in [Nodes(tree) -> [Owners -> Nat]]
    BY <1>2, <1>3
  <2> QED
    BY <1>2, <1>3, <1>4, <2>1 DEF IsTree
<1>6. Closed(Nodes(tree)) /\ Marked(tree, served) /\ Used(Nodes(tree), served)
  BY <1>3 DEF Closed, Marked, Used
<1>7. Counted(tree)
  <2>1. Bytes({}, {}) = {}
    BY DEF Bytes
  <2> QED
    BY <1>2, <1>3, <1>4, <2>1, ZenonT(30) DEF Counted
<1>8. History(served, Nodes(tree), Chars)
  BY <1>1, <1>4 DEF History
<1>9. ~ OverBudget(tree)
  BY <1>2, TreeAssumption DEF OverBudget
<1> QED
  BY <1>1, <1>2, <1>5, <1>6, <1>7, <1>8, <1>9 DEF TreeInv, MarkInv, Sound, Dated

\* The hook of the assembly takes the marks of an ID out of the tree and out of the history.
LEMMA ForgetKeeps ==
    ASSUME TreeInv, NEW id \in Ids, Forget(id), clock' = clock
    PROVE  TreeInv'
<1>1. tree' = RemoveBackedBy(tree, id) /\ served' = {h \in served : h.id # id}
  BY DEF Forget
<1>2. /\ Sound(tree, served, Chars) /\ ~ OverBudget(tree) /\ clock \in Nat /\ tree.floor <= clock
      /\ \A h \in served : tree.floor < h.at /\ h.at <= clock
  BY DEF TreeInv, Dated
<1>3. id \in Owners
  BY DEF Ids
<1>4. Sound(tree', served', Chars) /\ tree'.floor = tree.floor /\ Lighter(tree', tree)
  BY <1>1, <1>2, <1>3, RemoveKeeps, ZenonT(30)
<1>5. ~ OverBudget(tree')
  BY <1>2, <1>4, LighterWithin, ZenonT(30)
<1>6. \A h \in served' : h \in served
  BY <1>1
<1> QED
  BY <1>2, <1>4, <1>5, <1>6, ZenonT(30) DEF TreeInv, OverBudget, Dated

\* RunPruner takes the same marks out of the tree and out of the history.
LEMMA PruneKeepsInv ==
    ASSUME TreeInv, Prune
    PROVE  TreeInv'
<1>1. PICK deadline \in 1 .. clock :
        /\ deadline > tree.floor + 1
        /\ tree' = PruneNode(tree, deadline)
        /\ served' = {h \in served : h.at >= deadline}
        /\ clock' = clock
  BY DEF Prune
<1>2. /\ Sound(tree, served, Chars) /\ ~ OverBudget(tree) /\ clock \in Nat /\ tree.floor <= clock
      /\ \A h \in served : tree.floor < h.at /\ h.at <= clock
  BY DEF TreeInv, Dated
<1>3. tree.floor \in Nat /\ \A h \in served : h.at \in Nat
  BY <1>2 DEF Sound, IsTree, History
<1>4. deadline \in Nat \ {0} /\ deadline <= clock
  BY <1>2
<1>5. /\ Sound(tree', served', Chars) /\ Lighter(tree', tree)
      /\ tree'.floor >= deadline - 1 /\ tree'.floor \in {tree.floor, deadline - 1}
  BY <1>1, <1>2, <1>4, PruneKeeps, ZenonT(30)
<1>6. ~ OverBudget(tree')
  BY <1>2, <1>5, LighterWithin, ZenonT(30)
<1>7. tree'.floor = deadline - 1 /\ tree'.floor <= clock
  BY <1>1, <1>2, <1>3, <1>4, <1>5
<1>8. \A h \in served' : tree'.floor < h.at /\ h.at <= clock
  BY <1>1, <1>2, <1>3, <1>4, <1>7
<1> QED
  BY <1>1, <1>2, <1>5, <1>6, <1>7, <1>8, ZenonT(30) DEF TreeInv, OverBudget, Dated

\* Observe records the answer in the tree and in the history.
LEMMA ObserveKeeps ==
    ASSUME TreeInv, RequestInv, NEW r \in Requests, Observe(r)
    PROVE  TreeInv'
<1> DEFINE q == req[r]
           now == clock + 1
           next == Insert(tree, q.text, q.b.id, now)
           mark == [id |-> q.b.id, n |-> q.b.n, text |-> Clip(q.text), at |-> now,
                    late |-> q.b.n # byID[q.b.id]]
           kept == {h \in served \cup {mark} : h.at > next.floor}
<1>1. /\ q.pc = "sent" /\ clock' = now /\ tree' = next
      /\ served' = kept
  BY ZenonT(30) DEF Observe
<1>2. /\ Sound(tree, served, Chars) /\ ~ OverBudget(tree) /\ clock \in Nat /\ tree.floor <= clock
      /\ \A h \in served : tree.floor < h.at /\ h.at <= clock
  BY DEF TreeInv, Dated
<1>3. tree.floor \in Nat /\ \A h \in served : h.at \in Nat
  BY <1>2 DEF Sound, IsTree, History
<1>4. q.text \in Seq(Chars) /\ q.b.id \in Owners
  <2>1. q \in Reqs /\ Tracked(q, Registered)
    BY DEF RequestInv
  <2>2. q.text \in Texts /\ q.b \in Instances
    BY <1>1, <2>1, ZenonT(30) DEF Tracked
  <2> QED
    BY <2>2, TextsAre DEF Instances, Ids
<1>5. mark.id = q.b.id /\ mark.text = Clip(q.text) /\ mark.at = now
  BY ZenonT(30)
<1>6. now \in Nat \ {0} /\ tree.floor < now /\ Dated(served, tree.floor, now)
  BY <1>2, <1>3 DEF Dated
<1>7. Inserts(tree, served, q.text, mark, next, kept)
  BY <1>5, ZenonT(30) DEF Inserts
<1> HIDE DEF q, mark, now, next, kept
<1>8. Sound(next, kept, Chars) /\ ~ OverBudget(next) /\ next.floor <= now
  <2>1. /\ mark.id \in Owners /\ mark.at \in Nat \ {0} /\ tree.floor < mark.at
        /\ Dated(served, tree.floor, mark.at)
    BY <1>4, <1>5, <1>6, ZenonT(30)
  <2> QED
    BY <1>2, <1>4, <1>5, <1>7, <2>1, InsertKeeps, ZenonT(30)
<1>9. \A h \in served' : next.floor < h.at /\ h.at <= now
  <2>1. next.floor \in Nat
    BY <1>8 DEF Sound, IsTree
  <2>2. now \in Nat /\ mark.at <= now
    BY <1>5, <1>6
  <2> QED
    BY <1>1, <1>3, <1>5, <1>6, <2>1, <2>2 DEF Dated, kept
<1>10. now \in Nat
  BY <1>6
<1> QED
  BY <1>1, <1>8, <1>9, <1>10, ZenonT(30) DEF TreeInv, OverBudget, Dated

\* Every step keeps the tree in agreement with the history.
LEMMA TreeStep ==
    ASSUME TreeInv, RequestInv, Next
    PROVE  TreeInv'
<1>1. ASSUME UNCHANGED <<tree, served, clock>> PROVE TreeInv'
  BY <1>1, ZenonT(30) DEF TreeInv, OverBudget, Dated
<1>2. ASSUME NEW id \in Ids, UpsertBackend(id) PROVE TreeInv'
  <2>1. clock' = clock /\ (Forget(id) \/ UNCHANGED <<tree, served>>)
    BY <1>2, ZenonT(30) DEF UpsertBackend, Registering
  <2> QED
    BY <1>1, <2>1, ForgetKeeps, ZenonT(30)
<1>3. ASSUME NEW id \in Ids, RemoveBackend(id) PROVE TreeInv'
  <2>1. clock' = clock /\ Forget(id)
    BY <1>3, ZenonT(30) DEF RemoveBackend
  <2> QED
    BY <2>1, ForgetKeeps, ZenonT(30)
<1>4. ASSUME NEW s \in Range(Splits), NEW w \in Weights, SetWeight(s, w) PROVE TreeInv'
  BY <1>1, <1>4, ZenonT(30) DEF SetWeight
<1>5. ASSUME NEW r \in Requests, PickSplit(r) \/ ScanSplit(r) \/ ReadPool(r) PROVE TreeInv'
  BY <1>1, <1>5, ZenonT(30) DEF PickSplit, ScanSplit, ReadPool
<1>6. ASSUME NEW r \in Requests, PickHashStable(r) \/ PickCacheAware(r) \/ Fail(r) PROVE TreeInv'
  BY <1>1, <1>6, ZenonT(30) DEF PickHashStable, PickCacheAware, Fail
<1>7. ASSUME NEW r \in Requests, Observe(r) PROVE TreeInv'
  BY <1>7, ObserveKeeps, ZenonT(30)
<1>8. ASSUME Prune PROVE TreeInv'
  BY <1>8, PruneKeepsInv, ZenonT(30)
<1> QED
  BY <1>2, <1>3, <1>4, <1>5, <1>6, <1>7, <1>8, ZenonT(30) DEF Next

\* A mark of an instance that goes is cleared with it, one that is set later is late.
LEMMA MarkStep ==
    ASSUME MarkInv, RegistryInv, RequestInv, TreeInv, Next
    PROVE  MarkInv'
<1>1. byID \in [Ids -> 0 .. MaxChanges + 1] /\ \A h \in served : h.id \in Ids
  BY ZenonT(30) DEF RegistryInv, TreeInv, Sound, History, Ids
<1>2. ASSUME NEW id \in Ids, NEW n, byID' = [byID EXCEPT ![id] = n],
             served' = {h \in served : h.id # id}
      PROVE  MarkInv'
  BY <1>1, <1>2 DEF MarkInv
<1>3. ASSUME NEW id \in Ids, UpsertBackend(id) PROVE MarkInv'
  <2> DEFINE b == [id |-> id, n |-> changes + 2]
  <2>1. byID' = [byID EXCEPT ![id] = b.n]
    BY <1>3, ZenonT(30) DEF UpsertBackend, Registering
  <2>2. IF byID[id] > 0 THEN served' = {h \in served : h.id # id} ELSE served' = served
    BY <1>3, ZenonT(30) DEF UpsertBackend, Forget
  <2>3. CASE byID[id] > 0
    <3>1. served' = {h \in served : h.id # id}
      BY <2>2, <2>3, ZenonT(30)
    <3> HIDE DEF b
    <3> QED
      BY <1>2, <2>1, <3>1, ZenonT(30)
  <2>4. CASE ~ (byID[id] > 0)
    <3>1. byID[id] = 0 /\ served' = served
      BY <1>1, <2>2, <2>4, RouteFacts
    <3>2. ASSUME NEW h \in served PROVE h.n # 0 /\ (h.n = byID'[h.id] \/ h.late)
      <4>1. h.n # 0 /\ (h.n = byID[h.id] \/ h.late) /\ h.id \in Ids
        BY <1>1 DEF MarkInv
      <4> HIDE DEF b
      <4> QED
        BY <1>1, <2>1, <3>1, <4>1
    <3> QED
      BY <3>1, <3>2, ZenonT(30) DEF MarkInv
  <2> QED
    BY <2>3, <2>4
<1>4. ASSUME NEW id \in Ids, RemoveBackend(id) PROVE MarkInv'
  <2>1. byID' = [byID EXCEPT ![id] = 0] /\ served' = {h \in served : h.id # id}
    BY <1>4, ZenonT(30) DEF RemoveBackend, Forget
  <2> QED
    BY <1>2, <2>1, ZenonT(30)
<1>5. ASSUME UNCHANGED <<byID, served>> PROVE MarkInv'
  BY <1>5, ZenonT(30) DEF MarkInv
<1>6. ASSUME NEW s \in Range(Splits), NEW w \in Weights, SetWeight(s, w) PROVE MarkInv'
  BY <1>5, <1>6, ZenonT(30) DEF SetWeight
<1>7. ASSUME NEW r \in Requests, PickSplit(r) \/ ScanSplit(r) \/ ReadPool(r) \/ PickHashStable(r)
                                   \/ PickCacheAware(r) \/ Fail(r)
      PROVE  MarkInv'
  <2>1. byID' = byID
    BY <1>7, RequestFrame
  <2>2. served' = served
    BY <1>7, ZenonT(30) DEF PickSplit, ScanSplit, ReadPool, PickHashStable, PickCacheAware, Fail
  <2> QED
    BY <1>5, <2>1, <2>2, ZenonT(30)
<1>8. ASSUME NEW r \in Requests, Observe(r) PROVE MarkInv'
  <2> DEFINE q == req[r]
             mark == [id |-> q.b.id, n |-> q.b.n, text |-> Clip(q.text), at |-> clock + 1,
                      late |-> q.b.n # byID[q.b.id]]
  <2>1. q.pc = "sent" /\ \A h \in served' : h \in served \/ h = mark
    BY <1>8, ZenonT(30) DEF Observe
  <2>2. byID' = byID
    BY <1>8, RequestFrame
  <2>3. q.b.n # 0
    <3>1. q.b \in Instances
      BY <2>1, ZenonT(30) DEF RequestInv, Tracked
    <3> QED
      BY <3>1, RouteFacts DEF Instances
  <2>4. mark.n # 0 /\ (mark.n = byID[mark.id] \/ mark.late)
    BY <2>3, ZenonT(30)
  <2> HIDE DEF mark
  <2> QED
    BY <2>1, <2>2, <2>4 DEF MarkInv
<1>9. ASSUME Prune PROVE MarkInv'
  BY <1>9 DEF Prune, MarkInv
<1> QED
  BY <1>3, <1>4, <1>6, <1>7, <1>8, <1>9, ZenonT(30) DEF Next

-----------------------------------------------------------------------------
(* The theorems. *)

\* The inductive invariant: the registry's pools agree, every request in withBackend's pools
\* has seen what is registered, the loop of PickSplit stays below the weights that are left,
\* and the prefix tree records exactly the marks of the history.
THEOREM RouteInvariance == Spec => []RouteInv
<1>1. Init => RouteInv
  BY RegistryInit, RequestInit, TreeInit, ZenonT(30) DEF RouteInv
<1>2. RouteInv /\ [Next]_vars => RouteInv'
  <2> SUFFICES ASSUME RouteInv, [Next]_vars PROVE RouteInv'
    OBVIOUS
  <2>1. CASE Next
    BY <2>1, RegistryStep, RequestStep, TreeStep, MarkStep, ZenonT(30) DEF RouteInv
  <2>2. CASE UNCHANGED vars
    <3>1. /\ byID' = byID /\ pool' = pool /\ weight' = weight /\ tree' = tree /\ req' = req
          /\ clock' = clock /\ changes' = changes /\ served' = served
      BY <2>2 DEF vars
    <3>2. Registered' = Registered /\ WeightUpTo' = WeightUpTo
      BY <3>1 DEF Registered, WeightUpTo
    <3>3. RegistryInv'
      BY <3>1, <3>2, ZenonT(30) DEF RouteInv, RegistryInv
    <3>4. RequestInv'
      BY <3>1, <3>2, ZenonT(30) DEF RouteInv, RequestInv
    <3>5. TreeInv' /\ MarkInv'
      BY <3>1, ZenonT(30) DEF RouteInv, TreeInv, MarkInv, OverBudget, Dated
    <3> QED
      BY <3>3, <3>4, <3>5, ZenonT(30) DEF RouteInv
  <2> QED
    BY <2>1, <2>2
<1> QED
  BY <1>1, <1>2, PTL DEF Spec

\* Registry: UpsertBackend and RemoveBackend keep the whole pool the union of the subpools,
\* without duplicates, and no pool holds an instance that is not registered.
THEOREM PoolsAlwaysAgree == Spec => []PoolsAgree
<1>1. RouteInv => PoolsAgree
  BY ZenonT(30) DEF RouteInv, RegistryInv, Agreed, PoolsAgree
<1> QED
  BY <1>1, RouteInvariance, PTL

\* PickHashStable and pickCacheAware: however the pools change while a request is on its way
\* through the router, it is not forwarded to an instance that was gone before it began.
THEOREM NoGoneInstance == Spec => []NeverAGoneInstance
<1>1. RouteInv => NeverAGoneInstance
  BY ZenonT(30) DEF RouteInv, RequestInv, Tracked, NeverAGoneInstance
<1> QED
  BY <1>1, RouteInvariance, PTL

\* kvcache.Index: after every Insert, Prune and removal of a backend the counters of nodes
\* and bytes are exact, no node is left without a mark below it, and the limits are kept.
THEOREM TreeIsCounted == Spec => []TreeCounted
<1>1. ASSUME RouteInv PROVE TreeCounted
  <2>1. Sound(tree, served, Chars) /\ ~ OverBudget(tree)
    BY <1>1 DEF RouteInv, TreeInv
  <2> DEFINE N == Nodes(tree)
  <2>2. /\ tree.nodes = Cardinality(N) /\ tree.bytes = Cardinality(Bytes(N, N))
        /\ N \in SUBSET Seq(Chars) /\ tree.marks \in [N -> [Owners -> Nat]]
    BY <2>1 DEF Sound, Counted, IsTree
  <2>3. EdgeBytes(tree, N) = Bytes(N, N)
    BY ZenonT(30) DEF EdgeBytes, Bytes, EdgeStart, EdgeFrom, Parents
  <2>4. ASSUME NEW p \in N PROVE IsPrefix(p, p) /\ tree.marks[p] # Nobody
    <3>1. PICK h \in served : IsPrefix(p, h.text)
      BY <2>1 DEF Sound, Used
    <3>2. h.id \in Owners /\ h.at \in Nat \ {0}
      BY <2>1 DEF Sound, History
    <3>3. Latest(tree.marks[p][h.id], p, h.id, served) /\ tree.marks[p][h.id] \in Nat
      BY <2>1, <2>2, <3>2, ZenonT(30) DEF Sound, Marked
    <3>4. h.at <= tree.marks[p][h.id]
      BY <3>1, <3>3 DEF Latest
    <3>5. tree.marks[p][h.id] # 0
      BY <3>2, <3>3, <3>4
    <3>6. tree.marks[p] # Nobody
      BY <3>2, <3>5 DEF Nobody
    <3>7. p \in Seq(Chars)
      BY <2>2
    <3> QED
      BY <3>6, <3>7, PrefixRefl, ZenonT(30)
  <2> HIDE DEF N
  <2> QED
    BY <2>1, <2>2, <2>3, <2>4, ZenonT(30) DEF TreeCounted, N
<1> QED
  BY <1>1, RouteInvariance, PTL

\* kvcache.Index.Match: whatever was split, evicted, pruned and removed, a backend's match
\* is the longest prefix in common with a text that it is still recorded for.
THEOREM MatchIsTheLongest == Spec => []MatchIsLongest
<1>1. ASSUME RouteInv PROVE MatchIsLongest
  <2>1. Sound(tree, served, Chars)
    BY <1>1 DEF RouteInv, TreeInv
  <2>2. ASSUME NEW text \in Texts, NEW o \in Owners
        PROVE  Match(tree, text)[o]
                 = Max({0} \cup {CommonLen(h.text, Clip(text)) : h \in {h \in served : h.id = o}})
    <3>1. text \in Seq(Chars)
      BY TextsAre, ZenonT(30)
    <3> QED
      BY <2>1, <3>1, MatchLongest
  <2> QED
    BY <2>2, ZenonT(30) DEF MatchIsLongest
<1> QED
  BY <1>1, RouteInvariance, PTL

\* The hook that clears a removed backend's marks: a mark is of the instance registered now,
\* unless its request was under way when the backend was removed or replaced.
THEOREM MarksAreFresh == Spec => []MarksAreOfTheInstance
<1>1. RouteInv => MarksAreOfTheInstance
  BY ZenonT(30) DEF RouteInv, MarkInv, MarksAreOfTheInstance
<1> QED
  BY <1>1, RouteInvariance, PTL

\* PickSplit: a request is not sent to a subpool without weight, unless a weight changed
\* during the loop.
THEOREM WeightlessAreNotPicked == Spec => NoWeightNoPick
<1>1. RouteInv /\ [Next]_vars
        => [\A r \in Requests : req[r].pc = "split" /\ req'[r].pc = "pool" =>
               weight[req'[r].from] > 0 \/ req[r].moved]_vars
  BY StepPicksWeight, ZenonT(30) DEF NoPick, RouteInv
<1> QED
  BY <1>1, RouteInvariance, PTL DEF Spec, NoWeightNoPick
=============================================================================
