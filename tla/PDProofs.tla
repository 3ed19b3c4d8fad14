------------------------------ MODULE PDProofs ------------------------------
(***************************************************************************)
(* The safety of forwarding to prefill and decode pairs, for every number  *)
(* of requests, backends, links and attempts.                              *)
(***************************************************************************)
EXTENDS PD, FiniteSetTheorems, TLAPS

\* The time the provers have for a leaf, in seconds.
USE SMTT(30), ZenonT(30)

Pcs == {"start", "pick", "wait", "acquire", "pair", "leave", "join", "release", "answered"}
          \cup Calling

Locals == [pc : Pcs, p : Prefills \cup {None}, d : Decodes \cup {None},
           prefer : Prefills \cup {None}, exP : SUBSET Prefills, exD : SUBSET Decodes,
           try : 1 .. Attempts, fate : {"aborted", "prefill", "decode", "served"},
           gone : BOOLEAN, late : BOOLEAN, failedBy : SUBSET Members]

TypeOK ==
    /\ inflight \in [Backends -> Nat]
    /\ reqs \in [Requests -> Locals]
    /\ prefilling \in [Requests -> [1 .. Attempts -> Prefills \cup {None}]]
    /\ linked \in [Links -> Nat]
    /\ bound \in Prefills \cup {None}

\* A request has picked a pair, and has the decode's slot and the link.
Ending == {"leave", "join", "release"}
Paired == {"acquire", "pair"} \cup Calling \cup Ending
Linked == Calling \cup Ending

\* A pair is linked and none of it excluded, and who has failed the request is excluded or
\* about to be.
Fair(q) ==
    /\ q.pc \in Paired => <<q.p, q.d>> \in Links
    /\ q.pc \in {"acquire", "pair"} \cup Calling => q.p \notin q.exP /\ q.d \notin q.exD
    /\ q.pc \in Ending => q.failedBy = q.exP \cup q.exD \cup Faulty(q, q.fate)
    /\ q.pc \notin Ending \cup {"answered"} => q.failedBy = q.exP \cup q.exD

\* The goroutines of a request: that of the attempt in progress, once the pair's slots are
\* taken, and those of attempts before, which only a join that timed out leaves behind.
Behind(q, g) ==
    \A i \in 1 .. Attempts : g[i] # None =>
        /\ i < q.try \/ q.pc = "answered" \/ (i = q.try /\ q.pc \in Linked)
        /\ q.late \/ (i = q.try /\ q.pc \in {"decode", "stream", "leave", "join"})
        /\ i = q.try /\ q.pc \in Linked => q.p \in Sglang

\* The backends whose slots a request itself holds, and the link it uses.
Slots(q) ==
    (IF q.pc = "pair" \/ (q.p \notin Sglang /\ q.pc \in Calling \cup {"leave"}) THEN {q.p} ELSE {})
    \cup (IF q.pc \in Linked THEN {q.d} ELSE {})

Link(q) == IF q.pc \in Linked THEN {<<q.p, q.d>>} ELSE {}

Holders(b) == {r \in Requests : b \in Slots(reqs[r])}
Runners(b) == {x \in Requests \X (1 .. Attempts) : prefilling[x[1]][x[2]] = b}
Users(l) == {r \in Requests : l \in Link(reqs[r])}

Counted ==
    /\ \A b \in Members : inflight[b] = Cardinality(Holders(b)) + Cardinality(Runners(b))
    /\ \A l \in Links : linked[l] = Cardinality(Users(l))

IInv ==
    /\ TypeOK
    /\ \A r \in Requests : Fair(reqs[r]) /\ Behind(reqs[r], prefilling[r])
    /\ Counted

\* Request with locals q and goroutines g owns a slot of b, in the call numbered i.
Part(q, g, i, b) ==
    \/ i = 0 /\ q.d = b /\ q.pc \in Linked
    \/ /\ i = q.try /\ q.p = b
       /\ q.pc = "pair" \/ (q.p \notin Sglang /\ q.pc \in Calling \cup {"leave"})
    \/ i > 0 /\ g[i] = b

Calls == Requests \X (0 .. Attempts)

Taken(x, b) ==
    /\ \A c \in Backends : x \notin Owners(c)
    /\ HasRoom(b)
    /\ Owners(b)' = Owners(b) \cup {x}
    /\ \A c \in Backends \ {b} : Owners(c)' = Owners(c)

GivenBack(x, b) ==
    /\ x \in Owners(b)
    /\ Owners(b)' = Owners(b) \ {x}
    /\ \A c \in Backends \ {b} : Owners(c)' = Owners(c)

\* A step moves at most one slot to or from an owner.
PoolStep ==
    \/ \A b \in Backends : Owners(b)' = Owners(b)
    \/ \E x \in Calls, b \in Members : Taken(x, b) \/ GivenBack(x, b)

Keeps == IInv' /\ PoolStep

-----------------------------------------------------------------------------
(* Counting.                                                               *)

\* What is counted is finite.
LEMMA Sets ==
    /\ \A b : Holders(b) \subseteq Requests /\ IsFiniteSet(Holders(b))
              /\ Cardinality(Holders(b)) \in Nat
    /\ \A l : Users(l) \subseteq Requests /\ IsFiniteSet(Users(l)) /\ Cardinality(Users(l)) \in Nat
    /\ \A b : IsFiniteSet(Runners(b)) /\ Cardinality(Runners(b)) \in Nat
<1>1. IsFiniteSet(Requests) /\ Attempts \in Nat
  BY PDAssumption
<1>2. ASSUME NEW b PROVE IsFiniteSet(Holders(b)) /\ Cardinality(Holders(b)) \in Nat
  <2>1. Holders(b) \subseteq Requests
    BY DEF Holders
  <2> QED
    BY <1>1, <2>1, FS_Subset, FS_CardinalityType
<1>3. ASSUME NEW l PROVE IsFiniteSet(Users(l)) /\ Cardinality(Users(l)) \in Nat
  <2>1. Users(l) \subseteq Requests
    BY DEF Users
  <2> QED
    BY <1>1, <2>1, FS_Subset, FS_CardinalityType
<1>4. IsFiniteSet(Requests \X (1 .. Attempts))
  <2>1. IsFiniteSet(1 .. Attempts)
    BY <1>1, FS_Interval
  <2> QED
    BY <1>1, <2>1, FS_Product, ZenonT(30)
<1>5. ASSUME NEW b PROVE IsFiniteSet(Runners(b)) /\ Cardinality(Runners(b)) \in Nat
  <2>1. Runners(b) \subseteq Requests \X (1 .. Attempts)
    BY DEF Runners
  <2> QED
    BY <1>4, <2>1, FS_Subset, FS_CardinalityType
<1> QED
  BY <1>2, <1>3, <1>5, ZenonT(30) DEF Holders, Users

\* The same after a step, for the goroutines.
LEMMA RunnersLater ==
    ASSUME NEW b PROVE Cardinality(Runners(b)') \in Nat
<1>1. Runners(b)' \subseteq Requests \X (1 .. Attempts)
  BY DEF Runners
<1>2. IsFiniteSet(1 .. Attempts)
  BY PDAssumption, FS_Interval
<1>3. IsFiniteSet(Requests \X (1 .. Attempts))
  BY <1>2, PDAssumption, FS_Product, ZenonT(30)
<1> QED
  BY <1>1, <1>3, FS_Subset, FS_CardinalityType

\* Adding one element counts up by one.
LEMMA Adding ==
    ASSUME NEW T, IsFiniteSet(T), NEW x, x \notin T, NEW U, U = T \cup {x}
    PROVE  Cardinality(U) = Cardinality(T) + 1
  BY FS_AddElement

\* Removing one element counts down by one.
LEMMA Removing ==
    ASSUME NEW T, IsFiniteSet(T), NEW x \in T, NEW U, U = T \ {x}
    PROVE  Cardinality(U) = Cardinality(T) - 1
  BY FS_RemoveElement

-----------------------------------------------------------------------------
(* What a step does to the locals of its request.                          *)

\* Two records of locals that differ in nothing the invariant looks at but pc.
Same(q, n) ==
    /\ n.p = q.p /\ n.d = q.d /\ n.exP = q.exP /\ n.exD = q.exD /\ n.try = q.try
    /\ n.late = q.late /\ n.failedBy = q.failedBy /\ n.fate = q.fate

\* A request goes on with nothing changed but its place.
LEMMA Moved ==
    ASSUME NEW q \in Locals, NEW pc \in Pcs, NEW n, n = [q EXCEPT !.pc = pc]
    PROVE  n \in Locals /\ n.pc = pc /\ Same(q, n)
  BY DEF Locals, Same

Leaving(q, fate) ==
    [q EXCEPT !.pc = "leave", !.fate = fate, !.failedBy = q.failedBy \cup Faulty(q, fate)]

\* An attempt ends with a fate, and who failed it is noted.
LEMMA Left ==
    ASSUME NEW q \in Locals, q.pc \in Paired, <<q.p, q.d>> \in Links,
           NEW fate \in {"aborted", "prefill", "decode", "served"},
           NEW n, n = Leaving(q, fate)
    PROVE  /\ n \in Locals /\ n.pc = "leave" /\ n.p = q.p /\ n.d = q.d
           /\ n.exP = q.exP /\ n.exD = q.exD /\ n.try = q.try /\ n.late = q.late
           /\ n.failedBy = q.failedBy \cup Faulty(n, n.fate)
<1>1. q.p \in Prefills /\ q.d \in Decodes
  BY PDAssumption
<1>2. Faulty(q, fate) \subseteq Members
  BY <1>1 DEF Faulty, Members
<1>3. /\ n \in Locals /\ n.pc = "leave" /\ n.p = q.p /\ n.d = q.d /\ n.fate = fate
      /\ n.exP = q.exP /\ n.exD = q.exD /\ n.try = q.try /\ n.late = q.late
      /\ n.failedBy = q.failedBy \cup Faulty(q, fate)
  BY <1>2, ZenonT(30) DEF Leaving, Locals, Pcs, Calling
<1> QED
  BY <1>3 DEF Faulty

\* servePD begins.
LEMMA Beginning ==
    Fresh \in Locals /\ Fresh.pc = "start" /\ Fresh.failedBy = Fresh.exP \cup Fresh.exD
<1>1. 1 \in 1 .. Attempts
  BY PDAssumption
<1> QED
  BY <1>1 DEF Locals, Fresh, Pcs, Calling

\* servePD returns.
LEMMA Returned ==
    ASSUME NEW q \in Locals
    PROVE  /\ Answered(q) \in Locals /\ Answered(q).pc = "answered"
           /\ Answered(q).late = q.late
  BY Beginning, ZenonT(30) DEF Answered, Locals, Pcs, Calling

\* The side that failed is excluded, and the request picks again or returns.
LEMMA Excluded ==
    ASSUME NEW q \in Locals, <<q.p, q.d>> \in Links, NEW side \in {"prefill", "decode"},
           q.failedBy = q.exP \cup q.exD \cup Faulty(q, side),
           NEW n, n = Excluding(q, side)
    PROVE  /\ n \in Locals /\ n.late = q.late
           /\ n.pc = "answered" \/ (n.pc = "pick" /\ n.try = q.try + 1)
           /\ Fair(n)
<1>1. q.p \in Prefills /\ q.d \in Decodes
  BY PDAssumption
<1>2. CASE ~ (q.try < Attempts)
  <2>1. n = Answered(q)
    BY <1>2 DEF Excluding
  <2> QED
    BY <2>1, Returned DEF Fair, Paired, Calling, Ending
<1>3. CASE q.try < Attempts
  <2> DEFINE x == Exclude(q, side)
  <2>1. /\ x \in Locals /\ x.late = q.late /\ x.try = q.try /\ x.failedBy = q.failedBy
        /\ x.exP \cup x.exD = q.exP \cup q.exD \cup Faulty(q, side)
    <3>1. CASE side = "decode"
      <4>1. x = [q EXCEPT !.exD = @ \cup {q.d}]
        BY <3>1 DEF Exclude
      <4>2. /\ x \in Locals /\ x.late = q.late /\ x.try = q.try /\ x.failedBy = q.failedBy
            /\ x.exD = q.exD \cup {q.d} /\ x.exP = q.exP
        BY <1>1, <4>1 DEF Locals
      <4> QED
        BY <3>1, <4>2 DEF Faulty
    <3>2. CASE side = "prefill"
      <4>1. x = [q EXCEPT !.exP = @ \cup {q.p}]
        BY <3>2 DEF Exclude
      <4>2. /\ x \in Locals /\ x.late = q.late /\ x.try = q.try /\ x.failedBy = q.failedBy
            /\ x.exP = q.exP \cup {q.p} /\ x.exD = q.exD
        BY <1>1, <4>1 DEF Locals
      <4> QED
        BY <3>2, <4>2 DEF Faulty
    <3> QED
      BY <3>1, <3>2
  <2>2. n = [x EXCEPT !.pc = "pick", !.try = @ + 1, !.p = None, !.d = None, !.fate = "aborted"]
    BY <1>3 DEF Excluding
  <2> HIDE DEF x
  <2>3. x.try + 1 \in 1 .. Attempts
    BY <1>3, <2>1, PDAssumption DEF Locals
  <2>4. /\ n \in Locals /\ n.late = x.late /\ n.pc = "pick" /\ n.try = x.try + 1
        /\ n.failedBy = x.failedBy /\ n.exP = x.exP /\ n.exD = x.exD
    BY <2>1, <2>2, <2>3, ZenonT(30) DEF Locals, Pcs, Calling
  <2> QED
    BY <2>1, <2>4 DEF Fair, Paired, Calling, Ending
<1> QED
  BY <1>2, <1>3

-----------------------------------------------------------------------------
(* How the counts move with the locals and goroutines of one request.      *)

\* The invariant after a step of request r, given what it says of r and of the counts.
LEMMA Reassembled ==
    ASSUME IInv, NEW r \in Requests, NEW n \in Locals, reqs' = [reqs EXCEPT ![r] = n],
           inflight' \in [Backends -> Nat], linked' \in [Links -> Nat],
           prefilling' \in [Requests -> [1 .. Attempts -> Prefills \cup {None}]],
           \A x \in Requests \ {r} : prefilling'[x] = prefilling[x],
           bound' \in Prefills \cup {None},
           Fair(n), Behind(n, prefilling'[r]), Counted'
    PROVE  IInv'
<1>1. reqs \in [Requests -> Locals]
  BY DEF IInv, TypeOK
<1>2. /\ reqs' \in [Requests -> Locals] /\ reqs'[r] = n
      /\ \A x \in Requests \ {r} : reqs'[x] = reqs[x]
  BY <1>1
<1>3. TypeOK'
  BY <1>2 DEF TypeOK
<1>4. ASSUME NEW x \in Requests PROVE Fair(reqs'[x]) /\ Behind(reqs'[x], prefilling'[x])
  <2>1. CASE x = r
    BY <1>2, <2>1
  <2>2. CASE x # r
    <3>1. reqs'[x] = reqs[x] /\ prefilling'[x] = prefilling[x]
      BY <1>2, <2>2, ZenonT(30)
    <3> QED
      BY <3>1 DEF IInv
  <2> QED
    BY <2>1, <2>2
<1>5. (\A x \in Requests : Fair(reqs[x]) /\ Behind(reqs[x], prefilling[x]))'
  BY <1>4 DEF Fair, Behind, Faulty
<1> QED
  BY <1>3, <1>5 DEF IInv

\* The holders of the slots of b after a step of request r.
LEMMA HoldersMove ==
    ASSUME IInv, NEW r \in Requests, NEW n \in Locals, reqs' = [reqs EXCEPT ![r] = n],
           NEW b
    PROVE  /\ (b \in Slots(n) <=> b \in Slots(reqs[r])) => Holders(b)' = Holders(b)
           /\ b \in Slots(n) /\ b \notin Slots(reqs[r]) =>
                 Cardinality(Holders(b)') = Cardinality(Holders(b)) + 1
           /\ b \notin Slots(n) /\ b \in Slots(reqs[r]) =>
                 Cardinality(Holders(b)') = Cardinality(Holders(b)) - 1
<1>1. reqs'[r] = n /\ \A x \in Requests \ {r} : reqs'[x] = reqs[x]
  BY DEF IInv, TypeOK
<1>2. Holders(b)' = {x \in Requests : b \in Slots(reqs'[x])}
  BY DEF Holders, Slots
<1>3. ASSUME b \in Slots(n) <=> b \in Slots(reqs[r]) PROVE Holders(b)' = Holders(b)
  BY <1>1, <1>2, <1>3 DEF Holders
<1>4. ASSUME b \in Slots(n), b \notin Slots(reqs[r])
      PROVE  Cardinality(Holders(b)') = Cardinality(Holders(b)) + 1
  <2>1. Holders(b)' = Holders(b) \cup {r} /\ r \notin Holders(b)
    BY <1>1, <1>2, <1>4 DEF Holders
  <2> QED
    BY <2>1, Sets, Adding
<1>5. ASSUME b \notin Slots(n), b \in Slots(reqs[r])
      PROVE  Cardinality(Holders(b)') = Cardinality(Holders(b)) - 1
  <2>1. Holders(b)' = Holders(b) \ {r} /\ r \in Holders(b)
    BY <1>1, <1>2, <1>5 DEF Holders
  <2> QED
    BY <2>1, Sets, Removing
<1> QED
  BY <1>3, <1>4, <1>5

\* The users of link l after a step of request r.
LEMMA UsersMove ==
    ASSUME IInv, NEW r \in Requests, NEW n \in Locals, reqs' = [reqs EXCEPT ![r] = n],
           NEW l
    PROVE  /\ (l \in Link(n) <=> l \in Link(reqs[r])) => Users(l)' = Users(l)
           /\ l \in Link(n) /\ l \notin Link(reqs[r]) =>
                 Cardinality(Users(l)') = Cardinality(Users(l)) + 1
           /\ l \notin Link(n) /\ l \in Link(reqs[r]) =>
                 Cardinality(Users(l)') = Cardinality(Users(l)) - 1
<1>1. reqs'[r] = n /\ \A x \in Requests \ {r} : reqs'[x] = reqs[x]
  BY DEF IInv, TypeOK
<1>2. Users(l)' = {x \in Requests : l \in Link(reqs'[x])}
  BY DEF Users, Link
<1>3. ASSUME l \in Link(n) <=> l \in Link(reqs[r]) PROVE Users(l)' = Users(l)
  BY <1>1, <1>2, <1>3 DEF Users
<1>4. ASSUME l \in Link(n), l \notin Link(reqs[r])
      PROVE  Cardinality(Users(l)') = Cardinality(Users(l)) + 1
  <2>1. Users(l)' = Users(l) \cup {r} /\ r \notin Users(l)
    BY <1>1, <1>2, <1>4 DEF Users
  <2> QED
    BY <2>1, Sets, Adding
<1>5. ASSUME l \notin Link(n), l \in Link(reqs[r])
      PROVE  Cardinality(Users(l)') = Cardinality(Users(l)) - 1
  <2>1. Users(l)' = Users(l) \ {r} /\ r \in Users(l)
    BY <1>1, <1>2, <1>5 DEF Users
  <2> QED
    BY <2>1, Sets, Removing, ZenonT(30)
<1> QED
  BY <1>3, <1>4, <1>5

\* The owners before and after a step of request r, call by call.
LEMMA OwnersMove ==
    ASSUME IInv, NEW r \in Requests, NEW n \in Locals, reqs' = [reqs EXCEPT ![r] = n],
           \A x \in Requests \ {r} : prefilling'[x] = prefilling[x],
           NEW b \in Backends, NEW x \in Calls
    PROVE  /\ x[1] # r => (x \in Owners(b)' <=> x \in Owners(b))
           /\ x[1] = r => (x \in Owners(b) <=> Part(reqs[r], prefilling[r], x[2], b))
           /\ x[1] = r => (x \in Owners(b)' <=> Part(n, prefilling'[r], x[2], b))
<1>1. reqs'[r] = n /\ \A y \in Requests \ {r} : reqs'[y] = reqs[y]
  BY DEF IInv, TypeOK
<1>2. x \in Owners(b) <=> Part(reqs[x[1]], prefilling[x[1]], x[2], b)
  BY ZenonT(30) DEF Owners, Part, HoldsDecode, HoldsPrefill, At, Linked, Ending, Calls
<1>3. x \in Owners(b)' <=> Part(reqs'[x[1]], prefilling'[x[1]], x[2], b)
  BY ZenonT(30) DEF Owners, Part, HoldsDecode, HoldsPrefill, At, Linked, Ending, Calls
<1>4. x[1] \in Requests
  BY DEF Calls
<1>5. ASSUME x[1] # r PROVE x \in Owners(b)' <=> x \in Owners(b)
  <2>1. reqs'[x[1]] = reqs[x[1]] /\ prefilling'[x[1]] = prefilling[x[1]]
    BY <1>1, <1>4, <1>5, ZenonT(30)
  <2> QED
    BY <1>2, <1>3, <2>1, ZenonT(30)
<1> QED
  BY <1>1, <1>2, <1>3, <1>5, ZenonT(30)

\* Request r owns what it owned.
LEMMA PartsKept ==
    ASSUME IInv, NEW r \in Requests, NEW n \in Locals, reqs' = [reqs EXCEPT ![r] = n],
           \A x \in Requests \ {r} : prefilling'[x] = prefilling[x],
           NEW h, prefilling'[r] = h,
           \A i \in 0 .. Attempts, b \in Backends :
               Part(n, h, i, b) <=> Part(reqs[r], prefilling[r], i, b)
    PROVE  PoolStep
<1>1. ASSUME NEW b \in Backends PROVE Owners(b)' = Owners(b)
  <2>1. \A x \in Calls : x \in Owners(b)' <=> x \in Owners(b)
    <3> TAKE x \in Calls
    <3>1. x[2] \in 0 .. Attempts
      BY DEF Calls
    <3> QED
      BY <3>1, OwnersMove, ZenonT(30)
  <2>2. Owners(b) \subseteq Calls /\ Owners(b)' \subseteq Calls
    BY ZenonT(30) DEF Owners, Calls
  <2> QED
    BY <2>1, <2>2, ZenonT(30)
<1> QED
  BY <1>1 DEF PoolStep

\* With locals n and goroutines h a request owns what it owned with q and g, and a slot of
\* c for its call i besides; or all but that slot.
Gains(q, g, n, h, i, c) ==
    /\ \A b \in Backends : ~ Part(q, g, i, b)
    /\ \A j \in 0 .. Attempts, b \in Backends :
          Part(n, h, j, b) <=> Part(q, g, j, b) \/ (j = i /\ b = c)

Loses(q, g, n, h, i, c) ==
    /\ Part(q, g, i, c)
    /\ \A j \in 0 .. Attempts, b \in Backends :
          Part(n, h, j, b) <=> Part(q, g, j, b) /\ ~ (j = i /\ b = c)

\* Request r has a slot of c for its call i, which had none.
LEMMA PartTaken ==
    ASSUME IInv, NEW r \in Requests, NEW n \in Locals, reqs' = [reqs EXCEPT ![r] = n],
           \A x \in Requests \ {r} : prefilling'[x] = prefilling[x],
           NEW i \in 0 .. Attempts, NEW c \in Members, HasRoom(c),
           Gains(reqs[r], prefilling[r], n, prefilling'[r], i, c)
    PROVE  PoolStep
<1> DEFINE z == <<r, i>>
<1>1. z \in Calls /\ z[1] = r /\ z[2] = i /\ c \in Backends
  BY PDAssumption DEF Calls, Members
<1> HIDE DEF z
<1>2. ASSUME NEW b \in Backends, NEW x \in Calls
      PROVE  x \in Owners(b)' <=> x \in Owners(b) \/ (x = z /\ b = c)
  <2>1. x[2] \in 0 .. Attempts /\ x = <<x[1], x[2]>>
    BY DEF Calls
  <2>2. x = z <=> x[1] = r /\ x[2] = i
    BY <2>1 DEF z
  <2>3. CASE x[1] = r
    <3>1. /\ x \in Owners(b) <=> Part(reqs[r], prefilling[r], x[2], b)
          /\ x \in Owners(b)' <=> Part(n, prefilling'[r], x[2], b)
      BY <2>3, OwnersMove, ZenonT(30)
    <3> QED
      BY <2>1, <2>2, <2>3, <3>1, ZenonT(30) DEF Gains
  <2>4. CASE x[1] # r
    BY <2>2, <2>4, OwnersMove, ZenonT(30)
  <2> QED
    BY <2>3, <2>4
<1>3. \A b \in Backends : z \notin Owners(b)
  BY <1>1, OwnersMove, ZenonT(30) DEF Gains, Loses
<1>4. \A b \in Backends : Owners(b) \subseteq Calls /\ Owners(b)' \subseteq Calls
  BY ZenonT(30) DEF Owners, Calls
<1>5. Owners(c)' = Owners(c) \cup {z}
  BY <1>1, <1>2, <1>4, ZenonT(30)
<1>6. ASSUME NEW b \in Backends \ {c} PROVE Owners(b)' = Owners(b)
  BY <1>2, <1>4, <1>6, ZenonT(30)
<1> QED
  BY <1>1, <1>3, <1>5, <1>6, ZenonT(30) DEF PoolStep, Taken

\* Request r gives back the slot of c that its call i had.
LEMMA PartGivenBack ==
    ASSUME IInv, NEW r \in Requests, NEW n \in Locals, reqs' = [reqs EXCEPT ![r] = n],
           \A x \in Requests \ {r} : prefilling'[x] = prefilling[x],
           NEW i \in 0 .. Attempts, NEW c \in Members,
           Loses(reqs[r], prefilling[r], n, prefilling'[r], i, c)
    PROVE  PoolStep
<1> DEFINE z == <<r, i>>
<1>1. z \in Calls /\ z[1] = r /\ z[2] = i /\ c \in Backends
  BY PDAssumption DEF Calls, Members
<1> HIDE DEF z
<1>2. ASSUME NEW b \in Backends, NEW x \in Calls
      PROVE  x \in Owners(b)' <=> x \in Owners(b) /\ ~ (x = z /\ b = c)
  <2>1. x[2] \in 0 .. Attempts /\ x = <<x[1], x[2]>>
    BY DEF Calls
  <2>2. x = z <=> x[1] = r /\ x[2] = i
    BY <2>1 DEF z
  <2> QED
    BY <2>1, <2>2, OwnersMove, ZenonT(30) DEF Loses
<1>3. z \in Owners(c)
  BY <1>1, OwnersMove, ZenonT(30) DEF Gains, Loses
<1>4. \A b \in Backends : Owners(b) \subseteq Calls /\ Owners(b)' \subseteq Calls
  BY ZenonT(30) DEF Owners, Calls
<1>5. Owners(c)' = Owners(c) \ {z}
  BY <1>1, <1>2, <1>4, ZenonT(30)
<1>6. ASSUME NEW b \in Backends \ {c} PROVE Owners(b)' = Owners(b)
  BY <1>2, <1>4, <1>6, ZenonT(30)
<1> QED
  BY <1>1, <1>3, <1>5, <1>6, ZenonT(30) DEF PoolStep, GivenBack

\* The same in terms of the slots S of the request itself, in attempt t: the sides tell
\* its calls apart.
Owned(S, t, g, i, b) ==
    \/ i = 0 /\ b \in Decodes /\ b \in S
    \/ i = t /\ b \in Prefills /\ b \in S
    \/ i > 0 /\ g[i] = b

\* It says the same.
LEMMA PartIs ==
    ASSUME NEW q \in Locals, NEW g, NEW i \in 0 .. Attempts, NEW b \in Backends
    PROVE  Part(q, g, i, b) <=> Owned(Slots(q), q.try, g, i, b)
<1>1. b # None /\ (b \in Prefills => b \notin Decodes)
  BY PDAssumption
<1>2. q.p \in Prefills \cup {None} /\ q.d \in Decodes \cup {None}
  BY ZenonT(30) DEF Locals
<1>3. i = 0 /\ q.d = b /\ q.pc \in Linked <=> i = 0 /\ b \in Decodes /\ b \in Slots(q)
  BY <1>1, <1>2, ZenonT(30) DEF Slots
<1>4. /\ i = q.try /\ q.p = b
      /\ q.pc = "pair" \/ (q.p \notin Sglang /\ q.pc \in Calling \cup {"leave"})
      <=> i = q.try /\ b \in Prefills /\ b \in Slots(q)
  BY <1>1, <1>2, ZenonT(30) DEF Slots
<1> QED
  BY <1>3, <1>4, ZenonT(30) DEF Part, Owned

\* A step that leaves every slot and link with its owner.
LEMMA QuietKeeps ==
    ASSUME IInv, NEW r \in Requests, NEW n \in Locals, reqs' = [reqs EXCEPT ![r] = n],
           inflight' = inflight, prefilling' = prefilling, linked' = linked,
           bound' \in Prefills \cup {None}, Fair(n), Behind(n, prefilling[r]),
           Slots(n) = Slots(reqs[r]), Link(n) = Link(reqs[r]),
           Slots(n) = {} \/ n.try = reqs[r].try
    PROVE  Keeps
<1>1. \A b : Holders(b)' = Holders(b)
  BY HoldersMove, ZenonT(30)
<1>2. \A l : Users(l)' = Users(l)
  BY UsersMove, ZenonT(30)
<1>3. \A b : Runners(b)' = Runners(b)
  BY DEF Runners
<1>4. Counted'
  BY <1>1, <1>2, <1>3 DEF IInv, Counted
<1>5. reqs[r] \in Locals
  BY DEF IInv, TypeOK
<1>6. ASSUME NEW i \in 0 .. Attempts, NEW b \in Backends
      PROVE  Part(n, prefilling[r], i, b) <=> Part(reqs[r], prefilling[r], i, b)
  <2>1. /\ Part(n, prefilling[r], i, b) <=> Owned(Slots(n), n.try, prefilling[r], i, b)
        /\ Part(reqs[r], prefilling[r], i, b)
               <=> Owned(Slots(reqs[r]), reqs[r].try, prefilling[r], i, b)
    BY <1>5, PartIs, ZenonT(30)
  <2> QED
    BY <2>1, ZenonT(30) DEF Owned
<1>7. PoolStep
  <2>1. prefilling'[r] = prefilling[r] /\ \A x \in Requests \ {r} : prefilling'[x] = prefilling[x]
    OBVIOUS
  <2> QED
    BY <1>6, <2>1, PartsKept, ZenonT(30)
<1>8. IInv'
  BY <1>4, Reassembled DEF IInv, TypeOK
<1> QED
  BY <1>7, <1>8 DEF Keeps

\* A step that takes the slot of one backend for request r.
LEMMA SlotTaken ==
    ASSUME IInv, NEW r \in Requests, NEW n \in Locals, reqs' = [reqs EXCEPT ![r] = n],
           NEW c \in Members, inflight' = [inflight EXCEPT ![c] = inflight[c] + 1],
           prefilling' = prefilling,
           c \notin Slots(reqs[r]), Slots(n) = Slots(reqs[r]) \cup {c}
    PROVE  /\ inflight' \in [Backends -> Nat]
           /\ \A b \in Members :
                 inflight'[b] = Cardinality(Holders(b)') + Cardinality(Runners(b)')
<1>1. inflight \in [Backends -> Nat] /\ c \in Backends
  BY PDAssumption DEF IInv, TypeOK, Members
<1>2. ASSUME NEW b \in Members
      PROVE  inflight'[b] = Cardinality(Holders(b)') + Cardinality(Runners(b)')
  <2>1. inflight[b] = Cardinality(Holders(b)) + Cardinality(Runners(b)) /\ b \in Backends
    BY PDAssumption DEF IInv, Counted, Members
  <2>2. Runners(b)' = Runners(b)
    BY DEF Runners
  <2>3. CASE b = c
    <3>1. Cardinality(Holders(b)') = Cardinality(Holders(b)) + 1
      BY <2>3, HoldersMove, ZenonT(30)
    <3>2. inflight'[b] = inflight[b] + 1
      BY <1>1, <2>3
    <3>3. Cardinality(Holders(b)) \in Nat /\ Cardinality(Runners(b)) \in Nat
      BY Sets
    <3> QED
      BY <2>1, <2>2, <3>1, <3>2, <3>3
  <2>4. CASE b # c
    <3>1. Holders(b)' = Holders(b)
      BY <2>4, HoldersMove, ZenonT(30)
    <3> QED
      BY <1>1, <2>1, <2>2, <2>4, <3>1
  <2> QED
    BY <2>3, <2>4
<1> QED
  BY <1>1, <1>2

\* A step that gives the slot of one backend back.
LEMMA SlotGiven ==
    ASSUME IInv, NEW r \in Requests, NEW n \in Locals, reqs' = [reqs EXCEPT ![r] = n],
           NEW c \in Members, inflight' = [inflight EXCEPT ![c] = inflight[c] - 1],
           prefilling' = prefilling,
           c \in Slots(reqs[r]), Slots(n) = Slots(reqs[r]) \ {c}
    PROVE  /\ inflight' \in [Backends -> Nat]
           /\ \A b \in Members :
                 inflight'[b] = Cardinality(Holders(b)') + Cardinality(Runners(b)')
<1>1. inflight \in [Backends -> Nat] /\ c \in Backends
  BY PDAssumption DEF IInv, TypeOK, Members
<1>2. inflight[c] - 1 \in Nat
  <2>1. Cardinality(Holders(c)) >= 1
    <3>1. r \in Holders(c)
      BY DEF Holders
    <3>2. Cardinality(Holders(c) \ {r}) = Cardinality(Holders(c)) - 1
      BY <3>1, Sets, Removing
    <3>3. Cardinality(Holders(c) \ {r}) \in Nat
      BY Sets, FS_RemoveElement, FS_CardinalityType, ZenonT(30)
    <3> QED
      BY <3>2, <3>3, Sets
  <2> QED
    BY <1>1, <2>1, Sets DEF IInv, Counted
<1>3. ASSUME NEW b \in Members
      PROVE  inflight'[b] = Cardinality(Holders(b)') + Cardinality(Runners(b)')
  <2>1. inflight[b] = Cardinality(Holders(b)) + Cardinality(Runners(b)) /\ b \in Backends
    BY PDAssumption DEF IInv, Counted, Members
  <2>2. Runners(b)' = Runners(b)
    BY DEF Runners
  <2>3. CASE b = c
    <3>1. Cardinality(Holders(b)') = Cardinality(Holders(b)) - 1
      BY <2>3, HoldersMove, ZenonT(30)
    <3>2. inflight'[b] = inflight[b] - 1
      BY <1>1, <2>3
    <3>3. Cardinality(Holders(b)) \in Nat /\ Cardinality(Runners(b)) \in Nat
      BY Sets
    <3> QED
      BY <2>1, <2>2, <3>1, <3>2, <3>3
  <2>4. CASE b # c
    <3>1. Holders(b)' = Holders(b)
      BY <2>4, HoldersMove, ZenonT(30)
    <3> QED
      BY <1>1, <2>1, <2>2, <2>4, <3>1
  <2> QED
    BY <2>3, <2>4
<1> QED
  BY <1>1, <1>2, <1>3

\* A step that changes one slot, no link and no goroutine.
LEMMA OneSlotKeeps ==
    ASSUME IInv, NEW r \in Requests, NEW n \in Locals, reqs' = [reqs EXCEPT ![r] = n],
           inflight' \in [Backends -> Nat],
           \A b \in Members : inflight'[b] = Cardinality(Holders(b)') + Cardinality(Runners(b)'),
           prefilling' = prefilling, linked' = linked, bound' = bound,
           Fair(n), Behind(n, prefilling[r]), Link(n) = Link(reqs[r])
    PROVE  IInv'
<1>1. \A l : Users(l)' = Users(l)
  BY UsersMove, ZenonT(30)
<1>2. Counted'
  BY <1>1 DEF IInv, Counted
<1> QED
  BY <1>2, Reassembled DEF IInv, TypeOK

\* A goroutine of request r begins or ends.
LEMMA GoroutineMove ==
    ASSUME IInv, NEW r \in Requests, NEW h \in [1 .. Attempts -> Prefills \cup {None}],
           prefilling' = [prefilling EXCEPT ![r] = h]
    PROVE  /\ prefilling' \in [Requests -> [1 .. Attempts -> Prefills \cup {None}]]
           /\ \A x \in Requests \ {r} : prefilling'[x] = prefilling[x]
           /\ prefilling'[r] = h
  BY DEF IInv, TypeOK

\* The goroutines at work on b after goroutine i of request r began or ended.
LEMMA RunnersMove ==
    ASSUME IInv, NEW r \in Requests, NEW h \in [1 .. Attempts -> Prefills \cup {None}],
           prefilling' = [prefilling EXCEPT ![r] = h],
           NEW i \in 1 .. Attempts, \A j \in (1 .. Attempts) \ {i} : h[j] = prefilling[r][j],
           NEW b
    PROVE  /\ b # h[i] /\ b # prefilling[r][i] => Runners(b)' = Runners(b)
           /\ b = h[i] /\ b # prefilling[r][i] =>
                 Cardinality(Runners(b)') = Cardinality(Runners(b)) + 1
           /\ b # h[i] /\ b = prefilling[r][i] =>
                 Cardinality(Runners(b)') = Cardinality(Runners(b)) - 1
<1> DEFINE g == prefilling[r]
<1>1. prefilling \in [Requests -> [1 .. Attempts -> Prefills \cup {None}]]
  BY DEF IInv, TypeOK
<1>2. /\ prefilling' \in [Requests -> [1 .. Attempts -> Prefills \cup {None}]]
      /\ \A x \in Requests \ {r} : prefilling'[x] = prefilling[x]
      /\ prefilling'[r] = h
  BY GoroutineMove, ZenonT(30)
<1>3. ASSUME NEW x \in Requests \X (1 .. Attempts)
      PROVE  /\ x = <<r, i>> => prefilling'[x[1]][x[2]] = h[i] /\ prefilling[x[1]][x[2]] = g[i]
             /\ x # <<r, i>> => prefilling'[x[1]][x[2]] = prefilling[x[1]][x[2]]
  <2>1. x = <<x[1], x[2]>> /\ x[1] \in Requests /\ x[2] \in 1 .. Attempts
    OBVIOUS
  <2>2. CASE x[1] # r
    BY <1>2, <2>1, <2>2
  <2>3. CASE x[1] = r /\ x[2] # i
    BY <1>2, <2>1, <2>3
  <2>4. CASE x[1] = r /\ x[2] = i
    BY <1>2, <2>1, <2>4
  <2> QED
    BY <2>2, <2>3, <2>4
<1>4. <<r, i>> \in Requests \X (1 .. Attempts)
  OBVIOUS
<1>5. ASSUME b # h[i], b # g[i] PROVE Runners(b)' = Runners(b)
  BY <1>3, <1>5 DEF Runners
<1>6. ASSUME b = h[i], b # g[i]
      PROVE  Cardinality(Runners(b)') = Cardinality(Runners(b)) + 1
  <2>1. Runners(b)' = Runners(b) \cup {<<r, i>>} /\ <<r, i>> \notin Runners(b)
    BY <1>3, <1>4, <1>6 DEF Runners
  <2> QED
    BY <2>1, Sets, Adding
<1>7. ASSUME b # h[i], b = g[i]
      PROVE  Cardinality(Runners(b)') = Cardinality(Runners(b)) - 1
  <2>1. Runners(b)' = Runners(b) \ {<<r, i>>} /\ <<r, i>> \in Runners(b)
    BY <1>3, <1>4, <1>7 DEF Runners
  <2> QED
    BY <2>1, Sets, Removing
<1> QED
  BY <1>5, <1>6, <1>7

\* A request begins to use a link.
LEMMA LinkTaken ==
    ASSUME IInv, NEW r \in Requests, NEW n \in Locals, reqs' = [reqs EXCEPT ![r] = n],
           NEW k \in Links, Link(reqs[r]) = {}, Link(n) = {k},
           linked' = [linked EXCEPT ![k] = linked[k] + 1]
    PROVE  /\ linked' \in [Links -> Nat]
           /\ \A l \in Links : linked'[l] = Cardinality(Users(l)')
<1>1. linked \in [Links -> Nat] /\ \A l \in Links : linked[l] = Cardinality(Users(l))
  BY DEF IInv, TypeOK, Counted
<1>2. Cardinality(Users(k)') = Cardinality(Users(k)) + 1
  BY UsersMove, ZenonT(30)
<1>3. \A l \in Links \ {k} : Users(l)' = Users(l)
  BY UsersMove, ZenonT(30)
<1> QED
  BY <1>1, <1>2, <1>3

\* A request ends to use a link.
LEMMA LinkGiven ==
    ASSUME IInv, NEW r \in Requests, NEW n \in Locals, reqs' = [reqs EXCEPT ![r] = n],
           NEW k \in Links, Link(reqs[r]) = {k}, Link(n) = {},
           linked' = [linked EXCEPT ![k] = linked[k] - 1]
    PROVE  /\ linked' \in [Links -> Nat]
           /\ \A l \in Links : linked'[l] = Cardinality(Users(l)')
<1>1. linked \in [Links -> Nat] /\ \A l \in Links : linked[l] = Cardinality(Users(l))
  BY DEF IInv, TypeOK, Counted
<1>2. Cardinality(Users(k)') = Cardinality(Users(k)) - 1
  BY UsersMove, ZenonT(30)
<1>3. \A l \in Links \ {k} : Users(l)' = Users(l)
  BY UsersMove, ZenonT(30)
<1>4. Cardinality(Users(k)') \in Nat
  <2>1. Users(k)' \subseteq Requests
    BY DEF Users
  <2> QED
    BY <2>1, PDAssumption, FS_Subset, FS_CardinalityType
<1> QED
  BY <1>1, <1>2, <1>3, <1>4

-----------------------------------------------------------------------------
(* The steps of a request that keep what it holds.                         *)

\* What the invariant says of request r.
LEMMA Mine ==
    ASSUME IInv, NEW r \in Requests
    PROVE  /\ reqs \in [Requests -> Locals] /\ reqs[r] \in Locals
           /\ Fair(reqs[r]) /\ Behind(reqs[r], prefilling[r])
           /\ bound \in Prefills \cup {None}
  BY DEF IInv, TypeOK

\* servePD reads the session binding: a preference, or a binding dropped.
LEMMA BeginKeeps ==
    ASSUME IInv, NEW r \in Requests, Begin(r)
    PROVE  Keeps
<1> DEFINE q == reqs[r]
           prefer == IF bound # None /\ Available(bound) THEN bound ELSE None
           n == [q EXCEPT !.pc = "pick", !.prefer = prefer]
<1>1. q \in Locals /\ Fair(q) /\ Behind(q, prefilling[r]) /\ q.pc = "start"
      /\ reqs \in [Requests -> Locals] /\ bound \in Prefills \cup {None}
  BY Mine DEF Begin, At
<1>2. /\ reqs' = [reqs EXCEPT ![r] = n] /\ bound' = prefer
      /\ inflight' = inflight /\ prefilling' = prefilling /\ linked' = linked
  BY <1>1, ZenonT(30) DEF Begin, KeepSlots
<1>3. prefer \in Prefills \cup {None}
  BY <1>1
<1> HIDE DEF prefer
<1>4. n \in Locals /\ n.pc = "pick" /\ Same(q, n)
  BY <1>1, <1>3, ZenonT(30) DEF Locals, Same, Pcs, Calling
<1> HIDE DEF n
<1>5. Fair(n) /\ Behind(n, prefilling[r]) /\ Slots(n) = Slots(q) /\ Link(n) = Link(q)
  BY <1>1, <1>4 DEF Fair, Behind, Slots, Link, Same, Paired, Linked, Ending, Calling, Faulty
<1> QED
  BY <1>2, <1>3, <1>4, <1>5, QuietKeeps, ZenonT(30) DEF Same

\* PickPreferred returns a linked pair, neither side of it excluded.
LEMMA PickKeeps ==
    ASSUME IInv, NEW r \in Requests, PickPreferred(r)
    PROVE  Keeps
<1> DEFINE q == reqs[r]
<1>1. PICK p \in PrefillChoices(q) : \E d \in DecodeChoices(q, p) :
         reqs' = [reqs EXCEPT ![r].pc = "acquire", ![r].p = p, ![r].d = d]
  BY ZenonT(30) DEF PickPreferred
<1>2. PICK d \in DecodeChoices(q, p) :
         reqs' = [reqs EXCEPT ![r].pc = "acquire", ![r].p = p, ![r].d = d]
  BY <1>1, ZenonT(30)
<1>3. p \in Prefills \ q.exP /\ d \in Decodes \ q.exD /\ <<p, d>> \in Links
  BY DEF PrefillChoices, DecodeChoices
<1> DEFINE n == [q EXCEPT !.pc = "acquire", !.p = p, !.d = d]
<1>4. q \in Locals /\ Fair(q) /\ Behind(q, prefilling[r]) /\ q.pc \in {"pick", "wait"}
      /\ reqs \in [Requests -> Locals] /\ bound \in Prefills \cup {None}
  BY Mine DEF PickPreferred
<1>5. /\ reqs' = [reqs EXCEPT ![r] = n] /\ bound' = bound
      /\ inflight' = inflight /\ prefilling' = prefilling /\ linked' = linked
  BY <1>2, <1>4, ZenonT(30) DEF PickPreferred, KeepSlots
<1>6. /\ n \in Locals /\ n.pc = "acquire" /\ n.p = p /\ n.d = d
      /\ n.exP = q.exP /\ n.exD = q.exD /\ n.try = q.try /\ n.late = q.late
      /\ n.failedBy = q.failedBy
  BY <1>3, <1>4, ZenonT(30) DEF Locals, Pcs, Calling
<1> HIDE DEF n
<1>7. Fair(n) /\ Behind(n, prefilling[r]) /\ Slots(n) = Slots(q) /\ Link(n) = Link(q)
  BY <1>3, <1>4, <1>6 DEF Fair, Behind, Slots, Link, Paired, Linked, Ending, Calling
<1> QED
  BY <1>4, <1>5, <1>6, <1>7, QuietKeeps, ZenonT(30)

\* servePD returns while the request holds nothing.
LEMMA ReturningKeeps ==
    ASSUME IInv, NEW r \in Requests, reqs[r].pc \in {"pick", "wait"},
           reqs' = [reqs EXCEPT ![r] = Answered(reqs[r])],
           inflight' = inflight, prefilling' = prefilling, linked' = linked, bound' = bound
    PROVE  Keeps
<1> DEFINE q == reqs[r]
           n == Answered(q)
<1>1. q \in Locals /\ Behind(q, prefilling[r]) /\ bound \in Prefills \cup {None}
  BY Mine
<1>2. n \in Locals /\ n.pc = "answered" /\ n.late = q.late
  BY <1>1, Returned, ZenonT(30)
<1> HIDE DEF n
<1>3. /\ Fair(n) /\ Behind(n, prefilling[r])
      /\ Slots(n) = {} /\ Slots(q) = {} /\ Link(n) = Link(q)
  BY <1>1, <1>2 DEF Fair, Behind, Slots, Link, Paired, Linked, Ending, Calling
<1> QED
  BY <1>1, <1>2, <1>3, QuietKeeps, ZenonT(30) DEF n

\* A request goes on with all it has: into the queue, through the calls of a pair, or
\* past the join with a goroutine that has ended.
LEMMA MovingKeeps ==
    ASSUME IInv, NEW r \in Requests, NEW pc,
           <<reqs[r].pc, pc>> \in {<<"pick", "wait">>, <<"prefill", "body">>, <<"body", "decode">>,
               <<"decode", "stream">>, <<"join", "release">>},
           pc = "release" => Exited(r),
           Moves(r, pc),
           inflight' = inflight, prefilling' = prefilling, linked' = linked, bound' = bound
    PROVE  Keeps
<1> DEFINE q == reqs[r]
           n == [q EXCEPT !.pc = pc]
<1>1. q \in Locals /\ Fair(q) /\ Behind(q, prefilling[r])
      /\ reqs \in [Requests -> Locals] /\ bound \in Prefills \cup {None}
  BY Mine
<1>2. reqs' = [reqs EXCEPT ![r] = n]
  BY <1>1 DEF Moves
<1>3. pc \in Pcs
  BY DEF Pcs, Calling
<1>4. n \in Locals /\ n.pc = pc /\ Same(q, n)
  BY <1>1, <1>3, Moved
<1> HIDE DEF n
<1>5. Fair(n)
  BY <1>1, <1>4, ZenonT(30) DEF Fair, Same, Paired, Ending, Calling, Faulty
<1>6. Behind(n, prefilling[r])
  BY <1>1, <1>4, ZenonT(30) DEF Behind, Same, Linked, Ending, Calling, Exited
<1>7. Slots(n) = Slots(q) /\ Link(n) = Link(q)
  BY <1>4 DEF Slots, Link, Same, Linked, Ending, Calling
<1> QED
  BY <1>1, <1>2, <1>4, <1>5, <1>6, <1>7, QuietKeeps, ZenonT(30) DEF Same

\* A call ends an attempt, which still holds all it had.
LEMMA EndingKeeps ==
    ASSUME IInv, NEW r \in Requests, reqs[r].pc \in Calling,
           NEW fate \in {"aborted", "prefill", "decode", "served"}, Ends(r, fate),
           inflight' = inflight, prefilling' = prefilling, linked' = linked, bound' = bound
    PROVE  Keeps
<1> DEFINE q == reqs[r]
           n == Leaving(q, fate)
<1>1. q \in Locals /\ Fair(q) /\ Behind(q, prefilling[r])
      /\ reqs \in [Requests -> Locals] /\ bound \in Prefills \cup {None}
  BY Mine
<1>2. reqs' = [reqs EXCEPT ![r] = n]
  BY <1>1, ZenonT(30) DEF Ends, Leaving
<1>3. q.pc \in Paired /\ <<q.p, q.d>> \in Links
  BY <1>1, ZenonT(30) DEF Fair, Paired
<1> HIDE DEF n
<1>4. /\ n \in Locals /\ n.pc = "leave" /\ n.p = q.p /\ n.d = q.d
      /\ n.exP = q.exP /\ n.exD = q.exD /\ n.try = q.try /\ n.late = q.late
      /\ n.failedBy = q.failedBy \cup Faulty(n, n.fate)
  <2>1. n = Leaving(q, fate)
    BY ZenonT(30) DEF n
  <2> HIDE DEF q
  <2> QED
    BY <1>1, <1>3, <2>1, Left
<1>5. Fair(n)
  BY <1>1, <1>3, <1>4, ZenonT(30) DEF Fair, Paired, Ending, Calling
<1>6. Behind(n, prefilling[r])
  BY <1>1, <1>4, ZenonT(30) DEF Behind, Linked, Ending, Calling
<1>7. Slots(n) = Slots(q) /\ Link(n) = Link(q)
  BY <1>4 DEF Slots, Link, Linked, Ending, Calling
<1> QED
  BY <1>1, <1>2, <1>4, <1>5, <1>6, <1>7, QuietKeeps, ZenonT(30)

\* The join times out: the attempt goes on and its goroutine is left behind.
LEMMA JoinTimeoutKeeps ==
    ASSUME IInv, NEW r \in Requests, JoinTimeout(r)
    PROVE  Keeps
<1> DEFINE q == reqs[r]
           n == [q EXCEPT !.pc = "release", !.late = TRUE]
<1>1. q \in Locals /\ Fair(q) /\ Behind(q, prefilling[r]) /\ q.pc = "join"
      /\ reqs \in [Requests -> Locals] /\ bound \in Prefills \cup {None}
  BY Mine DEF JoinTimeout, At
<1>2. /\ reqs' = [reqs EXCEPT ![r] = n] /\ bound' = bound
      /\ inflight' = inflight /\ prefilling' = prefilling /\ linked' = linked
  BY <1>1, ZenonT(30) DEF JoinTimeout, KeepSlots
<1>3. /\ n \in Locals /\ n.pc = "release" /\ n.p = q.p /\ n.d = q.d
      /\ n.exP = q.exP /\ n.exD = q.exD /\ n.try = q.try /\ n.late
      /\ n.failedBy = q.failedBy /\ n.fate = q.fate
  BY <1>1, ZenonT(30) DEF Locals, Pcs, Calling
<1> HIDE DEF n
<1>4. Fair(n) /\ Slots(n) = Slots(q) /\ Link(n) = Link(q)
  BY <1>1, <1>3, ZenonT(30) DEF Fair, Slots, Link, Paired, Linked, Ending, Calling, Faulty
<1>5. Behind(n, prefilling[r])
  BY <1>1, <1>3 DEF Behind, Linked, Ending, Calling
<1> QED
  BY <1>1, <1>2, <1>3, <1>4, <1>5, QuietKeeps, ZenonT(30)

\* The context of the client is cancelled.
LEMMA ClientLeavesKeeps ==
    ASSUME IInv, NEW r \in Requests, ClientLeaves(r)
    PROVE  Keeps
<1> DEFINE q == reqs[r]
           n == [q EXCEPT !.gone = TRUE]
<1>1. q \in Locals /\ Fair(q) /\ Behind(q, prefilling[r])
      /\ reqs \in [Requests -> Locals] /\ bound \in Prefills \cup {None}
  BY Mine
<1>2. /\ reqs' = [reqs EXCEPT ![r] = n] /\ bound' = bound
      /\ inflight' = inflight /\ prefilling' = prefilling /\ linked' = linked
  BY <1>1 DEF ClientLeaves, KeepSlots
<1>3. n \in Locals /\ n.pc = q.pc /\ Same(q, n)
  BY <1>1, ZenonT(30) DEF Locals, Same
<1> HIDE DEF n
<1>4. Fair(n) /\ Slots(n) = Slots(q) /\ Link(n) = Link(q) /\ Behind(n, prefilling[r])
  BY <1>1, <1>3 DEF Fair, Slots, Link, Behind, Same, Faulty
<1> QED
  BY <1>1, <1>2, <1>3, <1>4, QuietKeeps, ZenonT(30) DEF Same

-----------------------------------------------------------------------------
(* The steps of a request that take or give back.                          *)

\* A request that was turned away excludes who had no slot for it.
LEMMA Refused ==
    ASSUME NEW q \in Locals, <<q.p, q.d>> \in Links, NEW side \in {"prefill", "decode"},
           q.failedBy = q.exP \cup q.exD, NEW g, Behind(q, g), q.pc \in {"acquire", "pair"},
           NEW n, n = Excluding(TurnedAway(q, side), side)
    PROVE  n \in Locals /\ Fair(n) /\ Behind(n, g) /\ Slots(n) = {} /\ Link(n) = {}
<1> DEFINE x == TurnedAway(q, side)
<1>1. q.p \in Prefills /\ q.d \in Decodes
  BY PDAssumption
<1>2. Faulty(q, side) \subseteq Members
  BY <1>1 DEF Faulty, Members
<1>3. /\ x \in Locals /\ x.p = q.p /\ x.d = q.d /\ x.exP = q.exP /\ x.exD = q.exD
      /\ x.try = q.try /\ x.late = q.late /\ x.failedBy = q.failedBy \cup Faulty(q, side)
  BY <1>2 DEF TurnedAway, Locals
<1> HIDE DEF x
<1>4. x.failedBy = x.exP \cup x.exD \cup Faulty(x, side)
  BY <1>3 DEF Faulty
<1>5. n = Excluding(x, side)
  BY DEF x
<1>6. /\ n \in Locals /\ n.late = q.late /\ Fair(n)
      /\ n.pc = "answered" \/ (n.pc = "pick" /\ n.try = q.try + 1)
  BY <1>3, <1>4, <1>5, Excluded
<1>7. Behind(n, g)
  BY <1>6 DEF Behind, Linked, Ending, Calling, Locals
<1> QED
  BY <1>6, <1>7 DEF Slots, Link, Linked, Ending, Calling

\* tryPDPair takes the prefill's slot, or excludes the prefill.
LEMMA AcquirePrefillKeeps ==
    ASSUME IInv, NEW r \in Requests, AcquirePrefill(r)
    PROVE  Keeps
<1> DEFINE q == reqs[r]
<1>1. q \in Locals /\ Fair(q) /\ Behind(q, prefilling[r]) /\ q.pc = "acquire"
      /\ reqs \in [Requests -> Locals] /\ bound \in Prefills \cup {None}
  BY Mine DEF AcquirePrefill, At
<1>2. /\ <<q.p, q.d>> \in Links /\ q.p \in Prefills /\ q.d \in Decodes
      /\ q.failedBy = q.exP \cup q.exD
  BY <1>1, PDAssumption DEF Fair, Paired, Ending, Calling
<1>3. bound' = bound /\ prefilling' = prefilling /\ linked' = linked
  BY DEF AcquirePrefill
<1>4. Slots(q) = {} /\ Link(q) = {}
  BY <1>1 DEF Slots, Link, Linked, Ending, Calling
<1>5. CASE HasRoom(q.p)
  <2> DEFINE n == [q EXCEPT !.pc = "pair"]
  <2>1. reqs' = [reqs EXCEPT ![r] = n]
    BY <1>1, <1>5 DEF AcquirePrefill, Moves
  <2>2. inflight' = [inflight EXCEPT ![q.p] = inflight[q.p] + 1]
    BY <1>5 DEF AcquirePrefill
  <2>3. n \in Locals /\ n.pc = "pair" /\ Same(q, n)
    BY <1>1, Moved DEF Pcs
  <2> HIDE DEF n
  <2>4. Fair(n) /\ Behind(n, prefilling[r]) /\ Slots(n) = {q.p} /\ Link(n) = {}
    BY <1>1, <2>3 DEF Fair, Behind, Slots, Link, Same, Paired, Linked, Ending, Calling, Faulty
  <2>5. q.p \in Members
    BY <1>2 DEF Members
  <2>6. Slots(n) = Slots(q) \cup {q.p} /\ q.p \notin Slots(q) /\ Link(n) = Link(q)
    BY <1>4, <2>4
  <2>7. /\ inflight' \in [Backends -> Nat]
        /\ \A b \in Members :
              inflight'[b] = Cardinality(Holders(b)') + Cardinality(Runners(b)')
    BY <1>3, <2>1, <2>2, <2>3, <2>5, <2>6, SlotTaken, ZenonT(30)
  <2>8. IInv'
    BY <1>3, <2>1, <2>3, <2>4, <2>6, <2>7, OneSlotKeeps, ZenonT(30)
  <2>9. q.try \in 0 .. Attempts /\ prefilling[r][q.try] = None /\ n.try = q.try /\ q.try # 0
    BY <1>1, <2>3, PDAssumption DEF Locals, Same, Behind, Linked, Ending, Calling
  <2>10. None \notin Backends /\ q.p \notin Decodes
    BY <1>2, PDAssumption
  <2>11. ASSUME NEW j \in 0 .. Attempts, NEW b \in Backends
         PROVE  Part(q, prefilling[r], j, b) <=> Owned(Slots(q), q.try, prefilling[r], j, b)
    BY <1>1, PartIs, ZenonT(30)
  <2>12. ASSUME NEW j \in 0 .. Attempts, NEW b \in Backends
         PROVE  Part(n, prefilling[r], j, b) <=> Owned(Slots(n), n.try, prefilling[r], j, b)
    BY <2>3, PartIs, ZenonT(30)
  <2>13. \A b \in Backends : ~ Part(q, prefilling[r], q.try, b)
    BY <1>4, <2>9, <2>10, <2>11, ZenonT(30) DEF Owned
  <2>14. ASSUME NEW j \in 0 .. Attempts, NEW b \in Backends
         PROVE  Part(n, prefilling[r], j, b) <=>
                    Part(q, prefilling[r], j, b) \/ (j = q.try /\ b = q.p)
    <3>1. Owned(Slots(n), n.try, prefilling[r], j, b) <=>
              Owned(Slots(q), q.try, prefilling[r], j, b) \/ (j = q.try /\ b = q.p)
      BY <1>2, <1>4, <2>4, <2>9, <2>10 DEF Owned
    <3> QED
      BY <2>11, <2>12, <3>1, ZenonT(30)
  <2>15. prefilling'[r] = prefilling[r] /\ \A x \in Requests \ {r} : prefilling'[x] = prefilling[x]
    BY <1>3
  <2>16. Gains(q, prefilling[r], n, prefilling'[r], q.try, q.p)
    BY <2>13, <2>14, <2>15, ZenonT(30) DEF Gains
  <2>17. PoolStep
    BY <1>5, <2>1, <2>3, <2>5, <2>9, <2>15, <2>16, PartTaken, ZenonT(30)
  <2> QED
    BY <2>8, <2>17 DEF Keeps
<1>6. CASE ~ HasRoom(q.p)
  <2> DEFINE n == Excluding(TurnedAway(q, "prefill"), "prefill")
  <2>1. reqs' = [reqs EXCEPT ![r] = n] /\ inflight' = inflight
    BY <1>6, ZenonT(30) DEF AcquirePrefill
  <2>2. n \in Locals /\ Fair(n) /\ Behind(n, prefilling[r]) /\ Slots(n) = {} /\ Link(n) = {}
    BY <1>1, <1>2, Refused
  <2> HIDE DEF n
  <2> QED
    BY <1>1, <1>3, <1>4, <2>1, <2>2, QuietKeeps, ZenonT(30)
<1> QED
  BY <1>5, <1>6, ZenonT(30)

\* An attempt ends: it gives the prefill's slot back unless its goroutine owns it.
LEMMA LeaveKeeps ==
    ASSUME IInv, NEW r \in Requests, Leave(r)
    PROVE  Keeps
<1> DEFINE q == reqs[r]
<1>1. q \in Locals /\ Fair(q) /\ Behind(q, prefilling[r]) /\ q.pc = "leave"
      /\ reqs \in [Requests -> Locals] /\ bound \in Prefills \cup {None}
  BY Mine DEF Leave, At
<1>2. <<q.p, q.d>> \in Links /\ q.p \in Prefills /\ q.d \in Decodes
  BY <1>1, PDAssumption DEF Fair, Paired, Ending
<1>3. bound' = bound /\ prefilling' = prefilling /\ linked' = linked
  BY DEF Leave
<1>4. CASE HandedOff(q)
  <2> DEFINE n == [q EXCEPT !.pc = "join"]
  <2>1. reqs' = [reqs EXCEPT ![r] = n] /\ inflight' = inflight
    BY <1>1, <1>4 DEF Leave, Moves
  <2>2. n \in Locals /\ n.pc = "join" /\ Same(q, n)
    BY <1>1, Moved DEF Pcs
  <2> HIDE DEF n
  <2>3. Fair(n) /\ Behind(n, prefilling[r])
    BY <1>1, <2>2 DEF Fair, Behind, Same, Paired, Linked, Ending, Calling, Faulty
  <2>4. Slots(n) = Slots(q) /\ Link(n) = Link(q)
    BY <1>1, <1>4, <2>2 DEF Slots, Link, Same, Linked, Ending, Calling, HandedOff
  <2> QED
    BY <1>1, <1>3, <2>1, <2>2, <2>3, <2>4, QuietKeeps, ZenonT(30) DEF Same
<1>5. CASE ~ HandedOff(q)
  <2> DEFINE n == [q EXCEPT !.pc = "release"]
  <2>1. /\ reqs' = [reqs EXCEPT ![r] = n]
        /\ inflight' = [inflight EXCEPT ![q.p] = inflight[q.p] - 1]
    BY <1>1, <1>5 DEF Leave, Moves
  <2>2. n \in Locals /\ n.pc = "release" /\ Same(q, n)
    BY <1>1, Moved DEF Pcs
  <2> HIDE DEF n
  <2>3. Fair(n)
    BY <1>1, <2>2, ZenonT(30) DEF Fair, Same, Paired, Ending, Calling, Faulty
  <2>4. Behind(n, prefilling[r])
    BY <1>1, <1>5, <2>2, ZenonT(30) DEF Behind, Same, Linked, Ending, Calling, HandedOff
  <2>5. Slots(q) = {q.p, q.d} /\ Slots(n) = {q.d} /\ Link(n) = Link(q)
    BY <1>1, <1>5, <2>2, ZenonT(30) DEF Slots, Link, Same, Linked, Ending, Calling, HandedOff
  <2>6. q.p \in Members /\ q.p # q.d
    BY <1>2, PDAssumption, ZenonT(30) DEF Members
  <2>7. Slots(n) = Slots(q) \ {q.p} /\ q.p \in Slots(q)
    BY <2>5, <2>6
  <2>8. /\ inflight' \in [Backends -> Nat]
        /\ \A b \in Members :
              inflight'[b] = Cardinality(Holders(b)') + Cardinality(Runners(b)')
    BY <1>3, <2>1, <2>2, <2>6, <2>7, SlotGiven, ZenonT(30)
  <2>9. IInv'
    BY <1>3, <2>1, <2>2, <2>3, <2>4, <2>5, <2>8, OneSlotKeeps, ZenonT(30)
  <2>10. q.try \in 0 .. Attempts /\ prefilling[r][q.try] = None /\ n.try = q.try /\ q.try # 0
    BY <1>1, <1>5, <2>2, PDAssumption DEF Locals, Same, Behind, Linked, Ending, HandedOff
  <2>11. None \notin Backends /\ q.p \notin Decodes /\ q.d \notin Prefills /\ q.p \in Backends
    BY <1>2, PDAssumption
  <2>12. ASSUME NEW j \in 0 .. Attempts, NEW b \in Backends
         PROVE  Part(q, prefilling[r], j, b) <=> Owned(Slots(q), q.try, prefilling[r], j, b)
    BY <1>1, PartIs, ZenonT(30)
  <2>13. ASSUME NEW j \in 0 .. Attempts, NEW b \in Backends
         PROVE  Part(n, prefilling[r], j, b) <=> Owned(Slots(n), n.try, prefilling[r], j, b)
    BY <2>2, PartIs, ZenonT(30)
  <2>14. Part(q, prefilling[r], q.try, q.p)
    BY <1>2, <2>5, <2>10, <2>11, <2>12, ZenonT(30) DEF Owned
  <2>15. ASSUME NEW j \in 0 .. Attempts, NEW b \in Backends
         PROVE  Part(n, prefilling[r], j, b) <=>
                    Part(q, prefilling[r], j, b) /\ ~ (j = q.try /\ b = q.p)
    <3>1. Owned(Slots(n), n.try, prefilling[r], j, b) <=>
              Owned(Slots(q), q.try, prefilling[r], j, b) /\ ~ (j = q.try /\ b = q.p)
      BY <1>2, <2>5, <2>10, <2>11 DEF Owned
    <3> QED
      BY <2>12, <2>13, <3>1, ZenonT(30)
  <2>16. prefilling'[r] = prefilling[r] /\ \A x \in Requests \ {r} : prefilling'[x] = prefilling[x]
    BY <1>3
  <2>17. Loses(q, prefilling[r], n, prefilling'[r], q.try, q.p)
    BY <2>14, <2>15, <2>16, ZenonT(30) DEF Loses
  <2>18. PoolStep
    BY <2>1, <2>2, <2>6, <2>10, <2>16, <2>17, PartGivenBack, ZenonT(30)
  <2> QED
    BY <2>9, <2>18 DEF Keeps
<1> QED
  BY <1>4, <1>5, ZenonT(30)

\* The deferred releases: the decode's slot and the link go back.
LEMMA ReleaseKeeps ==
    ASSUME IInv, NEW r \in Requests, Release(r)
    PROVE  Keeps
<1> DEFINE q == reqs[r]
           n == IF q.fate \in {"served", "aborted"} THEN Answered(q) ELSE Excluding(q, q.fate)
<1>1. q \in Locals /\ Fair(q) /\ Behind(q, prefilling[r]) /\ q.pc = "release"
      /\ reqs \in [Requests -> Locals] /\ bound \in Prefills \cup {None}
  BY Mine, ZenonT(30) DEF Release, At
<1>2. /\ <<q.p, q.d>> \in Links /\ q.p \in Prefills /\ q.d \in Decodes
      /\ q.failedBy = q.exP \cup q.exD \cup Faulty(q, q.fate)
  BY <1>1, PDAssumption, ZenonT(30) DEF Fair, Paired, Ending
<1>3. /\ prefilling' = prefilling /\ reqs' = [reqs EXCEPT ![r] = n]
      /\ inflight' = [inflight EXCEPT ![q.d] = inflight[q.d] - 1]
      /\ linked' = [linked EXCEPT ![<<q.p, q.d>>] = linked[<<q.p, q.d>>] - 1]
      /\ bound' \in Prefills \cup {None}
  BY <1>1, <1>2 DEF Release
<1>4. /\ n \in Locals /\ n.late = q.late /\ Fair(n)
      /\ n.pc = "answered" \/ (n.pc = "pick" /\ n.try = q.try + 1)
  <2>1. CASE q.fate \in {"served", "aborted"}
    <3>1. n \in Locals /\ n.pc = "answered" /\ n.late = q.late
      BY <1>1, <2>1, Returned, ZenonT(30)
    <3> HIDE DEF n
    <3> QED
      BY <3>1 DEF Fair, Paired, Ending, Calling
  <2>2. CASE q.fate \notin {"served", "aborted"}
    <3>1. q.fate \in {"prefill", "decode"}
      BY <1>1, <2>2, ZenonT(30) DEF Locals
    <3> QED
      BY <1>1, <1>2, <2>2, <3>1, Excluded, ZenonT(30)
  <2> QED
    BY <2>1, <2>2, ZenonT(30)
<1> HIDE DEF n
<1>5. Behind(n, prefilling[r])
  <2>1. q.try \in Nat /\ \A i \in 1 .. Attempts : i \in Nat
    BY <1>1, PDAssumption DEF Locals
  <2>2. \A i \in 1 .. Attempts : prefilling[r][i] # None => i <= q.try /\ q.late
    BY <1>1, <2>1 DEF Behind, Linked, Ending, Calling
  <2>3. CASE n.pc = "answered"
    BY <1>4, <2>2, <2>3, ZenonT(30) DEF Behind, Linked, Ending, Calling
  <2>4. CASE n.pc = "pick" /\ n.try = q.try + 1
    BY <1>4, <2>1, <2>2, <2>4 DEF Behind, Linked, Ending, Calling
  <2> QED
    BY <1>4, <2>3, <2>4, ZenonT(30)
<1>6. Slots(n) = {} /\ Link(n) = {}
  BY <1>4 DEF Slots, Link, Linked, Ending, Calling
<1>7. Slots(q) = {q.d} /\ Link(q) = {<<q.p, q.d>>}
  BY <1>1 DEF Slots, Link, Linked, Ending, Calling
<1>8. q.d \in Members /\ q.d \in Slots(q) /\ Slots(n) = Slots(q) \ {q.d}
  BY <1>2, <1>6, <1>7 DEF Members
<1>9. /\ inflight' \in [Backends -> Nat]
      /\ \A b \in Members :
            inflight'[b] = Cardinality(Holders(b)') + Cardinality(Runners(b)')
  BY <1>3, <1>4, <1>8, SlotGiven, ZenonT(30)
<1>10. linked' \in [Links -> Nat] /\ \A l \in Links : linked'[l] = Cardinality(Users(l)')
  BY <1>2, <1>3, <1>4, <1>6, <1>7, LinkGiven, ZenonT(30)
<1>11. Counted'
  BY <1>9, <1>10, ZenonT(30) DEF Counted
<1>12. IInv'
  BY <1>3, <1>4, <1>5, <1>9, <1>10, <1>11, Reassembled, ZenonT(30) DEF IInv, TypeOK
<1>13. 0 \in 0 .. Attempts /\ ~ (0 > 0)
  BY PDAssumption
<1>14. q.d \notin Prefills /\ q.d \in Backends /\ None \notin Backends
       /\ \A j \in 0 .. Attempts : j > 0 => j # 0
  BY <1>2, PDAssumption
<1>15. ASSUME NEW j \in 0 .. Attempts, NEW b \in Backends
       PROVE  Part(q, prefilling[r], j, b) <=> Owned(Slots(q), q.try, prefilling[r], j, b)
  BY <1>1, PartIs, ZenonT(30)
<1>16. ASSUME NEW j \in 0 .. Attempts, NEW b \in Backends
       PROVE  Part(n, prefilling[r], j, b) <=> Owned(Slots(n), n.try, prefilling[r], j, b)
  BY <1>4, PartIs, ZenonT(30)
<1>17. Part(q, prefilling[r], 0, q.d)
  BY <1>2, <1>7, <1>13, <1>14, <1>15, ZenonT(30) DEF Owned
<1>18. ASSUME NEW j \in 0 .. Attempts, NEW b \in Backends
       PROVE  Part(n, prefilling[r], j, b) <=>
                  Part(q, prefilling[r], j, b) /\ ~ (j = 0 /\ b = q.d)
  <2>1. Owned(Slots(n), n.try, prefilling[r], j, b) <=>
            Owned(Slots(q), q.try, prefilling[r], j, b) /\ ~ (j = 0 /\ b = q.d)
    BY <1>2, <1>6, <1>7, <1>14 DEF Owned
  <2> QED
    BY <1>15, <1>16, <2>1, ZenonT(30)
<1>19. prefilling'[r] = prefilling[r] /\ \A x \in Requests \ {r} : prefilling'[x] = prefilling[x]
  BY <1>3
<1>20. Loses(q, prefilling[r], n, prefilling'[r], 0, q.d)
  BY <1>17, <1>18, <1>19, ZenonT(30) DEF Loses
<1>21. PoolStep
  BY <1>3, <1>4, <1>8, <1>13, <1>19, <1>20, PartGivenBack, ZenonT(30)
<1> QED
  BY <1>12, <1>21 DEF Keeps

\* The goroutine of an attempt ends, and the prefill has its slot back.
LEMMA PrefillEndsKeeps ==
    ASSUME IInv, NEW r \in Requests, NEW i \in 1 .. Attempts, PrefillEnds(r, i)
    PROVE  Keeps
<1> DEFINE q == reqs[r]
<1>1. q \in Locals /\ Fair(q) /\ Behind(q, prefilling[r])
      /\ reqs \in [Requests -> Locals] /\ bound \in Prefills \cup {None}
  BY Mine
<1>2. PICK p : p = prefilling[r][i]
  OBVIOUS
<1>3. p \in Prefills /\ p # None
  BY <1>2, ZenonT(30) DEF IInv, TypeOK, PrefillEnds
<1>4. /\ inflight' = [inflight EXCEPT ![p] = inflight[p] - 1]
      /\ reqs' = reqs /\ linked' = linked /\ bound' = bound
      /\ prefilling' = [prefilling EXCEPT ![r] = [prefilling[r] EXCEPT ![i] = None]]
  BY <1>2 DEF PrefillEnds
<1>5. reqs' = [reqs EXCEPT ![r] = q]
  BY <1>1, <1>4
<1>6. PICK h : h = [prefilling[r] EXCEPT ![i] = None]
  BY ZenonT(30)
<1>7. /\ h \in [1 .. Attempts -> Prefills \cup {None}] /\ h[i] = None
      /\ \A j \in (1 .. Attempts) \ {i} : h[j] = prefilling[r][j]
  BY <1>6, ZenonT(30) DEF IInv, TypeOK
<1>8. prefilling' = [prefilling EXCEPT ![r] = h]
  BY <1>4, <1>6, ZenonT(30)
<1>9. /\ prefilling' \in [Requests -> [1 .. Attempts -> Prefills \cup {None}]]
      /\ \A x \in Requests \ {r} : prefilling'[x] = prefilling[x]
      /\ prefilling'[r] = h
      /\ \A b : b # None /\ b # p => Runners(b)' = Runners(b)
      /\ Cardinality(Runners(p)') = Cardinality(Runners(p)) - 1
      /\ Cardinality(Runners(p)') \in Nat
  <2>1. /\ prefilling' \in [Requests -> [1 .. Attempts -> Prefills \cup {None}]]
        /\ \A x \in Requests \ {r} : prefilling'[x] = prefilling[x]
        /\ prefilling'[r] = h
    BY <1>7, <1>8, GoroutineMove, ZenonT(30)
  <2>2. p # h[i] /\ p = prefilling[r][i]
    BY <1>2, <1>3, <1>7, ZenonT(30)
  <2>3. /\ Cardinality(Runners(p)') = Cardinality(Runners(p)) - 1
        /\ Cardinality(Runners(p)') \in Nat
    <3>1. p # h[i] /\ p = prefilling[r][i] =>
             Cardinality(Runners(p)') = Cardinality(Runners(p)) - 1
      BY <1>7, <1>8, RunnersMove, ZenonT(30)
    <3>2. Cardinality(Runners(p)') \in Nat
      BY RunnersLater
    <3> QED
      BY <2>2, <3>1, <3>2
  <2>4. ASSUME NEW b, b # None, b # p PROVE Runners(b)' = Runners(b)
    <3>1. b # h[i] /\ b # prefilling[r][i]
      BY <1>7, <2>2, <2>4, ZenonT(30)
    <3> QED
      BY <1>7, <1>8, <3>1, RunnersMove, ZenonT(30)
  <2> QED
    BY <2>1, <2>3, <2>4
<1>10. Behind(q, prefilling'[r])
  <2>1. prefilling[r] \in [1 .. Attempts -> Prefills \cup {None}]
    BY ZenonT(30) DEF IInv, TypeOK
  <2>2. \A j \in 1 .. Attempts : prefilling'[r][j] # None => prefilling[r][j] # None
    BY <1>7, <1>9, <2>1, ZenonT(30)
  <2> QED
    BY <1>1, <2>2, ZenonT(30) DEF Behind
<1>11. \A b : Holders(b)' = Holders(b)
  BY <1>4 DEF Holders, Slots
<1>12. \A l : Users(l)' = Users(l)
  BY <1>4 DEF Users, Link
<1>13. /\ inflight \in [Backends -> Nat] /\ p \in Members /\ None \notin Members
       /\ Members \subseteq Backends
  BY <1>3, PDAssumption, ZenonT(30) DEF IInv, TypeOK, Members
<1>14. inflight[p] = Cardinality(Holders(p)) + Cardinality(Runners(p))
  BY <1>13, ZenonT(30) DEF IInv, Counted
<1>15. /\ Cardinality(Holders(p)) \in Nat /\ Cardinality(Runners(p)') \in Nat
       /\ Cardinality(Runners(p)) \in Nat
  BY <1>9, Sets, ZenonT(30)
<1>16. inflight[p] - 1 = Cardinality(Holders(p)) + Cardinality(Runners(p)')
  BY <1>9, <1>14, <1>15
<1>17. inflight[p] - 1 \in Nat
  BY <1>15, <1>16
<1>18. inflight' \in [Backends -> Nat]
  BY <1>4, <1>13, <1>17, ZenonT(30)
<1>19. ASSUME NEW b \in Members
       PROVE  inflight'[b] = Cardinality(Holders(b)') + Cardinality(Runners(b)')
  <2>1. CASE b = p
    BY <1>4, <1>11, <1>13, <1>16, <2>1, ZenonT(30)
  <2>2. CASE b # p
    <3>1. inflight'[b] = inflight[b] /\ Runners(b)' = Runners(b)
      BY <1>4, <1>9, <1>13, <2>2, ZenonT(30)
    <3> QED
      BY <1>11, <3>1, ZenonT(30) DEF IInv, Counted
  <2> QED
    BY <2>1, <2>2
<1>20. Counted'
  BY <1>4, <1>12, <1>19 DEF IInv, Counted
<1>21. IInv'
  BY <1>1, <1>4, <1>5, <1>9, <1>10, <1>18, <1>20, Reassembled, ZenonT(30) DEF IInv, TypeOK
<1>22. i \in 0 .. Attempts /\ i > 0 /\ i # 0 /\ None \notin Backends /\ p \notin Decodes
  BY <1>3, PDAssumption
<1>23. i = q.try => p \notin Slots(q)
  <2>1. i = q.try => q.pc = "answered" \/ (q.pc \in Linked /\ q.p \in Sglang)
    BY <1>1, <1>2, <1>3 DEF Behind, Locals
  <2>2. q.d \in Decodes \cup {None}
    BY <1>1, ZenonT(30) DEF Locals
  <2> QED
    BY <1>3, <1>22, <2>1, <2>2 DEF Slots, Linked, Ending, Calling
<1>24. Loses(q, prefilling[r], q, h, i, p)
  <2>1. ASSUME NEW j \in 0 .. Attempts, NEW b \in Backends
        PROVE  /\ Part(q, prefilling[r], j, b) <=> Owned(Slots(q), q.try, prefilling[r], j, b)
               /\ Part(q, h, j, b) <=> Owned(Slots(q), q.try, h, j, b)
    BY <1>1, PartIs, ZenonT(30)
  <2>2. Part(q, prefilling[r], i, p)
    <3>1. p \in Backends
      BY <1>13
    <3> QED
      BY <1>2, <1>22, <2>1, <3>1, ZenonT(30) DEF Owned
  <2>3. ASSUME NEW j \in 0 .. Attempts, NEW b \in Backends
        PROVE  Owned(Slots(q), q.try, h, j, b) <=>
                   Owned(Slots(q), q.try, prefilling[r], j, b) /\ ~ (j = i /\ b = p)
    <3>1. CASE j = i
      BY <1>2, <1>7, <1>22, <1>23, <3>1, ZenonT(30) DEF Owned
    <3>2. CASE j # i
      <4>1. j > 0 => h[j] = prefilling[r][j]
        BY <1>7, <3>2
      <4> QED
        BY <3>2, <4>1, ZenonT(30) DEF Owned
    <3> QED
      BY <3>1, <3>2
  <2> QED
    BY <2>1, <2>2, <2>3, ZenonT(30) DEF Loses
<1>25. PoolStep
  BY <1>1, <1>5, <1>9, <1>13, <1>22, <1>24, PartGivenBack, ZenonT(30)
<1> QED
  BY <1>21, <1>25 DEF Keeps

\* The attempt has a pair, and an sglang prefill call begins in the goroutine that takes
\* the prefill's slot over.
LEMMA HandOverKeeps ==
    ASSUME IInv, NEW r \in Requests, AcquireDecode(r), HasRoom(reqs[r].d),
           reqs[r].p \in Sglang
    PROVE  Keeps
<1> DEFINE q == reqs[r]
<1>1. q \in Locals /\ Fair(q) /\ Behind(q, prefilling[r]) /\ q.pc = "pair"
      /\ reqs \in [Requests -> Locals] /\ bound \in Prefills \cup {None}
  BY Mine DEF AcquireDecode, At
<1>2. PICK p, d, i : p = q.p /\ d = q.d /\ i = q.try
  BY ZenonT(30)
<1>3. <<p, d>> \in Links /\ p \in Prefills /\ d \in Decodes /\ i \in 1 .. Attempts
  <2>1. <<p, d>> \in Links
    BY <1>1, <1>2 DEF Fair, Paired
  <2> QED
    BY <1>1, <1>2, <2>1, PDAssumption, ZenonT(30) DEF Locals
<1>4. /\ p # d /\ p # None /\ d # None /\ {p, d} \subseteq Members /\ Members \subseteq Backends
  BY <1>3, PDAssumption DEF Members
<1>5. PICK n : n = [q EXCEPT !.pc = "decode"]
  BY ZenonT(30)
<1>6. PICK h : h = [prefilling[r] EXCEPT ![i] = p]
  BY ZenonT(30)
<1>7. /\ inflight' = [inflight EXCEPT ![d] = inflight[d] + 1]
      /\ linked' = [linked EXCEPT ![<<p, d>>] = linked[<<p, d>>] + 1]
      /\ reqs' = [reqs EXCEPT ![r] = n] /\ prefilling' = [prefilling EXCEPT ![r] = h]
      /\ bound' = bound
  BY <1>1, <1>2, <1>5, <1>6 DEF AcquireDecode, Moves
<1>8. n \in Locals /\ n.pc = "decode" /\ Same(q, n)
  BY <1>1, <1>5, Moved DEF Pcs, Calling
<1>9. /\ h \in [1 .. Attempts -> Prefills \cup {None}] /\ h[i] = p
      /\ \A j \in (1 .. Attempts) \ {i} : h[j] = prefilling[r][j]
  BY <1>3, <1>6, ZenonT(30) DEF IInv, TypeOK
<1>10. prefilling[r][i] = None
  BY <1>1, <1>2, <1>3 DEF Behind, Linked, Ending, Calling
<1>11. /\ prefilling' \in [Requests -> [1 .. Attempts -> Prefills \cup {None}]]
       /\ \A x \in Requests \ {r} : prefilling'[x] = prefilling[x]
       /\ prefilling'[r] = h
  BY <1>7, <1>9, GoroutineMove, ZenonT(30)
<1>12. Fair(n)
  BY <1>1, <1>8, ZenonT(30) DEF Fair, Same, Paired, Ending, Calling, Faulty
<1>13. Behind(n, h)
  <2>1. ASSUME NEW j \in 1 .. Attempts, h[j] # None
        PROVE  /\ j < n.try \/ n.pc = "answered" \/ (j = n.try /\ n.pc \in Linked)
               /\ n.late \/ (j = n.try /\ n.pc \in {"decode", "stream", "leave", "join"})
               /\ j = n.try /\ n.pc \in Linked => n.p \in Sglang
    <3>1. CASE j = i
      BY <1>2, <1>8, <3>1, ZenonT(30) DEF Same, Linked, Calling
    <3>2. CASE j # i
      <4>1. prefilling[r][j] # None
        BY <1>9, <2>1, <3>2, ZenonT(30)
      <4>2. j < q.try /\ q.late
        BY <1>1, <4>1, ZenonT(30) DEF Behind, Linked, Ending, Calling
      <4> QED
        BY <1>2, <1>8, <3>2, <4>2, ZenonT(30) DEF Same
    <3> QED
      BY <3>1, <3>2, ZenonT(30)
  <2> QED
    BY <2>1, ZenonT(30) DEF Behind
<1>14. Slots(q) = {p} /\ Slots(n) = {d} /\ Link(q) = {} /\ Link(n) = {<<p, d>>}
  BY <1>1, <1>2, <1>8 DEF Slots, Link, Same, Linked, Ending, Calling
<1>15. linked' \in [Links -> Nat] /\ \A l \in Links : linked'[l] = Cardinality(Users(l)')
  BY <1>3, <1>7, <1>8, <1>14, LinkTaken, ZenonT(30)
<1>16. inflight \in [Backends -> Nat]
  BY DEF IInv, TypeOK
<1>17. inflight' \in [Backends -> Nat]
  BY <1>4, <1>7, <1>16
<1>18. ASSUME NEW b \in Members
       PROVE  inflight'[b] = Cardinality(Holders(b)') + Cardinality(Runners(b)')
  <2>1. /\ inflight[b] = Cardinality(Holders(b)) + Cardinality(Runners(b))
        /\ Cardinality(Holders(b)) \in Nat /\ Cardinality(Runners(b)) \in Nat
    BY Sets, ZenonT(30) DEF IInv, Counted
  <2>2. CASE b = p
    <3>1. b \notin Slots(n) /\ b \in Slots(q)
      BY <1>4, <1>14, <2>2
    <3>2. Cardinality(Holders(b)') = Cardinality(Holders(b)) - 1
      BY <1>7, <1>8, <3>1, HoldersMove, ZenonT(30)
    <3>3. b = h[i] /\ b # prefilling[r][i]
      BY <1>4, <1>9, <1>10, <2>2
    <3>4. Cardinality(Runners(b)') = Cardinality(Runners(b)) + 1
      BY <1>3, <1>7, <1>9, <3>3, RunnersMove, ZenonT(30)
    <3>5. inflight'[b] = inflight[b]
      BY <1>4, <1>7, <1>16, <2>2, ZenonT(30)
    <3> QED
      BY <2>1, <3>2, <3>4, <3>5
  <2>3. CASE b = d
    <3>1. b \in Slots(n) /\ b \notin Slots(q)
      BY <1>4, <1>14, <2>3
    <3>2. Cardinality(Holders(b)') = Cardinality(Holders(b)) + 1
      BY <1>7, <1>8, <3>1, HoldersMove, ZenonT(30)
    <3>3. b # h[i] /\ b # prefilling[r][i]
      BY <1>4, <1>9, <1>10, <2>3, ZenonT(30)
    <3>4. Runners(b)' = Runners(b)
      BY <1>3, <1>7, <1>9, <3>3, RunnersMove, ZenonT(30)
    <3>5. inflight'[b] = inflight[b] + 1
      BY <1>4, <1>7, <1>16, <2>3
    <3> QED
      BY <2>1, <3>2, <3>4, <3>5
  <2>4. CASE b # p /\ b # d
    <3>1. b \notin Slots(n) /\ b \notin Slots(q) /\ b # None
      BY <1>14, <2>4, PDAssumption DEF Members
    <3>2. Holders(b)' = Holders(b)
      BY <1>7, <1>8, <3>1, HoldersMove, ZenonT(30)
    <3>3. b # h[i] /\ b # prefilling[r][i]
      BY <1>9, <1>10, <2>4, <3>1, ZenonT(30)
    <3>4. Runners(b)' = Runners(b)
      BY <1>3, <1>7, <1>9, <3>3, RunnersMove, ZenonT(30)
    <3>5. inflight'[b] = inflight[b]
      BY <1>4, <1>7, <1>16, <2>4, ZenonT(30)
    <3> QED
      BY <2>1, <3>2, <3>4, <3>5, ZenonT(30)
  <2> QED
    BY <2>2, <2>3, <2>4
<1>19. Counted'
  BY <1>15, <1>18, ZenonT(30) DEF Counted
<1>20. Behind(n, prefilling'[r])
  BY <1>11, <1>13
<1>21. IInv'
  BY <1>1, <1>7, <1>8, <1>11, <1>12, <1>15, <1>17, <1>19, <1>20, Reassembled, ZenonT(30)
<1>22. /\ None \notin Backends /\ p \notin Decodes /\ d \notin Prefills /\ d \in Backends
       /\ 0 \in 0 .. Attempts /\ ~ (0 > 0) /\ i # 0 /\ i > 0
  BY <1>3, PDAssumption
<1>23. Gains(q, prefilling[r], n, h, 0, d)
  <2>1. ASSUME NEW j \in 0 .. Attempts, NEW b \in Backends
        PROVE  /\ Part(q, prefilling[r], j, b) <=> Owned({p}, i, prefilling[r], j, b)
               /\ Part(n, h, j, b) <=> Owned({d}, i, h, j, b)
    <3>1. n.try = i /\ q.try = i
      BY <1>2, <1>8 DEF Same
    <3>2. /\ Part(q, prefilling[r], j, b) <=> Owned(Slots(q), q.try, prefilling[r], j, b)
          /\ Part(n, h, j, b) <=> Owned(Slots(n), n.try, h, j, b)
      BY <1>1, <1>8, PartIs, ZenonT(30)
    <3> QED
      BY <1>14, <3>1, <3>2
  <2>2. \A b \in Backends : ~ Part(q, prefilling[r], 0, b)
    BY <1>22, <2>1, ZenonT(30) DEF Owned
  <2>3. ASSUME NEW j \in 0 .. Attempts, NEW b \in Backends
        PROVE  Owned({d}, i, h, j, b) <=>
                   Owned({p}, i, prefilling[r], j, b) \/ (j = 0 /\ b = d)
    <3>1. CASE j = i
      BY <1>3, <1>9, <1>10, <1>22, <3>1 DEF Owned
    <3>2. CASE j # i
      <4>1. j > 0 => h[j] = prefilling[r][j]
        BY <1>9, <3>2
      <4> QED
        BY <1>3, <1>22, <3>2, <4>1 DEF Owned
    <3> QED
      BY <3>1, <3>2
  <2> QED
    BY <2>1, <2>2, <2>3, ZenonT(30) DEF Gains
<1>24. d \in Members /\ HasRoom(d)
  BY <1>2, <1>4
<1>25. PoolStep
  BY <1>7, <1>8, <1>11, <1>22, <1>23, <1>24, PartTaken, ZenonT(30)
<1> QED
  BY <1>21, <1>25 DEF Keeps

\* tryPDPair takes the decode's slot and the link, or gives the prefill's slot back.
LEMMA AcquireDecodeKeeps ==
    ASSUME IInv, NEW r \in Requests, AcquireDecode(r)
    PROVE  Keeps
<1> DEFINE q == reqs[r]
<1>1. q \in Locals /\ Fair(q) /\ Behind(q, prefilling[r]) /\ q.pc = "pair"
      /\ reqs \in [Requests -> Locals] /\ bound \in Prefills \cup {None}
  BY Mine, ZenonT(30) DEF AcquireDecode, At
<1>2. /\ <<q.p, q.d>> \in Links /\ q.p \in Prefills /\ q.d \in Decodes
      /\ q.failedBy = q.exP \cup q.exD
  BY <1>1, PDAssumption, ZenonT(30) DEF Fair, Paired, Ending, Calling
<1>3. bound' = bound /\ q.p \in Members /\ q.d \in Members /\ q.p # q.d
  BY <1>2, PDAssumption, ZenonT(30) DEF AcquireDecode, Members
<1>4. Slots(q) = {q.p} /\ Link(q) = {}
  BY <1>1 DEF Slots, Link, Linked, Ending, Calling
<1>5. /\ None \notin Backends /\ q.p \notin Decodes /\ q.d \notin Prefills
      /\ q.p \in Backends /\ q.d \in Backends /\ 0 \in 0 .. Attempts /\ ~ (0 > 0) /\ q.try # 0
  BY <1>1, <1>2, PDAssumption DEF Locals
<1>6. CASE HasRoom(q.d) /\ q.p \in Sglang
  BY <1>6, HandOverKeeps
<1>7. CASE HasRoom(q.d) /\ q.p \notin Sglang
  <2> DEFINE n == [q EXCEPT !.pc = "prefill"]
  <2>1. /\ reqs' = [reqs EXCEPT ![r] = n] /\ prefilling' = prefilling
        /\ inflight' = [inflight EXCEPT ![q.d] = inflight[q.d] + 1]
        /\ linked' = [linked EXCEPT ![<<q.p, q.d>>] = linked[<<q.p, q.d>>] + 1]
    BY <1>1, <1>7 DEF AcquireDecode, Moves
  <2>2. n \in Locals /\ n.pc = "prefill" /\ Same(q, n)
    BY <1>1, Moved DEF Pcs, Calling
  <2> HIDE DEF n
  <2>3. Fair(n) /\ Behind(n, prefilling[r])
    BY <1>1, <2>2 DEF Fair, Behind, Same, Paired, Linked, Ending, Calling, Faulty
  <2>4. Slots(n) = {q.p, q.d} /\ Link(n) = {<<q.p, q.d>>}
    BY <1>7, <2>2, ZenonT(30) DEF Slots, Link, Same, Linked, Ending, Calling
  <2>5. Slots(n) = Slots(q) \cup {q.d} /\ q.d \notin Slots(q)
    BY <1>3, <1>4, <2>4
  <2>6. /\ inflight' \in [Backends -> Nat]
        /\ \A b \in Members :
              inflight'[b] = Cardinality(Holders(b)') + Cardinality(Runners(b)')
    BY <1>3, <2>1, <2>2, <2>5, SlotTaken, ZenonT(30)
  <2>7. linked' \in [Links -> Nat] /\ \A l \in Links : linked'[l] = Cardinality(Users(l)')
    BY <1>2, <1>4, <2>1, <2>2, <2>4, LinkTaken, ZenonT(30)
  <2>8. Counted'
    BY <2>6, <2>7 DEF Counted
  <2>9. IInv'
    BY <1>1, <1>3, <2>1, <2>2, <2>3, <2>6, <2>7, <2>8, Reassembled, ZenonT(30) DEF IInv, TypeOK
  <2>10. Gains(q, prefilling[r], n, prefilling[r], 0, q.d)
    <3>1. ASSUME NEW j \in 0 .. Attempts, NEW b \in Backends
          PROVE  /\ Part(q, prefilling[r], j, b) <=> Owned({q.p}, q.try, prefilling[r], j, b)
                 /\ Part(n, prefilling[r], j, b)
                       <=> Owned({q.p, q.d}, q.try, prefilling[r], j, b)
      <4>1. n.try = q.try
        BY <2>2 DEF Same
      <4>2. /\ Part(q, prefilling[r], j, b) <=> Owned(Slots(q), q.try, prefilling[r], j, b)
            /\ Part(n, prefilling[r], j, b) <=> Owned(Slots(n), n.try, prefilling[r], j, b)
        BY <1>1, <2>2, PartIs, ZenonT(30)
      <4> QED
        BY <1>4, <2>4, <4>1, <4>2
    <3>2. \A b \in Backends : ~ Part(q, prefilling[r], 0, b)
      BY <1>5, <3>1 DEF Owned
    <3>3. ASSUME NEW j \in 0 .. Attempts, NEW b \in Backends
          PROVE  Owned({q.p, q.d}, q.try, prefilling[r], j, b) <=>
                     Owned({q.p}, q.try, prefilling[r], j, b) \/ (j = 0 /\ b = q.d)
      BY <1>2, <1>5, ZenonT(30) DEF Owned
    <3> QED
      BY <3>1, <3>2, <3>3, ZenonT(30) DEF Gains
  <2>11. prefilling'[r] = prefilling[r] /\ \A x \in Requests \ {r} : prefilling'[x] = prefilling[x]
    BY <2>1
  <2>12. Gains(q, prefilling[r], n, prefilling'[r], 0, q.d)
    BY <2>10, <2>11, ZenonT(30)
  <2>13. PoolStep
    BY <1>3, <1>7, <1>5, <2>1, <2>2, <2>11, <2>12, PartTaken, ZenonT(30)
  <2> QED
    BY <2>9, <2>13 DEF Keeps
<1>8. CASE ~ HasRoom(q.d)
  <2> DEFINE n == Excluding(TurnedAway(q, "decode"), "decode")
  <2>1. /\ reqs' = [reqs EXCEPT ![r] = n] /\ prefilling' = prefilling /\ linked' = linked
        /\ inflight' = [inflight EXCEPT ![q.p] = inflight[q.p] - 1]
    BY <1>8, ZenonT(30) DEF AcquireDecode
  <2>2. n \in Locals /\ Fair(n) /\ Behind(n, prefilling[r]) /\ Slots(n) = {} /\ Link(n) = {}
    BY <1>1, <1>2, Refused
  <2> HIDE DEF n
  <2>3. Slots(n) = Slots(q) \ {q.p} /\ q.p \in Slots(q)
    BY <1>4, <2>2, ZenonT(30)
  <2>4. /\ inflight' \in [Backends -> Nat]
        /\ \A b \in Members :
              inflight'[b] = Cardinality(Holders(b)') + Cardinality(Runners(b)')
    BY <1>3, <2>1, <2>2, <2>3, SlotGiven, ZenonT(30)
  <2>5. IInv'
    BY <1>3, <1>4, <2>1, <2>2, <2>4, OneSlotKeeps, ZenonT(30)
  <2>6. q.try \in 0 .. Attempts /\ q.try # 0 /\ prefilling[r][q.try] = None
    BY <1>1, PDAssumption DEF Locals, Behind, Linked, Ending, Calling
  <2>7. Loses(q, prefilling[r], n, prefilling[r], q.try, q.p)
    <3>1. ASSUME NEW j \in 0 .. Attempts, NEW b \in Backends
          PROVE  /\ Part(q, prefilling[r], j, b) <=> Owned({q.p}, q.try, prefilling[r], j, b)
                 /\ Part(n, prefilling[r], j, b) <=> Owned({}, n.try, prefilling[r], j, b)
      <4>1. /\ Part(q, prefilling[r], j, b) <=> Owned(Slots(q), q.try, prefilling[r], j, b)
            /\ Part(n, prefilling[r], j, b) <=> Owned(Slots(n), n.try, prefilling[r], j, b)
        BY <1>1, <2>2, PartIs, ZenonT(30)
      <4> QED
        BY <1>4, <2>2, <4>1
    <3>2. Part(q, prefilling[r], q.try, q.p)
      BY <1>2, <1>5, <2>6, <3>1, ZenonT(30) DEF Owned
    <3>3. ASSUME NEW j \in 0 .. Attempts, NEW b \in Backends
          PROVE  Owned({}, n.try, prefilling[r], j, b) <=>
                     Owned({q.p}, q.try, prefilling[r], j, b) /\ ~ (j = q.try /\ b = q.p)
      BY <1>2, <1>5, <2>6, ZenonT(30) DEF Owned
    <3> QED
      BY <3>1, <3>2, <3>3, ZenonT(30) DEF Loses
  <2>8. prefilling'[r] = prefilling[r] /\ \A x \in Requests \ {r} : prefilling'[x] = prefilling[x]
    BY <2>1
  <2>9. Loses(q, prefilling[r], n, prefilling'[r], q.try, q.p)
    BY <2>7, <2>8, ZenonT(30)
  <2>10. PoolStep
    BY <1>3, <2>1, <2>2, <2>6, <2>8, <2>9, PartGivenBack, ZenonT(30)
  <2> QED
    BY <2>5, <2>10 DEF Keeps
<1> QED
  BY <1>6, <1>7, <1>8, ZenonT(30)

-----------------------------------------------------------------------------
(* The invariant.                                                          *)

\* No request has arrived further than its first step, and nothing is in use.
LEMMA InitEstablishes ==
    ASSUME Init PROVE IInv
<1>1. /\ \A r \in Requests : reqs[r] = Fresh \/ reqs[r] = Answered(Fresh)
      /\ prefilling = [r \in Requests |-> [i \in 1 .. Attempts |-> None]]
      /\ linked = [l \in Links |-> 0] /\ bound = None
      /\ inflight = [b \in Backends |-> 0] /\ DOMAIN reqs = Requests
      /\ reqs = [r \in Requests |-> reqs[r]]
  BY ZenonT(30) DEF Init, BackendInit
<1>2. Fresh \in Locals /\ Fresh.pc = "start" /\ Fresh.failedBy = Fresh.exP \cup Fresh.exD
  BY Beginning
<1>3. Answered(Fresh) \in Locals /\ Answered(Fresh).pc = "answered"
  BY <1>2, Returned, ZenonT(30)
<1>4. ASSUME NEW r \in Requests
      PROVE  /\ reqs[r] \in Locals /\ Fair(reqs[r]) /\ reqs[r].pc \in {"start", "answered"}
             /\ Slots(reqs[r]) = {} /\ Link(reqs[r]) = {}
  <2>1. reqs[r] \in Locals /\ reqs[r].pc \in {"start", "answered"}
    BY <1>1, <1>2, <1>3, ZenonT(30)
  <2>2. reqs[r].pc # "answered" => reqs[r].failedBy = reqs[r].exP \cup reqs[r].exD
    BY <1>1, <1>2, <1>3, ZenonT(30)
  <2> QED
    BY <2>1, <2>2 DEF Fair, Slots, Link, Paired, Linked, Ending, Calling
<1>5. TypeOK
  <2>1. reqs \in [Requests -> Locals]
    BY <1>1, <1>4
  <2> QED
    BY <1>1, <2>1 DEF TypeOK
<1>6. \A r \in Requests : Behind(reqs[r], prefilling[r])
  BY <1>1 DEF Behind
<1>7. \A b : Holders(b) = {}
  BY <1>4 DEF Holders
<1>8. \A l : Users(l) = {}
  BY <1>4 DEF Users
<1>9. \A b \in Members : Runners(b) = {}
  BY <1>1, PDAssumption DEF Runners, Members
<1>10. Cardinality({}) = 0
  BY FS_EmptySet
<1>11. \A b \in Members : inflight[b] = 0
  BY <1>1, PDAssumption DEF Members
<1>12. Counted
  <2>1. \A b \in Members : Cardinality(Holders(b)) = 0 /\ Cardinality(Runners(b)) = 0
    BY <1>7, <1>9, <1>10
  <2>2. \A b \in Members : inflight[b] = Cardinality(Holders(b)) + Cardinality(Runners(b))
    BY <1>11, <2>1
  <2>3. \A l \in Links : linked[l] = Cardinality(Users(l))
    BY <1>1, <1>8, <1>10, ZenonT(30)
  <2> QED
    BY <2>2, <2>3 DEF Counted
<1> QED
  BY <1>4, <1>5, <1>6, <1>12, ZenonT(30) DEF IInv

\* Steps that touch nothing the invariant reads.
LEMMA StutterKeeps ==
    ASSUME IInv, inflight' = inflight, reqs' = reqs, prefilling' = prefilling,
           linked' = linked, bound' = bound
    PROVE  Keeps
<1>1. TypeOK'
  BY DEF IInv, TypeOK
<1>2. (\A r \in Requests : Fair(reqs[r]) /\ Behind(reqs[r], prefilling[r]))'
  BY DEF IInv, Fair, Behind, Faulty
<1>3. \A b : Holders(b)' = Holders(b) /\ Runners(b)' = Runners(b)
  BY DEF Holders, Slots, Runners
<1>4. \A l : Users(l)' = Users(l)
  BY ZenonT(30) DEF Users, Link
<1>5. Counted'
  BY <1>3, <1>4 DEF IInv, Counted
<1>6. PoolStep
  BY ZenonT(30) DEF PoolStep, Owners, HoldsDecode, HoldsPrefill, At
<1> QED
  BY <1>1, <1>2, <1>5, <1>6 DEF IInv, Keeps

\* Every step keeps the invariant.
LEMMA NextKeeps ==
    ASSUME IInv, [Next]_vars
    PROVE  Keeps
<1>1. ASSUME NEW r \in Requests, NoPair(r) PROVE Keeps
  <2>1. /\ inflight' = inflight /\ prefilling' = prefilling /\ linked' = linked
        /\ bound' = bound /\ reqs[r].pc = "pick"
    BY <1>1, ZenonT(30) DEF NoPair, KeepSlots, At
  <2>2. CASE Moves(r, "wait")
    BY <2>1, <2>2, MovingKeeps
  <2>3. CASE reqs' = [reqs EXCEPT ![r] = Answered(reqs[r])]
    BY <2>1, <2>3, ReturningKeeps, ZenonT(30)
  <2> QED
    BY <1>1, <2>2, <2>3 DEF NoPair
<1>2. ASSUME NEW r \in Requests, GiveUp(r) PROVE Keeps
  BY <1>2, ReturningKeeps, ZenonT(30) DEF GiveUp, KeepSlots, At
<1>3. ASSUME NEW r \in Requests, CallPrefill(r) PROVE Keeps
  <2>1. /\ inflight' = inflight /\ prefilling' = prefilling /\ linked' = linked
        /\ bound' = bound /\ reqs[r].pc = "prefill" /\ reqs[r].pc \in Calling
    BY <1>3 DEF CallPrefill, KeepSlots, At, Calling
  <2>2. CASE Moves(r, "body")
    BY <2>1, <2>2, MovingKeeps
  <2>3. ASSUME NEW fate \in {"prefill", "aborted"}, Ends(r, fate) PROVE Keeps
    BY <2>1, <2>3, EndingKeeps, ZenonT(30)
  <2> QED
    BY <1>3, <2>2, <2>3, ZenonT(30) DEF CallPrefill
<1>4. ASSUME NEW r \in Requests, ReadPrefill(r) PROVE Keeps
  <2>1. /\ inflight' = inflight /\ prefilling' = prefilling /\ linked' = linked
        /\ bound' = bound /\ reqs[r].pc = "body" /\ reqs[r].pc \in Calling
    BY <1>4, ZenonT(30) DEF ReadPrefill, KeepSlots, At, Calling
  <2>2. CASE Moves(r, "decode")
    BY <2>1, <2>2, MovingKeeps
  <2>3. CASE Ends(r, "prefill")
    BY <2>1, <2>3, EndingKeeps, ZenonT(30)
  <2> QED
    BY <1>4, <2>2, <2>3, ZenonT(30) DEF ReadPrefill
<1>5. ASSUME NEW r \in Requests, CallDecode(r) PROVE Keeps
  <2>1. /\ inflight' = inflight /\ prefilling' = prefilling /\ linked' = linked
        /\ bound' = bound /\ reqs[r].pc = "decode" /\ reqs[r].pc \in Calling
    BY <1>5, ZenonT(30) DEF CallDecode, KeepSlots, At, Calling
  <2>2. CASE Moves(r, "stream")
    BY <2>1, <2>2, MovingKeeps
  <2>3. ASSUME NEW fate \in {"decode", "aborted"}, Ends(r, fate) PROVE Keeps
    BY <2>1, <2>3, EndingKeeps
  <2> QED
    BY <1>5, <2>2, <2>3, ZenonT(30) DEF CallDecode
<1>6. ASSUME NEW r \in Requests, Streamed(r) PROVE Keeps
  <2>1. /\ inflight' = inflight /\ prefilling' = prefilling /\ linked' = linked
        /\ bound' = bound /\ reqs[r].pc \in Calling /\ Ends(r, "served")
    BY <1>6 DEF Streamed, KeepSlots, At, Calling
  <2> QED
    BY <2>1, EndingKeeps
<1>7. ASSUME NEW r \in Requests, Join(r) PROVE Keeps
  <2>1. /\ inflight' = inflight /\ prefilling' = prefilling /\ linked' = linked
        /\ bound' = bound /\ reqs[r].pc = "join" /\ Exited(r) /\ Moves(r, "release")
    BY <1>7 DEF Join, KeepSlots, At
  <2> QED
    BY <2>1, MovingKeeps
<1>8. ASSUME NEW b \in Members, Cools(b) PROVE Keeps
  BY <1>8, StutterKeeps DEF Cools, CooldownEnds
<1>9. CASE UNCHANGED vars
  BY <1>9, StutterKeeps, ZenonT(30) DEF vars, backendVars
<1>10. ASSUME NEW r \in Requests, Step(r) PROVE Keeps
  BY <1>1, <1>3, <1>4, <1>5, <1>6, <1>7, <1>10, BeginKeeps, PickKeeps, AcquirePrefillKeeps,
     AcquireDecodeKeeps, LeaveKeeps, JoinTimeoutKeeps, ReleaseKeeps, ZenonT(30) DEF Step
<1> QED
  BY <1>2, <1>8, <1>9, <1>10, ClientLeavesKeeps, PrefillEndsKeeps, ZenonT(30) DEF Next

-----------------------------------------------------------------------------
(* The theorems.                                                           *)

\* The inductive invariant of forwarding to a pair: every slot and link is counted once for
\* whom holds it, and the exclusions follow the failures (servePD, tryPDPair, pdSGLang).
THEOREM PDInvariance == Spec => []IInv
<1>1. Init => IInv
  BY InitEstablishes
<1>2. IInv /\ [Next]_vars => IInv'
  BY NextKeeps DEF Keeps
<1> QED
  BY <1>1, <1>2, PTL DEF Spec

\* A slot or a link in use has exactly one owner, an attempt or the goroutine it handed its
\* prefill's slot to, whatever the backends, links, requests and attempts: none leaks and
\* none is given back twice (the releases of tryPDPair and of pdSGLang's goroutine).
THEOREM SlotsAreExact == Spec => []SlotsExact
<1>1. IInv => SlotsExact
  <2> SUFFICES ASSUME IInv PROVE SlotsExact
    OBVIOUS
  <2>1. ASSUME NEW r \in Requests, NEW b \in Members
        PROVE  HoldsPrefill(r, b) \/ HoldsDecode(r, b) <=> b \in Slots(reqs[r])
    BY DEF HoldsPrefill, HoldsDecode, Slots, At, Linked, Ending
  <2>2. ASSUME NEW b \in Members
        PROVE  {r \in Requests : HoldsPrefill(r, b) \/ HoldsDecode(r, b)} = Holders(b)
    BY <2>1 DEF Holders
  <2>3. ASSUME NEW b \in Members
        PROVE  {x \in Goroutines : prefilling[x[1]][x[2]] = b} = Runners(b)
    <3>1. b # None
      BY PDAssumption DEF Members
    <3> QED
      BY <3>1 DEF Goroutines, Runners
  <2>4. ASSUME NEW l \in Links
        PROVE  {r \in Requests : HoldsDecode(r, l[2]) /\ reqs[r].p = l[1]} = Users(l)
    <3>1. l = <<l[1], l[2]>>
      BY PDAssumption
    <3>2. ASSUME NEW r \in Requests
          PROVE  HoldsDecode(r, l[2]) /\ reqs[r].p = l[1] <=> l \in Link(reqs[r])
      BY <3>1 DEF HoldsDecode, Link, Linked, Ending
    <3> QED
      BY <3>2 DEF Users
  <2> QED
    BY <2>2, <2>3, <2>4, ZenonT(30) DEF SlotsExact, IInv, Counted
<1> QED
  BY <1>1, PDInvariance, PTL

\* Two goroutines of one request run at once only after a join timed out, however many
\* attempts it makes (pdSGLang's join before the next attempt).
THEOREM OneGoroutineAtATime == Spec => []OneGoroutine
<1>1. IInv => OneGoroutine
  <2> SUFFICES ASSUME IInv, NEW r \in Requests, ~ reqs[r].late
               PROVE  ~ (Cardinality({i \in 1 .. Attempts : prefilling[r][i] # None}) > 1)
    BY ZenonT(30) DEF OneGoroutine
  <2> DEFINE S == {i \in 1 .. Attempts : prefilling[r][i] # None}
  <2>1. S \subseteq {reqs[r].try}
    BY Mine DEF Behind
  <2>2. S = {} \/ S = {reqs[r].try}
    BY <2>1
  <2>3. Cardinality(S) = 0 \/ Cardinality(S) = 1
    BY <2>2, FS_EmptySet, FS_Singleton, ZenonT(30)
  <2> QED
    BY <2>3
<1> QED
  BY <1>1, PDInvariance, PTL

\* What a request may not pick again is exactly what failed it, and it is never sent there
\* again, for any pairs and any number of attempts (the exclusions of servePD).
THEOREM OnlyFaultyExcluded == Spec => []OnlyTheFaulty
<1>1. IInv => OnlyTheFaulty
  <2> SUFFICES ASSUME IInv, NEW r \in Requests
               PROVE  /\ reqs[r].pc \in {"pick", "wait"} =>
                            reqs[r].exP \cup reqs[r].exD = reqs[r].failedBy
                      /\ reqs[r].pc \in Calling =>
                            {reqs[r].p, reqs[r].d} \cap reqs[r].failedBy = {}
    BY DEF OnlyTheFaulty
  <2> DEFINE q == reqs[r]
  <2>1. q \in Locals /\ Fair(q)
    BY Mine, ZenonT(30)
  <2>2. ASSUME q.pc \in {"pick", "wait"} PROVE q.exP \cup q.exD = q.failedBy
    BY <2>1, <2>2, ZenonT(30) DEF Fair, Ending
  <2>3. ASSUME q.pc \in Calling PROVE {q.p, q.d} \cap q.failedBy = {}
    <3>1. /\ <<q.p, q.d>> \in Links /\ q.p \notin q.exP /\ q.d \notin q.exD
          /\ q.failedBy = q.exP \cup q.exD
      BY <2>1, <2>3, ZenonT(30) DEF Fair, Paired, Ending, Calling
    <3>2. q.exP \subseteq Prefills /\ q.exD \subseteq Decodes
      BY <2>1, ZenonT(30) DEF Locals
    <3>3. q.p \in Prefills /\ q.d \in Decodes
      BY <3>1, PDAssumption
    <3> QED
      BY <3>1, <3>2, <3>3, PDAssumption, ZenonT(30)
  <2> QED
    BY <2>2, <2>3, ZenonT(30)
<1> QED
  BY <1>1, PDInvariance, PTL

-----------------------------------------------------------------------------
(* The refinement.                                                         *)

\* A backend has no more owners than its counter says.
LEMMA OwnersCounted ==
    ASSUME IInv, NEW b \in Members
    PROVE  /\ Cardinality(Owners(b)) \in Nat /\ inflight[b] \in Nat
           /\ Cardinality(Owners(b)) <= inflight[b]
<1> DEFINE A == Owners(b) \ Runners(b)
           f == [x \in A |-> x[1]]
<1>1. b \in Backends /\ b # None
  BY PDAssumption DEF Members
<1>2. ASSUME NEW x \in Owners(b)
      PROVE  /\ x \in Calls /\ x[1] \in Requests /\ x[2] \in 0 .. Attempts
             /\ Owned(Slots(reqs[x[1]]), reqs[x[1]].try, prefilling[x[1]], x[2], b)
  <2>1. x \in Calls /\ x[1] \in Requests /\ x[2] \in 0 .. Attempts
    BY DEF Owners, Calls
  <2>2. Part(reqs[x[1]], prefilling[x[1]], x[2], b)
    BY ZenonT(30) DEF Owners, Part, HoldsDecode, HoldsPrefill, At, Linked, Ending
  <2>3. reqs[x[1]] \in Locals
    BY <2>1, Mine
  <2> QED
    BY <1>1, <2>1, <2>2, <2>3, PartIs, ZenonT(30)
<1>3. ASSUME NEW x \in A
      PROVE  /\ x[1] \in Holders(b)
             /\ (x[2] = 0 /\ b \in Decodes) \/ (x[2] = reqs[x[1]].try /\ b \in Prefills)
  <2>1. ~ (x[2] > 0 /\ prefilling[x[1]][x[2]] = b)
    <3>1. x[2] > 0 => x \in Requests \X (1 .. Attempts)
      BY <1>2, PDAssumption DEF Calls
    <3> QED
      BY <3>1 DEF Runners
  <2> QED
    BY <1>2, <2>1, ZenonT(30) DEF Owned, Holders
<1>4. ASSUME NEW x \in A, NEW y \in A, x[1] = y[1] PROVE x = y
  <2>1. ~ (b \in Decodes /\ b \in Prefills)
    BY PDAssumption
  <2>2. x[2] = y[2]
    <3>1. /\ (x[2] = 0 /\ b \in Decodes) \/ (x[2] = reqs[x[1]].try /\ b \in Prefills)
          /\ (y[2] = 0 /\ b \in Decodes) \/ (y[2] = reqs[y[1]].try /\ b \in Prefills)
      BY <1>3
    <3> QED
      BY <1>4, <2>1, <3>1
  <2>3. x = <<x[1], x[2]>> /\ y = <<y[1], y[2]>>
    BY <1>2 DEF Calls
  <2> QED
    BY <1>4, <2>2, <2>3, ZenonT(30)
<1>5. f \in Injection(A, Holders(b))
  BY <1>3, <1>4 DEF Injection, IsInjective
<1>6. IsFiniteSet(Holders(b)) /\ IsFiniteSet(Runners(b))
      /\ Cardinality(Holders(b)) \in Nat /\ Cardinality(Runners(b)) \in Nat
  BY Sets, ZenonT(30)
<1> HIDE DEF A, f
<1>7. IsFiniteSet(A) /\ Cardinality(A) <= Cardinality(Holders(b)) /\ Cardinality(A) \in Nat
  BY <1>5, <1>6, FS_Injection, FS_CardinalityType, ZenonT(30)
<1>8. /\ IsFiniteSet(A \cup Runners(b))
      /\ Cardinality(A \cup Runners(b))
            = Cardinality(A) + Cardinality(Runners(b)) - Cardinality(A \cap Runners(b))
  BY <1>6, <1>7, FS_Union, ZenonT(30)
<1>9. Cardinality(A \cap Runners(b)) \in Nat
  <2>1. A \cap Runners(b) \in SUBSET A
    OBVIOUS
  <2> QED
    BY <1>7, <2>1, FS_Subset, FS_CardinalityType
<1>10. /\ Cardinality(Owners(b)) \in Nat /\ Cardinality(A \cup Runners(b)) \in Nat
       /\ Cardinality(Owners(b)) <= Cardinality(A \cup Runners(b))
  <2>1. Owners(b) \in SUBSET (A \cup Runners(b))
    BY DEF A
  <2>2. /\ IsFiniteSet(Owners(b))
        /\ Cardinality(Owners(b)) <= Cardinality(A \cup Runners(b))
    BY <1>8, <2>1, FS_Subset
  <2> QED
    BY <1>8, <2>2, FS_CardinalityType
<1>11. inflight[b] = Cardinality(Holders(b)) + Cardinality(Runners(b))
  BY ZenonT(30) DEF IInv, Counted
<1> QED
  BY <1>6, <1>7, <1>8, <1>9, <1>10, <1>11

\* For any backends, limits, links, requests and attempts, slots are granted and given back
\* as SlotPool says, whether the attempt or its goroutine is to release them: neither side
\* of a group is ever over its limit (TryAcquire and Release in tryPDPair and pdSGLang).
THEOREM PairsRefineSlotPool == Spec => ImplementsSlotPool
<1> DEFINE holders == [b \in Backends |-> Owners(b)]
<1>1. Init => Pool!Init
  <2> SUFFICES ASSUME Init, NEW b \in Backends PROVE Owners(b) = {}
    BY DEF Pool!Init
  <2>1. b # None
    BY PDAssumption
  <2>2. ASSUME NEW r \in Requests
        PROVE  reqs[r].pc \in {"start", "answered"} /\ \A i \in 1 .. Attempts : prefilling[r][i] = None
    <3>1. reqs[r] = Fresh \/ reqs[r] = Answered(Fresh)
      BY ZenonT(30) DEF Init
    <3>2. prefilling[r] = [i \in 1 .. Attempts |-> None]
      BY ZenonT(30) DEF Init
    <3>3. Fresh.pc = "start" /\ Answered(Fresh).pc = "answered"
      BY Beginning, Returned
    <3> QED
      BY <3>1, <3>2, <3>3, ZenonT(30)
  <2>3. \A i \in 0 .. Attempts : i > 0 => i \in 1 .. Attempts
    BY PDAssumption
  <2> QED
    BY <2>1, <2>2, <2>3 DEF Owners, HoldsDecode, HoldsPrefill, At, Calling
<1>2. IInv /\ [Next]_vars => [Pool!Next]_holders
  <2> SUFFICES ASSUME IInv, [Next]_vars, holders' # holders
               PROVE  Pool!Next
    BY DEF Pool!Next
  <2>1. PICK x \in Calls, b \in Members : Taken(x, b) \/ GivenBack(x, b)
    <3>1. PoolStep
      BY NextKeeps DEF Keeps
    <3> QED
      BY <3>1, ZenonT(30) DEF PoolStep
  <2>2. b \in Backends /\ MaxConcurrency[b] \in Nat /\ x \in Requests \X (0 .. Attempts)
    BY PDAssumption, MaxConcurrencyAssumption DEF Members, Calls
  <2>3. CASE Taken(x, b)
    <3>1. \A c \in Backends : x \notin holders[c]
      BY <2>3, ZenonT(30) DEF Taken
    <3>2. MaxConcurrency[b] = 0 \/ Cardinality(Owners(b)) < MaxConcurrency[b]
      <4>1. MaxConcurrency[b] = 0 \/ inflight[b] < MaxConcurrency[b]
        BY <2>3 DEF Taken, HasRoom
      <4> QED
        BY <2>2, <4>1, OwnersCounted
    <3>3. Pool!Cardinality(Owners(b)) = Cardinality(Owners(b))
      BY ZenonT(30) DEF Cardinality, Pool!Cardinality
    <3>4. holders' = [holders EXCEPT ![b] = @ \cup {x}]
      BY <2>2, <2>3, ZenonT(30) DEF Taken
    <3>5. Pool!Grant(x, b)
      BY <2>2, <3>1, <3>2, <3>3, <3>4, ZenonT(30) DEF Pool!Grant
    <3> QED
      BY <2>2, <3>5, ZenonT(30) DEF Pool!Next
  <2>4. CASE GivenBack(x, b)
    <3>1. x \in holders[b]
      BY <2>2, <2>4, ZenonT(30) DEF GivenBack
    <3>2. holders' = [holders EXCEPT ![b] = @ \ {x}]
      BY <2>2, <2>4, ZenonT(30) DEF GivenBack
    <3>3. Pool!GiveBack(x, b)
      BY <3>1, <3>2, ZenonT(30) DEF Pool!GiveBack
    <3> QED
      BY <2>2, <3>3, ZenonT(30) DEF Pool!Next
  <2> QED
    BY <2>1, <2>3, <2>4
<1> QED
  BY PDInvariance, <1>1, <1>2, PTL DEF Spec, ImplementsSlotPool, Pool!Spec

=============================================================================
