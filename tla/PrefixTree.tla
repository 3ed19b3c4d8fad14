---------------------------- MODULE PrefixTree ------------------------------
(***************************************************************************)
(* The radix tree of served prompt prefixes (internal/kvcache/radix.go),   *)
(* as operators: each takes the tree and returns the tree it leaves.       *)
(*                                                                         *)
(* A node is known by its path, the bytes from the root to the end of its  *)
(* edge: its parent is its longest proper prefix among the nodes, its edge *)
(* the rest.  A tree has `marks', the path of each node |-> each owner |-> *)
(* the time of its mark (0: no mark), and the counters the code keeps.     *)
(* `floor' is history: the youngest mark expired or evicted so far.        *)
(***************************************************************************)
EXTENDS Subsequence, FiniteSetsExt

CONSTANTS
    Owners,         \* backend IDs
    MaxPrefix,      \* maxPrefix: the bytes of a text that count
    MaxNodes,       \* maxNodes and maxBytes; 0 stands for no limit
    MaxBytes

ASSUME TreeAssumption == MaxPrefix \in Nat /\ MaxNodes \in Nat /\ MaxBytes \in Nat

Nobody == [o \in Owners |-> 0]
EmptyTree == [marks |-> [p \in {} |-> Nobody], nodes |-> 0, bytes |-> 0, floor |-> 0]

Nodes(t) == DOMAIN t.marks

\* clip
Clip(text) == SubSeq(text, 1, Min({Len(text), MaxPrefix}))

\* The end of the parent of p, where the edge of p begins, and the bytes on the edges of
\* some nodes, each known by the node and the length of the path to it.
EdgeStart(t, p) == Max({0} \cup {Len(q) : q \in {q \in Nodes(t) : IsStrictPrefix(q, p)}})
EdgeBytes(t, ps) == UNION {{p} \X (EdgeStart(t, p) + 1 .. Len(p)) : p \in ps}

\* Mutant of Inherited: the node that splits an edge starts without marks.
InheritedNone(t, child) == Nobody

\* copyOwners
Inherited(t, child) == t.marks[child]

\* Mutant of AddedBytes: counts the part of the key that was there already.
AddedBytesAll(key, fork) == Len(key)

AddedBytes(key, fork) == Len(key) - Len(fork)

\* Insert, up to its deferred enforceBudget.  The nodes on the way are marked.  Where
\* the key leaves the edge of a child the edge is split by a node that takes over the
\* marks of the child.  What is left of the key becomes a leaf.
Inserted(t, text, o, now) ==
    LET key    == Clip(text)
        fork   == SubSeq(key, 1, Max({0} \cup {CommonLen(p, key) : p \in Nodes(t)}))
        middle == {fork} \ (Nodes(t) \cup {<< >>})
        below  == {p \in Nodes(t) : IsPrefix(fork, p)}
        child  == CHOOSE p \in below : \A q \in below : IsPrefix(p, q)
        added  == middle \cup ({key} \ Nodes(t))
        Old(p) == IF p \in Nodes(t) THEN t.marks[p]
                  ELSE IF p \in middle THEN Inherited(t, child) ELSE Nobody
    IN  [t EXCEPT !.marks = [p \in Nodes(t) \cup added |->
                                IF IsPrefix(p, key) THEN [Old(p) EXCEPT ![o] = now] ELSE Old(p)],
                  !.nodes = @ + Cardinality(added),
                  !.bytes = @ + AddedBytes(key, fork)]

\* pruneNode and removeOwner: these marks are left, and, from the leaves up, every node
\* with neither marks nor children goes.
Without(t, left) ==
    LET gone == {p \in Nodes(t) : \A q \in Nodes(t) : IsPrefix(p, q) => left[q] = Nobody}
    IN  [t EXCEPT !.marks = [p \in Nodes(t) \ gone |-> left[p]],
                  !.nodes = @ - Cardinality(gone),
                  !.bytes = @ - Cardinality(EdgeBytes(t, gone))]

PruneNode(t, deadline) ==
    LET left == [p \in Nodes(t) |-> [o \in Owners |->
                    IF t.marks[p][o] < deadline THEN 0 ELSE t.marks[p][o]]]
    IN  [Without(t, left) EXCEPT !.floor = Max({@, deadline - 1})]

RemoveBackedBy(t, owner) ==
    Without(t, [p \in Nodes(t) |-> [t.marks[p] EXCEPT ![owner] = 0]])

OverBudget(t) ==
    \/ MaxNodes > 0 /\ t.nodes > MaxNodes
    \/ MaxBytes > 0 /\ t.bytes > MaxBytes

\* oldestOwnerTs
OwnerTimes(t) == {t.marks[p][o] : p \in Nodes(t), o \in Owners} \ {0}

\* enforceBudget: as long as the tree is over a limit its oldest marks go, one age after
\* the other.  It stops at the first age with which enough has gone, or all.
EnforceBudget(t) ==
    LET Cut(ts) == PruneNode(t, ts + 1)
        enough  == {ts \in OwnerTimes(t) : ~ OverBudget(Cut(ts)) \/ OwnerTimes(Cut(ts)) = {}}
    IN  IF OverBudget(t) /\ OwnerTimes(t) # {} THEN Cut(Min(enough)) ELSE t

Insert(t, text, o, now) ==
    IF Clip(text) = << >> THEN t ELSE EnforceBudget(Inserted(t, text, o, now))

\* Match: the walk visits the nodes with whose edge the key shares a byte; what an
\* owner is found on last is its match.
Match(t, text) ==
    LET key     == Clip(text)
        visited == {p \in Nodes(t) : CommonLen(p, key) > EdgeStart(t, p)}
    IN  [o \in Owners |-> Max({0} \cup {CommonLen(p, key) :
                                            p \in {p \in visited : t.marks[p][o] > 0}})]
=============================================================================
