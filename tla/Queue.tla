------------------------------- MODULE Queue -------------------------------
(***************************************************************************)
(* The capacity queue (internal/queue): a depth counter that bounds the    *)
(* queue, a waiters counter that Signal reads before it broadcasts, and a  *)
(* broadcast channel that Signal closes and replaces.  A goroutine that    *)
(* blocks on the current channel is in listening; once that channel has    *)
(* been closed the goroutine is in woken, whatever the channel that        *)
(* replaced it.                                                            *)
(***************************************************************************)
EXTENDS Integers

CONSTANTS
    Requests,   \* the goroutines that may queue
    Models,     \* the queue classes: one per model route
    MaxDepth    \* the global bound on queued requests

ASSUME MaxDepthAssumption == MaxDepth \in Nat \ {0}

VARIABLES
    depth,      \* requests inside WaitFor, including one about to be refused
    classes,    \* classes[m]: queued requests of model m; 0 is a deleted entry
    waiters,    \* requests registered to be signalled
    listening,  \* requests blocked on the current channel
    woken       \* requests blocked on a channel that is closed

queueVars == <<depth, classes, waiters, listening, woken>>

QueueTypeOK ==
    /\ depth \in Nat
    /\ classes \in [Models -> Nat]
    /\ waiters \in Nat
    /\ listening \subseteq Requests
    /\ woken \subseteq Requests

QueueInit ==
    /\ depth = 0
    /\ classes = [m \in Models |-> 0]
    /\ waiters = 0
    /\ listening = {}
    /\ woken = {}

\* Mutant of WithinDepth: judges the value before the Add.
WithinDepthOffByOne(n) == n - 1 <= MaxDepth

\* The verdict WaitFor reaches on the value its depth.Add(1) returned.
WithinDepth(n) == n <= MaxDepth

AddDepth ==
    /\ depth' = depth + 1
    /\ UNCHANGED <<classes, waiters, listening, woken>>

SubDepth ==
    /\ depth' = depth - 1
    /\ UNCHANGED <<classes, waiters, listening, woken>>

\* enterClass and waiters.Add(1): only Depths reads classes, so the two are one step.
Register(m) ==
    /\ classes' = [classes EXCEPT ![m] = @ + 1]
    /\ waiters' = waiters + 1
    /\ UNCHANGED <<depth, listening, woken>>

\* waitCh, then blocking in the select.
Listen(r) ==
    /\ listening' = listening \cup {r}
    /\ UNCHANGED <<depth, classes, waiters, woken>>

\* The select returns, by whichever of its cases.
StopListening(r) ==
    /\ listening' = listening \ {r}
    /\ woken' = woken \ {r}
    /\ UNCHANGED <<depth, classes, waiters>>

\* Deferred calls run last-in first-out: WaitFor first deregisters the waiter ...
Deregister ==
    /\ waiters' = waiters - 1
    /\ UNCHANGED <<depth, classes, listening, woken>>

\* ... and then leaves its class and the queue.
Leave(m) ==
    /\ classes' = [classes EXCEPT ![m] = @ - 1]
    /\ depth' = depth - 1
    /\ UNCHANGED <<waiters, listening, woken>>

\* Mutant of Broadcast: the channel is closed but not replaced.
BroadcastOnce ==
    /\ woken' = woken \cup listening
    /\ UNCHANGED <<depth, classes, waiters, listening>>

\* Signal past its test of waiters: close the channel and install a new one.
Broadcast ==
    /\ woken' = woken \cup listening
    /\ listening' = {}
    /\ UNCHANGED <<depth, classes, waiters>>

=============================================================================
