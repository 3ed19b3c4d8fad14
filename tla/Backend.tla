------------------------------ MODULE Backend ------------------------------
(***************************************************************************)
(* The runtime state of one inference backend (internal/backend).  Every  *)
(* field is an atomic of the Go struct, so each operator below is one     *)
(* atomic instruction: TryAcquire, MarkFailure and a health probe are     *)
(* several of them, and other goroutines run in between.                  *)
(***************************************************************************)
EXTENDS Integers, FiniteSets

CONSTANTS
    Backends,           \* the backend instances of the registry
    MaxConcurrency,     \* [Backends -> Nat], 0 means unlimited
    FailureThreshold    \* consecutive failures that eject a backend

ASSUME BackendsAssumption == IsFiniteSet(Backends)
ASSUME MaxConcurrencyAssumption == MaxConcurrency \in [Backends -> Nat]
ASSUME FailureThresholdAssumption == FailureThreshold \in Nat \ {0}

VARIABLES
    inflight,   \* inflight[b]: slots taken, including over-limit ones about to be undone
    fails,      \* fails[b]: consecutiveFails
    ejected,    \* the backends whose ejectedUntil lies in the future
    healthy,    \* the backends the active health check last found healthy
    cordoned    \* the backends an operator has isolated

backendVars == <<inflight, fails, ejected, healthy, cordoned>>

BackendTypeOK ==
    /\ inflight \in [Backends -> Nat]
    /\ fails \in [Backends -> Nat]
    /\ ejected \subseteq Backends
    /\ healthy \subseteq Backends
    /\ cordoned \subseteq Backends

\* A new instance starts healthy, so that it serves before its first probe.
BackendInit ==
    /\ inflight = [b \in Backends |-> 0]
    /\ fails = [b \in Backends |-> 0]
    /\ ejected = {}
    /\ healthy = Backends
    /\ cordoned = {}

Available(b) == b \in healthy /\ b \notin cordoned /\ b \notin ejected

\* The capacity filter of PickAmong: a plain read of the counter.
HasRoom(b) == MaxConcurrency[b] = 0 \/ inflight[b] < MaxConcurrency[b]

\* Mutant of WithinLimit: judges the value before the Add.
WithinLimitOffByOne(b, n) == MaxConcurrency[b] = 0 \/ n - 1 <= MaxConcurrency[b]

\* The verdict TryAcquire reaches on the value its Add(1) returned.
WithinLimit(b, n) == MaxConcurrency[b] = 0 \/ n <= MaxConcurrency[b]

AddInflight(b) ==
    /\ inflight' = [inflight EXCEPT ![b] = @ + 1]
    /\ UNCHANGED <<fails, ejected, healthy, cordoned>>

SubInflight(b) ==
    /\ inflight' = [inflight EXCEPT ![b] = @ - 1]
    /\ UNCHANGED <<fails, ejected, healthy, cordoned>>

\* MarkFailure, first instruction; the threshold is compared with fails'[b].
AddFailure(b) ==
    /\ fails' = [fails EXCEPT ![b] = @ + 1]
    /\ UNCHANGED <<inflight, ejected, healthy, cordoned>>

\* MarkFailure, second instruction: a cooldown starts, or starts over.
Eject(b) ==
    /\ ejected' = ejected \cup {b}
    /\ UNCHANGED <<inflight, fails, healthy, cordoned>>

\* MarkFailure, third instruction, and the whole of MarkSuccess.
ClearFailures(b) ==
    /\ fails' = [fails EXCEPT ![b] = 0]
    /\ UNCHANGED <<inflight, ejected, healthy, cordoned>>

\* The clock passes ejectedUntil; no code runs, so nobody is signalled.
CooldownEnds(b) ==
    /\ b \in ejected
    /\ ejected' = ejected \ {b}
    /\ UNCHANGED <<inflight, fails, healthy, cordoned>>

SetHealthy(b, ok) ==
    /\ healthy' = IF ok THEN healthy \cup {b} ELSE healthy \ {b}
    /\ UNCHANGED <<inflight, fails, ejected, cordoned>>

Cordon(b, on) ==
    /\ cordoned' = IF on THEN cordoned \cup {b} ELSE cordoned \ {b}
    /\ UNCHANGED <<inflight, fails, ejected, healthy>>

=============================================================================
