--------------------------- MODULE ServingProofs ----------------------------
(***************************************************************************)
(* What is proved of serving, for any number of requests, backends and     *)
(* probes: the capacity of the backends, the bound of the queue, its       *)
(* channels, the circuit breaker, retries and answers.  First what follows *)
(* from the effects of the steps without counting, then the counters of    *)
(* the inductive invariant, then the theorems.                             *)
(***************************************************************************)
EXTENDS ServingSteps

\* The time the provers have for a leaf, in seconds.
USE SMTT(30), ZenonT(30)

-----------------------------------------------------------------------------
(* Slots, channels and the circuit breaker.                                *)

\* How the sets of slot holders may change in a step.
SlotsKept == \A b \in Backends : On(b, Holding)' = On(b, Holding)

SlotGranted(r) ==
    /\ pc[r] = "acquire" /\ cur[r] \in Backends
    /\ WithinLimit(cur[r], inflight[cur[r]] + 1)
    /\ \A b \in Backends :
          On(b, Holding)' = IF b = cur[r] THEN On(b, Holding) \cup {r} ELSE On(b, Holding)

SlotReturned(r) ==
    /\ pc[r] = "release" /\ cur[r] \in Backends
    /\ \A b \in Backends :
          On(b, Holding)' = IF b = cur[r] THEN On(b, Holding) \ {r} ELSE On(b, Holding)

SlotMove == SlotsKept \/ \E r \in Requests : SlotGranted(r) \/ SlotReturned(r)

\* A step grants one slot, takes one back, or leaves them all.
LEMMA SlotMoves == IInv /\ [Next]_vars => SlotMove
<1> SUFFICES ASSUME IInv, [Next]_vars
             PROVE  SlotMove
  OBVIOUS
<1> USE DEF Alone, QueueCounters, Channels, ChannelClosed, Holding, SlotMove,
  SlotsKept, On, At
<1>1. ASSUME NEW r \in Requests, Chooses(r) PROVE SlotMove
  BY <1>1 DEF Chooses
<1>2. ASSUME NEW r \in Requests, QueueStep(r), Queues(r) PROVE SlotMove
  BY <1>2, ZenonT(30) DEF Queues
<1>3. ASSUME NEW r \in Requests, Counts(r) PROVE SlotMove
  <2>1. CASE pc[r] = "acquire" /\ pc'[r] = "forward"
    <3>1. SlotGranted(r)
      BY <1>3, <2>1 DEF Counts, SlotGranted
    <3> QED
      BY <3>1
  <2>2. CASE pc[r] = "release"
    <3>1. SlotReturned(r)
      BY <1>3, <2>2 DEF Counts, SlotReturned
    <3> QED
      BY <3>1
  <2>3. CASE pc[r] = "undo" \/ pc'[r] = "undo"
    BY <1>3, <2>3 DEF Counts
  <2> QED
    BY <1>3, <2>1, <2>2, <2>3, ZenonT(30) DEF Counts
<1>4. ASSUME NEW r \in Requests, Works(r) PROVE SlotMove
  <2>1. \A q \in Requests : cur'[q] = cur[q] /\ (pc'[q] \in Holding <=> pc[q] \in Holding)
    BY <1>4 DEF Works
  <2> QED
    BY <2>1
<1>5. ASSUME NEW r \in Requests, Signals(r) PROVE SlotMove
  BY <1>5 DEF Signals
<1>6. ASSUME NEW r \in Requests, Waits(r) PROVE SlotMove
  BY <1>6 DEF Waits
<1>7. CASE Background
  BY <1>7 DEF Background
<1> HIDE DEF Alone, QueueCounters, Channels, ChannelClosed, Holding, SlotMove,
  SlotsKept, On, At
<1> QED
  BY <1>1, <1>2, <1>3, <1>4, <1>5, <1>6, <1>7, StepEffect DEF Effect

\* A request joins the current channel when it blocks and leaves its channel when
\* its select returns; a broadcast moves all of the current one to a closed one.
LEMMA ChannelStep == IInv /\ BlockedOnOneChannel /\ [Next]_vars =>
  BlockedOnOneChannel'
<1> SUFFICES ASSUME IInv, BlockedOnOneChannel, [Next]_vars
             PROVE  BlockedOnOneChannel'
  OBVIOUS
<1> USE DEF Alone, QueueCounters, Channels, ChannelClosed, Holding,
  BlockedOnOneChannel, At
<1>1. ASSUME NEW r \in Requests, Chooses(r) PROVE BlockedOnOneChannel'
  BY <1>1 DEF Chooses
<1>2. ASSUME NEW r \in Requests, QueueStep(r), Queues(r) PROVE BlockedOnOneChannel'
  <2>1. CASE Block(r)
    BY <1>2, <2>1 DEF Queues, Block, Listen, GoTo, IInv, TypeOK, QueueTypeOK
  <2>2. CASE ~Block(r)
    <3>1. UNCHANGED Channels /\ pc[r] # "listen"
      BY <1>2, <2>2, ZenonT(30) DEF QueueStep, Enter, AddDepth, Refuse, SubDepth,
        RegisterWaiter,
        Register, DeregisterWaiter, Deregister, LeaveQueue, Leave
    <3>2. pc'[r] # "wait"
      BY <1>2, <2>2 DEF QueueStep, Enter, Refuse, Answer, RegisterWaiter,
        DeregisterWaiter, LeaveQueue, GoTo, IInv, TypeOK
    <3> QED
      BY <1>2, <3>1, <3>2, ZenonT(30) DEF Queues
  <2> QED
    BY <2>1, <2>2
<1>3. ASSUME NEW r \in Requests, Counts(r) PROVE BlockedOnOneChannel'
  BY <1>3, ZenonT(30) DEF Counts
<1>4. ASSUME NEW r \in Requests, Works(r) PROVE BlockedOnOneChannel'
  BY <1>4, ZenonT(30) DEF Works
<1>5. ASSUME NEW r \in Requests, Signals(r) PROVE BlockedOnOneChannel'
  BY <1>5, ZenonT(30) DEF Signals
<1>6. ASSUME NEW r \in Requests, Waits(r) PROVE BlockedOnOneChannel'
  <2>1. /\ \A q \in Requests \ {r} : pc'[q] = pc[q]
        /\ pc[r] = "wait" /\ pc'[r] \in {"retry", "deregister"}
        /\ listening' = listening \ {r} /\ woken' = woken \ {r}
    BY <1>6 DEF Waits
  <2>2. At({"wait"})' = At({"wait"}) \ {r}
    BY <2>1
  <2> QED
    BY <2>1, <2>2
<1>7. CASE Background
  BY <1>7 DEF Background
<1> HIDE DEF Alone, QueueCounters, Channels, ChannelClosed, Holding,
  BlockedOnOneChannel, At
<1> QED
  BY <1>1, <1>2, <1>3, <1>4, <1>5, <1>6, <1>7, StepEffect DEF Effect

\* A step that leaves the failure counters and the requests at work on them.
LEMMA FailsKept ==
    ASSUME BreakerCounterSettles, fails' = fails,
           \A q \in Requests :
               pc[q] \in {"eject", "clear"}
                   => pc'[q] \in {"eject", "clear"} /\ cur'[q] = cur[q]
    PROVE  BreakerCounterSettles'
<1>1. \A b \in Backends : On(b, {"eject", "clear"}) \subseteq On(b, {"eject", "clear"})'
  BY DEF On, At
<1> QED
  BY <1>1 DEF BreakerCounterSettles

\* Whoever brings the counter to the threshold goes on to clear it.
LEMMA BreakerStep == IInv /\ BreakerCounterSettles /\ [Next]_vars =>
  BreakerCounterSettles'
<1> SUFFICES ASSUME IInv, BreakerCounterSettles, [Next]_vars
             PROVE  BreakerCounterSettles'
  OBVIOUS
<1> USE DEF Alone, QueueCounters, Channels, ChannelClosed, Holding
<1>1. ASSUME NEW r \in Requests, Chooses(r) PROVE BreakerCounterSettles'
  BY <1>1, FailsKept DEF Chooses
<1>2. ASSUME NEW r \in Requests, QueueStep(r), Queues(r) PROVE
  BreakerCounterSettles'
  BY <1>2, FailsKept DEF Queues
<1>3. ASSUME NEW r \in Requests, Counts(r) PROVE BreakerCounterSettles'
  BY <1>3, FailsKept DEF Counts
<1>4. ASSUME NEW r \in Requests, Works(r) PROVE BreakerCounterSettles'
  <2>1. cur[r] \in Backends /\ fails \in [Backends -> Nat]
    BY <1>4, ZenonT(30) DEF Works, IInv, Locals, Chosen, Counted, TypeOK, BackendTypeOK
  <2>2. ASSUME NEW b \in Backends, b # cur[r]
        PROVE  On(b, {"eject", "clear"})' = On(b, {"eject", "clear"})
    BY <1>4, <2>2, ZenonT(30) DEF Works, On, At
  <2>3. CASE UNCHANGED fails /\ (pc[r] \in {"eject", "clear"} => pc'[r] = "clear")
    BY <1>4, <2>3, FailsKept, ZenonT(30) DEF Works
  <2>4. CASE fails' = [fails EXCEPT ![cur[r]] = 0]
    BY <2>1, <2>2, <2>4, FailureThresholdAssumption DEF BreakerCounterSettles
  <2>5. ASSUME fails' = [fails EXCEPT ![cur[r]] = fails[cur[r]] + 1],
               fails[cur[r]] + 1 >= FailureThreshold => pc'[r] = "eject",
               NEW b \in Backends, fails'[b] >= FailureThreshold
        PROVE  On(b, {"eject", "clear"})' # {}
    <3>1. CASE b = cur[r]
      <4>1. r \in On(b, {"eject", "clear"})'
        BY <1>4, <2>1, <2>5, <3>1 DEF Works, On, At
      <4> QED
        BY <4>1
    <3>2. CASE b # cur[r]
      BY <2>1, <2>2, <2>5, <3>2 DEF BreakerCounterSettles
    <3> QED
      BY <3>1, <3>2
  <2> QED
    BY <1>4, <2>3, <2>4, <2>5 DEF Works, BreakerCounterSettles
<1>5. ASSUME NEW r \in Requests, Signals(r) PROVE BreakerCounterSettles'
  BY <1>5, FailsKept DEF Signals
<1>6. ASSUME NEW r \in Requests, Waits(r) PROVE BreakerCounterSettles'
  BY <1>6, FailsKept, ZenonT(30) DEF Waits
<1>7. CASE Background
  BY <1>7, FailsKept DEF Background
<1> HIDE DEF Alone, QueueCounters, Channels, ChannelClosed, Holding
<1> QED
  BY <1>1, <1>2, <1>3, <1>4, <1>5, <1>6, <1>7, StepEffect DEF Effect

-----------------------------------------------------------------------------
(* Attempts and answers.                                                   *)

\* Where a request may have been sent: what it excludes, and the backend it holds.
SentOK(r) ==
    /\ pc[r] \in {"lookup", "unbind"} => sent[r] = {}
    /\ pc[r] # "done" =>
          \A b \in sent[r] :
              \/ b \in exclude[r]
              \/ b = cur[r] /\ pc[r] \in Holding \cup {"signal", "broadcast"}
    /\ \/ pc[r] = "acquire"
       \/ pc[r] \in {"deregister", "leave"} /\ result[r] = "pending"
       => cur[r] \notin sent[r]

SentExcluded == \A r \in Requests : SentOK(r)

\* Where a request that has its answer may be.
LateOK(r) ==
    result[r] # "pending" =>
        pc[r] \in {"deregister", "leave", "succeed", "bind", "release",
                   "signal", "broadcast", "done"}

AnsweredLate == \A r \in Requests : LateOK(r)

\* A step of r alone keeps what holds of the other requests.
LEMMA AloneKeeps ==
    ASSUME NEW r \in Requests, Alone(r)
    PROVE  /\ SentExcluded /\ SentOK(r)' => SentExcluded'
           /\ AnsweredLate /\ LateOK(r)' => AnsweredLate'
<1>1. ASSUME NEW q \in Requests, q # r
      PROVE  (SentOK(q) => SentOK(q)') /\ (LateOK(q) => LateOK(q)')
  <2>1. /\ pc'[q] = pc[q] /\ cur'[q] = cur[q] /\ exclude'[q] = exclude[q]
        /\ result'[q] = result[q] /\ sent'[q] = sent[q]
    BY <1>1 DEF Alone
  <2> QED
    BY <2>1 DEF SentOK, LateOK
<1> QED
  BY <1>1 DEF SentExcluded, AnsweredLate

\* A backend joins exclude before the request leaves it, and no pick returns an
\* excluded backend.
LEMMA SentStep == IInv /\ SentExcluded /\ [Next]_vars => SentExcluded'
<1> SUFFICES ASSUME IInv, SentExcluded, [Next]_vars
             PROVE  SentExcluded'
  OBVIOUS
<1>1. ASSUME NEW r \in Requests, Chooses(r) PROVE SentExcluded'
  <2>1. Alone(r) /\ SentOK(r)
    BY <1>1 DEF Chooses, SentExcluded
  <2>2. SentOK(r)'
    BY <1>1, <2>1, ZenonT(30) DEF Chooses, SentOK, Holding
  <2> QED
    BY <2>1, <2>2, AloneKeeps
<1>2. ASSUME NEW r \in Requests, QueueStep(r), Queues(r) PROVE SentExcluded'
  <2>1. Alone(r) /\ SentOK(r)
    BY <1>2, ZenonT(30) DEF Queues, SentExcluded
  <2>2. SentOK(r)'
    BY <1>2, <2>1 DEF Queues, SentOK, Holding
  <2> QED
    BY <2>1, <2>2, AloneKeeps
<1>3. ASSUME NEW r \in Requests, Counts(r) PROVE SentExcluded'
  <2>1. Alone(r) /\ SentOK(r) /\ exclude'[r] = exclude[r]
    BY <1>3 DEF Counts, SentExcluded
  <2>2. pc[r] = "acquire" => SentOK(r)'
    <3>1. pc[r] = "acquire" => /\ pc'[r] \in {"forward", "undo"} /\ cur'[r] = cur[r]
                               /\ sent'[r] \in {sent[r], sent[r] \cup {cur[r]}}
                               /\ pc'[r] = "undo" => sent'[r] = sent[r]
      BY <1>3 DEF Counts
    <3> QED
      BY <2>1, <3>1 DEF SentOK, Holding
  <2>3. pc[r] = "undo" => SentOK(r)'
    <3>1. pc[r] = "undo" => pc'[r] \in {"pick", "done"} /\ sent'[r] = sent[r]
      BY <1>3 DEF Counts
    <3> QED
      BY <2>1, <3>1, ZenonT(30) DEF SentOK, Holding
  <2>4. pc[r] = "release" => SentOK(r)'
    <3>1. pc[r] = "release" => /\ pc'[r] = "signal" /\ cur'[r] = cur[r]
                               /\ sent'[r] = sent[r]
      BY <1>3 DEF Counts
    <3> QED
      BY <2>1, <3>1, ZenonT(30) DEF SentOK, Holding
  <2>5. pc[r] \in {"acquire", "undo", "release"}
    BY <1>3 DEF Counts
  <2> QED
    BY <2>1, <2>2, <2>3, <2>4, <2>5, AloneKeeps
<1>4. ASSUME NEW r \in Requests, Works(r) PROVE SentExcluded'
  <2>1. Alone(r) /\ SentOK(r)
    BY <1>4, ZenonT(30) DEF Works, SentExcluded
  <2>2. SentOK(r)'
    BY <1>4, <2>1, ZenonT(30) DEF Works, SentOK, Holding
  <2> QED
    BY <2>1, <2>2, AloneKeeps
<1>5. ASSUME NEW r \in Requests, Signals(r) PROVE SentExcluded'
  <2>1. Alone(r) /\ SentOK(r)
    BY <1>5, ZenonT(30) DEF Signals, SentExcluded
  <2>2. SentOK(r)'
    BY <1>5, <2>1 DEF Signals, SentOK, Holding
  <2> QED
    BY <2>1, <2>2, AloneKeeps
<1>6. ASSUME NEW r \in Requests, Waits(r) PROVE SentExcluded'
  <2>1. Alone(r) /\ SentOK(r)
    BY <1>6, ZenonT(30) DEF Waits, SentExcluded
  <2>2. SentOK(r)'
    BY <1>6, <2>1 DEF Waits, SentOK, Holding
  <2> QED
    BY <2>1, <2>2, AloneKeeps
<1>7. CASE Background
  BY <1>7, ZenonT(30) DEF Background, SentExcluded, SentOK
<1> QED
  BY <1>1, <1>2, <1>3, <1>4, <1>5, <1>6, <1>7, StepEffect DEF Effect

\* No step takes a request with an answer back into the attempts loop.
LEMMA AnsweredStep == IInv /\ AnsweredLate /\ [Next]_vars => AnsweredLate'
<1> SUFFICES ASSUME IInv, AnsweredLate, [Next]_vars
             PROVE  AnsweredLate'
  OBVIOUS
<1>1. ASSUME NEW r \in Requests, Chooses(r) PROVE AnsweredLate'
  <2>1. Alone(r) /\ LateOK(r)
    BY <1>1 DEF Chooses, AnsweredLate
  <2>2. LateOK(r)'
    BY <1>1, <2>1 DEF Chooses, LateOK, Holding
  <2> QED
    BY <2>1, <2>2, AloneKeeps
<1>2. ASSUME NEW r \in Requests, QueueStep(r), Queues(r) PROVE AnsweredLate'
  <2>1. Alone(r) /\ LateOK(r)
    BY <1>2, ZenonT(30) DEF Queues, AnsweredLate
  <2>2. LateOK(r)'
    BY <1>2, <2>1 DEF Queues, LateOK, Holding
  <2> QED
    BY <2>1, <2>2, AloneKeeps
<1>3. ASSUME NEW r \in Requests, Counts(r) PROVE AnsweredLate'
  <2>1. Alone(r) /\ LateOK(r)
    BY <1>3, ZenonT(30) DEF Counts, AnsweredLate
  <2>2. LateOK(r)'
    BY <1>3, <2>1, ZenonT(30) DEF Counts, LateOK, Holding
  <2> QED
    BY <2>1, <2>2, AloneKeeps
<1>4. ASSUME NEW r \in Requests, Works(r) PROVE AnsweredLate'
  <2>1. Alone(r) /\ LateOK(r)
    BY <1>4, ZenonT(30) DEF Works, AnsweredLate
  <2>2. LateOK(r)'
    BY <1>4, <2>1 DEF Works, LateOK, Holding
  <2> QED
    BY <2>1, <2>2, AloneKeeps
<1>5. ASSUME NEW r \in Requests, Signals(r) PROVE AnsweredLate'
  <2>1. Alone(r) /\ LateOK(r)
    BY <1>5 DEF Signals, AnsweredLate
  <2>2. LateOK(r)'
    BY <1>5, <2>1 DEF Signals, LateOK, Holding
  <2> QED
    BY <2>1, <2>2, AloneKeeps
<1>6. ASSUME NEW r \in Requests, Waits(r) PROVE AnsweredLate'
  <2>1. Alone(r) /\ LateOK(r)
    BY <1>6, ZenonT(30) DEF Waits, AnsweredLate
  <2>2. LateOK(r)'
    BY <1>6, <2>1 DEF Waits, LateOK, Holding
  <2> QED
    BY <2>1, <2>2, AloneKeeps
<1>7. CASE Background
  BY <1>7 DEF Background, AnsweredLate, LateOK
<1> QED
  BY <1>1, <1>2, <1>3, <1>4, <1>5, <1>6, <1>7, StepEffect DEF Effect

\* What AnswerKept says of one request.
KeptOK(r) == result[r] # "pending" => result'[r] = result[r] /\ sent'[r] = sent[r]

\* Every step that answers or forwards finds the request without an answer.
LEMMA AnswerStep == IInv /\ AnsweredLate /\ [Next]_vars => AnswerKept
<1> SUFFICES ASSUME IInv, AnsweredLate, [Next]_vars
             PROVE  AnswerKept
  OBVIOUS
<1>1. ASSUME NEW r \in Requests, Alone(r), LateOK(r) => KeptOK(r) PROVE AnswerKept
  <2>1. LateOK(r)
    BY DEF AnsweredLate
  <2>2. ASSUME NEW q \in Requests, q # r PROVE KeptOK(q)
    BY <1>1, <2>2 DEF Alone, KeptOK
  <2> QED
    BY <1>1, <2>1, <2>2 DEF AnswerKept, KeptOK
<1>2. ASSUME NEW r \in Requests, Chooses(r) PROVE AnswerKept
  <2>1. Alone(r)
    BY <1>2 DEF Chooses
  <2>2. LateOK(r) => KeptOK(r)
    BY <1>2 DEF Chooses, LateOK, KeptOK, Holding
  <2> QED
    BY <1>1, <2>1, <2>2
<1>3. ASSUME NEW r \in Requests, QueueStep(r), Queues(r) PROVE AnswerKept
  <2>1. Alone(r)
    BY <1>3, ZenonT(30) DEF Queues
  <2>2. LateOK(r) => KeptOK(r)
    BY <1>3 DEF Queues, LateOK, KeptOK, Holding
  <2> QED
    BY <1>1, <2>1, <2>2
<1>4. ASSUME NEW r \in Requests, Counts(r) PROVE AnswerKept
  <2>1. Alone(r)
    BY <1>4, ZenonT(30) DEF Counts
  <2>2. LateOK(r) => KeptOK(r)
    BY <1>4, ZenonT(30) DEF Counts, LateOK, KeptOK, Holding
  <2> QED
    BY <1>1, <2>1, <2>2
<1>5. ASSUME NEW r \in Requests, Works(r) PROVE AnswerKept
  <2>1. Alone(r)
    BY <1>5, ZenonT(30) DEF Works
  <2>2. LateOK(r) => KeptOK(r)
    BY <1>5 DEF Works, LateOK, KeptOK, Holding
  <2> QED
    BY <1>1, <2>1, <2>2
<1>6. ASSUME NEW r \in Requests, Signals(r) PROVE AnswerKept
  <2>1. Alone(r)
    BY <1>6, ZenonT(30) DEF Signals
  <2>2. LateOK(r) => KeptOK(r)
    BY <1>6 DEF Signals, LateOK, KeptOK, Holding
  <2> QED
    BY <1>1, <2>1, <2>2
<1>7. ASSUME NEW r \in Requests, Waits(r) PROVE AnswerKept
  <2>1. Alone(r)
    BY <1>7 DEF Waits
  <2>2. LateOK(r) => KeptOK(r)
    BY <1>7 DEF Waits, LateOK, KeptOK, Holding
  <2> QED
    BY <1>1, <2>1, <2>2
<1>8. CASE Background
  BY <1>8 DEF Background, AnswerKept
<1> QED
  BY <1>2, <1>3, <1>4, <1>5, <1>6, <1>7, <1>8, StepEffect DEF Effect

-----------------------------------------------------------------------------
(* Counting requests.                                                      *)

INSTANCE FiniteSetTheorems

\* Any set of requests is finite, and adding or removing one counts by one.
LEMMA Counting ==
    ASSUME NEW T, T \subseteq Requests
    PROVE  /\ IsFiniteSet(T)
           /\ Cardinality(T) \in Nat
           /\ \A r \in T : Cardinality(T) >= 1 /\ Cardinality(T \ {r}) = Cardinality(T) - 1
           /\ \A r : r \notin T => Cardinality(T \cup {r}) = Cardinality(T) + 1
<1>1. IsFiniteSet(T)
  BY RequestsAssumption, FS_Subset
<1>2. Cardinality(T) \in Nat
  BY <1>1, FS_CardinalityType
<1>3. ASSUME NEW r \in T
      PROVE  Cardinality(T) >= 1 /\ Cardinality(T \ {r}) = Cardinality(T) - 1
  <2>1. IsFiniteSet(T \ {r}) /\ Cardinality(T \ {r}) = Cardinality(T) - 1
    BY <1>1, FS_RemoveElement
  <2>2. Cardinality(T \ {r}) \in Nat
    BY <2>1, FS_CardinalityType
  <2> QED
    BY <1>2, <2>1, <2>2
<1>4. ASSUME NEW r, r \notin T
      PROVE  Cardinality(T \cup {r}) = Cardinality(T) + 1
  BY <1>1, <1>4, FS_AddElement
<1> QED
  BY <1>1, <1>2, <1>3, <1>4

\* A request is counted once more, or once less.
LEMMA OneMore ==
    ASSUME NEW T, T \subseteq Requests, NEW r, r \notin T, NEW U, U = T \cup {r}
    PROVE  Cardinality(U) = Cardinality(T) + 1 /\ Cardinality(T) \in Nat
  BY Counting, ZenonT(30)

LEMMA OneLess ==
    ASSUME NEW T, T \subseteq Requests, NEW r, r \in T, NEW U, U = T \ {r}
    PROVE  Cardinality(U) = Cardinality(T) - 1 /\ Cardinality(T) \in Nat
  BY Counting, ZenonT(30)

LEMMA OnWithin == \A b, S : On(b, S) \subseteq Requests
  BY ZenonT(30) DEF On, At

\* If the counters are exact they are positive where a request is counted.
LEMMA CountersPositive == IInv => Positive
<1> SUFFICES ASSUME IInv, NEW r \in Requests
             PROVE  /\ pc[r] \in Counted => inflight[cur[r]] >= 1
                    /\ pc[r] \in InDepth => depth >= 1
                    /\ pc[r] \in Registered => waiters >= 1
                    /\ pc[r] = "leave" => classes[ModelOf[r]] >= 1
  BY DEF Positive
<1>1. ASSUME pc[r] \in Counted PROVE inflight[cur[r]] >= 1
  <2>1. cur[r] \in Backends /\ r \in On(cur[r], Counted)
    BY <1>1 DEF IInv, Locals, Chosen, On, At
  <2>2. On(cur[r], Counted) \subseteq Requests
    BY DEF On, At
  <2> QED
    BY <2>1, <2>2, Counting, ZenonT(30) DEF IInv, InflightExact
<1>2. ASSUME pc[r] \in InDepth PROVE depth >= 1
  BY <1>2, Counting, ZenonT(30) DEF IInv, CountersExact, At
<1>3. ASSUME pc[r] \in Registered PROVE waiters >= 1
  BY <1>3, Counting, ZenonT(30) DEF IInv, CountersExact, At
<1>4. ASSUME pc[r] = "leave" PROVE classes[ModelOf[r]] >= 1
  <2>1. ModelOf[r] \in Models /\ r \in InClass(ModelOf[r])
    BY <1>4, RoutesAssumption DEF InClass, At
  <2>2. InClass(ModelOf[r]) \subseteq Requests
    BY DEF InClass, At
  <2> QED
    BY <2>1, <2>2, Counting, ZenonT(30) DEF IInv, CountersExact
<1> QED
  BY <1>1, <1>2, <1>3, <1>4

\* A request that leaves Counted takes its unit of inflight with it.
LEMMA InflightReturned ==
    ASSUME IInv, NEW r \in Requests, pc[r] \in Counted, 
           inflight' = [inflight EXCEPT ![cur[r]] = inflight[cur[r]] - 1],
           pc'[r] \notin Counted,
           \A q \in Requests \ {r} : pc'[q] = pc[q] /\ cur'[q] = cur[q]
    PROVE  InflightExact'
<1> SUFFICES ASSUME NEW b \in Backends
             PROVE  inflight'[b] = Cardinality(On(b, Counted)')
  BY DEF InflightExact
<1>1. On(b, Counted) \subseteq Requests
  BY DEF On, At
<1>2. cur[r] \in Backends /\ inflight \in [Backends -> Nat]
  BY ZenonT(30) DEF IInv, Locals, Chosen, TypeOK, BackendTypeOK
<1>3. inflight[b] = Cardinality(On(b, Counted))
  BY ZenonT(30) DEF IInv, InflightExact
<1>4. CASE b = cur[r]
  <2>1. On(b, Counted)' = On(b, Counted) \ {r} /\ r \in On(b, Counted)
    BY <1>4 DEF On, At
  <2>2. Cardinality(On(b, Counted)') = Cardinality(On(b, Counted)) - 1
    BY <2>1, OnWithin, OneLess, ZenonT(30)
  <2> QED
    BY <1>1, <1>2, <1>3, <1>4, <2>2
<1>5. CASE b # cur[r]
  <2>1. On(b, Counted)' = On(b, Counted)
    BY <1>5 DEF On, At
  <2> QED
    BY <1>2, <1>3, <1>5, <2>1
<1> QED
  BY <1>4, <1>5

\* Every step keeps inflight equal to the number of requests it counts.
LEMMA InflightStep == IInv /\ [Next]_vars => InflightExact'
<1> SUFFICES ASSUME IInv, [Next]_vars
             PROVE  InflightExact'
  OBVIOUS
<1> USE DEF Alone, QueueCounters, Channels, ChannelClosed, Chosen, Counted, Holding
<1>1. ASSUME NEW r \in Requests, Chooses(r) PROVE InflightExact'
  BY <1>1, InflightKept DEF Chooses
<1>2. ASSUME NEW r \in Requests, QueueStep(r), Queues(r) PROVE InflightExact'
  BY <1>2, InflightKept, ZenonT(30) DEF Queues
<1>3. ASSUME NEW r \in Requests, Counts(r) PROVE InflightExact'
  <2>1. CASE pc[r] = "acquire"
    <3> SUFFICES ASSUME NEW b \in Backends
                 PROVE  inflight'[b] = Cardinality(On(b, Counted)')
      BY DEF InflightExact
    <3>1. On(b, Counted) \subseteq Requests /\ r \notin On(b, Counted)
      BY <2>1 DEF On, At
    <3>2. inflight[b] = Cardinality(On(b, Counted)) /\ inflight \in [Backends ->
      Nat]
      BY DEF IInv, InflightExact, TypeOK, BackendTypeOK
    <3>3. /\ cur[r] \in Backends
          /\ inflight' = [inflight EXCEPT ![cur[r]] = inflight[cur[r]] + 1]
      BY <1>3, <2>1, ZenonT(30) DEF Counts
    <3>4. /\ pc'[r] \in Counted /\ cur'[r] = cur[r] /\ pc[r] \notin Counted
          /\ \A q \in Requests \ {r} : pc'[q] = pc[q] /\ cur'[q] = cur[q]
      BY <1>3, <2>1, ZenonT(30) DEF Counts
    <3>5. CASE b = cur[r]
      <4>1. On(b, Counted)' = On(b, Counted) \cup {r}
        <5> HIDE DEF Counted
        <5> QED
          BY <3>5, <3>4, ZenonT(30) DEF On, At
      <4>2. Cardinality(On(b, Counted)') = Cardinality(On(b, Counted)) + 1
        BY <3>1, <4>1, OneMore, ZenonT(30)
      <4> QED
        BY <3>2, <3>3, <3>5, <4>2
    <3>6. CASE b # cur[r]
      <4>1. On(b, Counted)' = On(b, Counted)
        <5> HIDE DEF Counted
        <5> QED
          BY <3>6, <3>4 DEF On, At
      <4> QED
        BY <3>2, <3>3, <3>6, <4>1
    <3> QED
      BY <3>5, <3>6
  <2>2. CASE pc[r] # "acquire"
    BY <1>3, <2>2, InflightReturned, ZenonT(30) DEF Counts
  <2> QED
    BY <2>1, <2>2
<1>4. ASSUME NEW r \in Requests, Works(r) PROVE InflightExact'
  BY <1>4, InflightKept, ZenonT(30) DEF Works
<1>5. ASSUME NEW r \in Requests, Signals(r) PROVE InflightExact'
  BY <1>5, InflightKept DEF Signals
<1>6. ASSUME NEW r \in Requests, Waits(r) PROVE InflightExact'
  BY <1>6, InflightKept, ZenonT(30) DEF Waits
<1>7. CASE Background
  BY <1>7, InflightKept, ZenonT(30) DEF Background
<1> HIDE DEF Alone, QueueCounters, Channels, ChannelClosed, Chosen, Counted, Holding
<1> QED
  BY <1>1, <1>2, <1>3, <1>4, <1>5, <1>6, <1>7, StepEffect DEF Effect

\* Every step keeps the queue's counters equal to the requests they count.
LEMMA CountersStep == IInv /\ [Next]_vars => CountersExact'
<1> SUFFICES ASSUME IInv, [Next]_vars
             PROVE  CountersExact'
  OBVIOUS
<1> USE DEF Alone, QueueCounters, Channels, ChannelClosed, InDepth, Queued,
  Registered, Holding
<1>1. ASSUME NEW r \in Requests, Chooses(r) PROVE CountersExact'
  BY <1>1, CountersKept DEF Chooses
<1>2. ASSUME NEW r \in Requests, QueueStep(r), Queues(r) PROVE CountersExact'
  <2> USE DEF IInv, TypeOK, QueueTypeOK, GoTo, backendVars, requestVars, probeVars
  <2>1. CASE Enter(r)
    <3>1. /\ At(InDepth)' = At(InDepth) \cup {r} /\ r \notin At(InDepth)
          /\ At(Registered)' = At(Registered)
          /\ \A m \in Models : InClass(m)' = InClass(m)
      BY <2>1 DEF Enter, At, InClass
    <3> QED
      BY <2>1, <3>1, QueueSets, Counting DEF Enter, AddDepth, CountersExact
  <2>2. CASE Refuse(r)
    <3>1. /\ At(InDepth)' = At(InDepth) \ {r} /\ r \in At(InDepth)
          /\ At(Registered)' = At(Registered)
          /\ \A m \in Models : InClass(m)' = InClass(m)
      BY <2>2 DEF Refuse, Answer, At, InClass
    <3> QED
      BY <2>2, <3>1, QueueSets, Counting DEF Refuse, SubDepth, CountersExact
  <2>3. CASE RegisterWaiter(r)
    <3>1. /\ At(InDepth)' = At(InDepth)
          /\ At(Registered)' = At(Registered) \cup {r} /\ r \notin At(Registered)
      BY <2>3 DEF RegisterWaiter, At
    <3>2. ModelOf[r] \in Models /\ classes \in [Models -> Nat]
      BY RoutesAssumption
    <3>3. ASSUME NEW m \in Models
          PROVE  classes'[m] = Cardinality(InClass(m)')
      <4>1. CASE m = ModelOf[r]
        <5>1. InClass(m)' = InClass(m) \cup {r} /\ r \notin InClass(m)
          BY <2>3, <4>1 DEF RegisterWaiter, At, InClass
        <5>2. Cardinality(InClass(m)') = Cardinality(InClass(m)) + 1
          BY <5>1, QueueSets, OneMore, ZenonT(30)
        <5>3. classes[m] = Cardinality(InClass(m))
          BY ZenonT(30) DEF CountersExact
        <5> QED
          BY <2>3, <3>2, <4>1, <5>2, <5>3 DEF RegisterWaiter, Register
      <4>2. CASE m # ModelOf[r]
        <5>1. pc' = [pc EXCEPT ![r] = "listen"] /\ pc \in [Requests -> Steps]
          BY <2>3 DEF RegisterWaiter
        <5>2. InClass(m)' = InClass(m)
          BY <4>2, <5>1, ZenonT(30) DEF At, InClass
        <5> QED
          BY <2>3, <3>2, <4>2, <5>2 DEF RegisterWaiter, Register, CountersExact
      <4> QED
        BY <4>1, <4>2, ZenonT(30)
    <3>4. depth' = Cardinality(At(InDepth)') /\ waiters' =
      Cardinality(At(Registered)')
      BY <2>3, <3>1, QueueSets, Counting DEF RegisterWaiter, Register, CountersExact
    <3> QED
      BY <3>3, <3>4 DEF CountersExact
  <2>4. CASE Block(r)
    BY <2>4, CountersKept DEF Block, Listen
  <2>5. CASE DeregisterWaiter(r)
    <3>1. /\ At(InDepth)' = At(InDepth)
          /\ At(Registered)' = At(Registered) \ {r} /\ r \in At(Registered)
          /\ \A m \in Models : InClass(m)' = InClass(m)
      BY <2>5 DEF DeregisterWaiter, At, InClass
    <3> QED
      BY <2>5, <3>1, QueueSets, Counting DEF DeregisterWaiter, Deregister,
        CountersExact
  <2>6. CASE LeaveQueue(r)
    <3>1. /\ At(InDepth)' = At(InDepth) \ {r} /\ r \in At(InDepth)
          /\ At(Registered)' = At(Registered)
      BY <2>6 DEF LeaveQueue, At
    <3>2. ModelOf[r] \in Models /\ classes \in [Models -> Nat]
      BY RoutesAssumption
    <3>3. ASSUME NEW m \in Models
          PROVE  classes'[m] = Cardinality(InClass(m)')
      <4>1. CASE m = ModelOf[r]
        <5>1. InClass(m)' = InClass(m) \ {r} /\ r \in InClass(m)
          BY <2>6, <4>1 DEF LeaveQueue, At, InClass
        <5> QED
          BY <2>6, <3>2, <4>1, <5>1, QueueSets, Counting DEF LeaveQueue,
            Leave, CountersExact
      <4>2. CASE m # ModelOf[r]
        <5>1. InClass(m)' = InClass(m)
          BY <2>6, <4>2 DEF LeaveQueue, At, InClass
        <5> QED
          BY <2>6, <3>2, <4>2, <5>1 DEF LeaveQueue, Leave, CountersExact
      <4> QED
        BY <4>1, <4>2, ZenonT(30)
    <3>4. depth' = Cardinality(At(InDepth)') /\ waiters' =
      Cardinality(At(Registered)')
      BY <2>6, <3>1, QueueSets, Counting, ZenonT(30) DEF LeaveQueue, Leave, CountersExact
    <3> QED
      BY <3>3, <3>4 DEF CountersExact
  <2> HIDE DEF IInv, TypeOK, QueueTypeOK, GoTo
  <2> QED
    BY <1>2, <2>1, <2>2, <2>3, <2>4, <2>5, <2>6 DEF QueueStep
<1>3. ASSUME NEW r \in Requests, Counts(r) PROVE CountersExact'
  BY <1>3, CountersKept, ZenonT(30) DEF Counts
<1>4. ASSUME NEW r \in Requests, Works(r) PROVE CountersExact'
  BY <1>4, CountersKept, ZenonT(30) DEF Works
<1>5. ASSUME NEW r \in Requests, Signals(r) PROVE CountersExact'
  BY <1>5, CountersKept, ZenonT(30) DEF Signals
<1>6. ASSUME NEW r \in Requests, Waits(r) PROVE CountersExact'
  BY <1>6, CountersKept, ZenonT(30) DEF Waits
<1>7. CASE Background
  BY <1>7, CountersKept, ZenonT(30) DEF Background
<1> HIDE DEF Alone, QueueCounters, Channels, ChannelClosed, InDepth, Queued,
  Registered, Holding
<1> QED
  BY <1>1, <1>2, <1>3, <1>4, <1>5, <1>6, <1>7, StepEffect DEF Effect

\* The invariant holds at the start.
LEMMA InitIInv == Init => IInv
<1> SUFFICES ASSUME Init PROVE IInv
  OBVIOUS
<1>1. TypeOK /\ Locals
  BY AttemptsAssumption DEF Init, BackendInit, QueueInit, TypeOK, BackendTypeOK,
    QueueTypeOK, Locals, Chosen, Counted, Holding, Steps, Results, ProbeSteps
<1>2. \A b \in Backends : On(b, Counted) = {}
  BY DEF Init, On, At, Counted, Holding
<1>3. At(InDepth) = {} /\ At(Registered) = {} /\ \A m \in Models : InClass(m) = {}
  BY DEF Init, At, InDepth, Queued, Registered, InClass
<1>4. InflightExact
  BY <1>2, FS_EmptySet, ZenonT(30) DEF Init, BackendInit, InflightExact
<1>5. CountersExact
  BY <1>3, FS_EmptySet, ZenonT(30) DEF Init, QueueInit, CountersExact
<1> QED
  BY <1>1, <1>4, <1>5 DEF IInv

\* There are at most as many holders as the counter says.
LEMMA HoldersCounted ==
    ASSUME IInv, NEW b \in Backends
    PROVE  /\ On(b, Holding) \subseteq Requests
           /\ Cardinality(On(b, Holding)) \in Nat
           /\ inflight[b] \in Nat
           /\ Cardinality(On(b, Holding)) <= inflight[b]
<1>1. /\ On(b, Holding) \subseteq On(b, Counted)
      /\ On(b, Holding) \subseteq Requests /\ On(b, Counted) \subseteq Requests
  BY DEF On, At, Counted
<1>2. Cardinality(On(b, Holding)) <= Cardinality(On(b, Counted))
  BY <1>1, Counting, FS_Subset
<1> QED
  BY <1>1, <1>2, Counting DEF IInv, InflightExact, TypeOK, BackendTypeOK

DepthBounded == Cardinality(At(Queued)) <= MaxDepth

\* A step that admits nobody to the queue leaves it within its depth.
LEMMA QueueKept ==
    ASSUME DepthBounded, At(Queued)' \subseteq At(Queued)
    PROVE  DepthBounded'
<1>1. IsFiniteSet(At(Queued)) /\ Cardinality(At(Queued)) \in Nat
  BY QueueSets, Counting
<1>2. /\ Cardinality(At(Queued)') <= Cardinality(At(Queued))
      /\ Cardinality(At(Queued)') \in Nat
  BY <1>1, FS_Subset, FS_CardinalityType
<1> QED
  BY <1>1, <1>2, MaxDepthAssumption DEF DepthBounded

\* Only Enter admits a request, and only when the counter, which is at least the
\* number of queued requests, is below max_depth.
LEMMA DepthStep == IInv /\ DepthBounded /\ [Next]_vars => DepthBounded'
<1> SUFFICES ASSUME IInv, DepthBounded, [Next]_vars
             PROVE  DepthBounded'
  OBVIOUS
<1> USE DEF Alone, QueueCounters, Channels, ChannelClosed, Queued, Registered,
  Holding
<1>1. ASSUME NEW r \in Requests, Chooses(r) PROVE DepthBounded'
  BY <1>1, QueueKept, ZenonT(30) DEF Chooses, At
<1>2. ASSUME NEW r \in Requests, QueueStep(r), Queues(r) PROVE DepthBounded'
  <2> USE DEF IInv, TypeOK, GoTo
  <2>1. CASE Enter(r) /\ WithinDepth(depth + 1)
    <3>1. At(Queued)' = At(Queued) \cup {r} /\ r \notin At(Queued)
      BY <2>1 DEF Enter, At
    <3>2. At(Queued) \subseteq At(InDepth) /\ IsFiniteSet(At(InDepth))
      BY QueueSets, Counting DEF At, InDepth
    <3>3. Cardinality(At(Queued)) <= depth /\ depth \in Nat
      BY <3>2, FS_Subset DEF CountersExact, QueueTypeOK
    <3> QED
      BY <2>1, <3>1, <3>3, QueueSets, Counting, MaxDepthAssumption
      DEF WithinDepth, DepthBounded
  <2>2. CASE Enter(r) /\ ~WithinDepth(depth + 1)
    BY <2>2, QueueKept DEF Enter, At
  <2>3. CASE Refuse(r) \/ RegisterWaiter(r) \/ Block(r)
    BY <2>3, QueueKept DEF Refuse, Answer, RegisterWaiter, Block, At
  <2>4. CASE DeregisterWaiter(r) \/ LeaveQueue(r)
    BY <2>4, QueueKept DEF DeregisterWaiter, LeaveQueue, At
  <2> HIDE DEF IInv, TypeOK, GoTo
  <2> QED
    BY <1>2, <2>1, <2>2, <2>3, <2>4 DEF QueueStep
<1>3. ASSUME NEW r \in Requests, Counts(r) PROVE DepthBounded'
  BY <1>3, QueueKept, ZenonT(30) DEF Counts, At
<1>4. ASSUME NEW r \in Requests, Works(r) PROVE DepthBounded'
  BY <1>4, QueueKept, ZenonT(30) DEF Works, At
<1>5. ASSUME NEW r \in Requests, Signals(r) PROVE DepthBounded'
  BY <1>5, QueueKept DEF Signals, At
<1>6. ASSUME NEW r \in Requests, Waits(r) PROVE DepthBounded'
  BY <1>6, QueueKept DEF Waits, At
<1>7. CASE Background
  BY <1>7, QueueKept, ZenonT(30) DEF Background, At
<1> HIDE DEF Alone, QueueCounters, Channels, ChannelClosed, Queued, Registered,
  Holding
<1> QED
  BY <1>1, <1>2, <1>3, <1>4, <1>5, <1>6, <1>7, StepEffect DEF Effect

\* With no registered waiter nobody is blocked, so a Signal that skips misses nobody.
LEMMA ReachedAll ==
    ASSUME IInv, BlockedOnOneChannel, QueueEnabled, Reached
    PROVE  listening' = {}
<1>1. CASE ChannelClosed
  BY <1>1 DEF ChannelClosed
<1>2. CASE SignalSkips /\ UNCHANGED Channels
  <2>1. waiters = 0 /\ listening' = listening
    BY <1>2 DEF SignalSkips, Channels
  <2>2. Cardinality(At(Registered)) = 0 /\ IsFiniteSet(At(Registered))
    BY <2>1, QueueSets, Counting DEF IInv, CountersExact
  <2>3. At(Registered) = {}
    BY <2>2, FS_EmptySet
  <2>4. listening \subseteq At(Registered)
    BY DEF BlockedOnOneChannel, At, Registered
  <2> QED
    BY <2>1, <2>3, <2>4
<1> QED
  BY <1>1, <1>2 DEF Reached

\* Only the steps of Signal take a request or a probe out of it.
LEMMA ReachStep == IInv /\ BlockedOnOneChannel /\ [Next]_vars => SignalReaches
<1> SUFFICES ASSUME IInv, BlockedOnOneChannel, [Next]_vars
             PROVE  SignalReaches
  OBVIOUS
<1> USE DEF Alone, Holding, SignalReaches
<1>1. ASSUME NEW r \in Requests, Chooses(r) PROVE SignalReaches
  BY <1>1, ReachedAll DEF Chooses
<1>2. ASSUME NEW r \in Requests, QueueStep(r), Queues(r) PROVE SignalReaches
  BY <1>2, ReachedAll, ZenonT(30) DEF Queues
<1>3. ASSUME NEW r \in Requests, Counts(r) PROVE SignalReaches
  BY <1>3, ReachedAll, ZenonT(30) DEF Counts
<1>4. ASSUME NEW r \in Requests, Works(r) PROVE SignalReaches
  BY <1>4, ReachedAll, ZenonT(30) DEF Works
<1>5. ASSUME NEW r \in Requests, Signals(r) PROVE SignalReaches
  BY <1>5, ReachedAll, ZenonT(30) DEF Signals
<1>6. ASSUME NEW r \in Requests, Waits(r) PROVE SignalReaches
  BY <1>6, ReachedAll, ZenonT(30) DEF Waits
<1>7. CASE Background
  BY <1>7, ReachedAll, ZenonT(30) DEF Background
<1> HIDE DEF Alone, Holding, SignalReaches
<1> QED
  BY <1>1, <1>2, <1>3, <1>4, <1>5, <1>6, <1>7, StepEffect DEF Effect

-----------------------------------------------------------------------------
(* The theorems.                                                           *)

\* The inductive invariant: types, locals and counters support one another, since
\* a counter is a natural number only because it counts the request that
\* decrements it.
THEOREM Invariance == Spec => []IInv
<1>1. IInv /\ [Next]_vars => IInv'
  BY LocalsStep, TypeStep, CountersPositive, InflightStep, CountersStep DEF IInv
<1> QED
  BY InitIInv, <1>1, PTL DEF Spec

\* Every variable of the serving path stays in its type; in particular no
\* decrement makes inflight, depth, waiters or a class negative.
THEOREM TypeCorrect == Spec => []TypeOK
  BY Invariance, PTL DEF IInv

\* No slot leaks and none is freed twice, on any path through serveNormal.
THEOREM NoSlotLeak == Spec => []InflightExact
  BY Invariance, PTL DEF IInv

\* max_concurrency is respected although TryAcquire increments before it compares:
\* a slot is granted only when the counter, which is at least the number of
\* holders, was below the limit.
THEOREM CapacityIsRespected == Spec => []CapacityRespected
<1>1. Init => CapacityRespected
  <2> SUFFICES ASSUME Init, NEW b \in Backends, MaxConcurrency[b] > 0
               PROVE  Cardinality(On(b, Holding)) <= MaxConcurrency[b]
    BY DEF CapacityRespected
  <2>1. On(b, Holding) = {}
    BY DEF Init, On, At, Holding
  <2> QED
    BY <2>1, FS_EmptySet, MaxConcurrencyAssumption
<1>2. IInv /\ CapacityRespected /\ [Next]_vars => CapacityRespected'
  <2> SUFFICES ASSUME IInv, CapacityRespected, [Next]_vars,
                      NEW b \in Backends, MaxConcurrency[b] > 0
               PROVE  Cardinality(On(b, Holding)') <= MaxConcurrency[b]
    BY DEF CapacityRespected
  <2>1. Cardinality(On(b, Holding)) <= MaxConcurrency[b] /\ MaxConcurrency[b] \in Nat
    BY MaxConcurrencyAssumption DEF CapacityRespected
  <2>2. CASE SlotsKept
    BY <2>1, <2>2 DEF SlotsKept
  <2>3. ASSUME NEW r \in Requests, SlotGranted(r)
        PROVE  Cardinality(On(b, Holding)') <= MaxConcurrency[b]
    <3>1. CASE b = cur[r]
      <4>1. r \notin On(b, Holding) /\ On(b, Holding)' = On(b, Holding) \cup {r}
        BY <2>3, <3>1, ZenonT(30) DEF SlotGranted, On, At, Holding
      <4>2. inflight[b] + 1 <= MaxConcurrency[b]
        BY <2>1, <2>3, <3>1 DEF SlotGranted, WithinLimit
      <4>3. /\ Cardinality(On(b, Holding)') = Cardinality(On(b, Holding)) + 1
            /\ Cardinality(On(b, Holding)) \in Nat
        BY <4>1, OnWithin, OneMore, ZenonT(30)
      <4>4. inflight[b] \in Nat /\ Cardinality(On(b, Holding)) <= inflight[b]
        BY <2>1, HoldersCounted, ZenonT(30)
      <4> QED
        BY <2>1, <4>2, <4>3, <4>4, MaxConcurrencyAssumption
    <3>2. CASE b # cur[r]
      BY <2>1, <2>3, <3>2, ZenonT(30) DEF SlotGranted
    <3> QED
      BY <3>1, <3>2
  <2>4. ASSUME NEW r \in Requests, SlotReturned(r)
        PROVE  Cardinality(On(b, Holding)') <= MaxConcurrency[b]
    <3>1. CASE b = cur[r]
      <4>1. r \in On(b, Holding) /\ On(b, Holding)' = On(b, Holding) \ {r}
        BY <2>4, <3>1 DEF SlotReturned, On, At, Holding
      <4>2. /\ Cardinality(On(b, Holding)') = Cardinality(On(b, Holding)) - 1
            /\ Cardinality(On(b, Holding)) \in Nat
        BY <4>1, OnWithin, OneLess, ZenonT(30)
      <4> QED
        BY <2>1, <4>2
    <3>2. CASE b # cur[r]
      BY <2>1, <2>4, <3>2 DEF SlotReturned
    <3> QED
      BY <3>1, <3>2
  <2> QED
    BY <2>2, <2>3, <2>4, SlotMoves DEF SlotMove
<1> QED
  BY Invariance, <1>1, <1>2, PTL DEF Spec

\* The gateway's counters implement the slot pool: whatever the interleaving,
\* requests see slots that are granted only while there is one.
THEOREM Refinement == Spec => ImplementsSlotPool
<1> DEFINE holders == [b \in Backends |-> On(b, Holding)]
<1>1. Init => Slots!Init
  BY DEF Init, Slots!Init, On, At, Holding
<1>2. IInv /\ [Next]_vars => [Slots!Next]_holders
  <2> SUFFICES ASSUME IInv, [Next]_vars, holders' # holders
               PROVE  Slots!Next
    BY DEF Slots!Next
  <2>1. CASE SlotsKept
    BY <2>1 DEF SlotsKept
  <2>2. ASSUME NEW r \in Requests, SlotGranted(r)
        PROVE  Slots!Grant(r, cur[r])
    <3>1. \A c \in Backends : r \notin On(c, Holding)
      BY <2>2, ZenonT(30) DEF SlotGranted, On, At, Holding
    <3>2. cur[r] \in Backends /\ MaxConcurrency[cur[r]] \in Nat
      BY <2>2, MaxConcurrencyAssumption, ZenonT(30) DEF SlotGranted
    <3>3. \/ MaxConcurrency[cur[r]] = 0
          \/ Cardinality(On(cur[r], Holding)) < MaxConcurrency[cur[r]]
      <4>1. MaxConcurrency[cur[r]] = 0 \/ inflight[cur[r]] + 1 <= MaxConcurrency[cur[r]]
        BY <2>2, <3>2 DEF SlotGranted, WithinLimit
      <4>2. /\ Cardinality(On(cur[r], Holding)) \in Nat /\ inflight[cur[r]] \in Nat
            /\ Cardinality(On(cur[r], Holding)) <= inflight[cur[r]]
        BY <3>2, HoldersCounted, ZenonT(30)
      <4> QED
        BY <3>2, <4>1, <4>2
    <3>4. holders' = [holders EXCEPT ![cur[r]] = @ \cup {r}]
      BY <2>2, ZenonT(30) DEF SlotGranted
    <3>5. Slots!Cardinality(On(cur[r], Holding)) = Cardinality(On(cur[r], Holding))
      BY ZenonT(30) DEF Cardinality, Slots!Cardinality
    <3> QED
      BY <3>1, <3>2, <3>3, <3>4, <3>5, ZenonT(30) DEF Slots!Grant
  <2>3. ASSUME NEW r \in Requests, SlotReturned(r)
        PROVE  Slots!GiveBack(r, cur[r])
    <3>1. cur[r] \in Backends /\ r \in On(cur[r], Holding)
      BY <2>3, ZenonT(30) DEF SlotReturned, On, At, Holding
    <3>2. holders' = [holders EXCEPT ![cur[r]] = @ \ {r}]
      BY <2>3, ZenonT(30) DEF SlotReturned
    <3> QED
      BY <3>1, <3>2 DEF Slots!GiveBack
  <2> QED
    BY <2>1, <2>2, <2>3, SlotMoves, ZenonT(30) DEF SlotMove, SlotGranted, SlotReturned, Slots!Next
<1> QED
  BY Invariance, <1>1, <1>2, PTL DEF Spec, ImplementsSlotPool, Slots!Spec

\* Whichever way WaitFor returns, the queue's three counters say exactly who is
\* in it, and it never admits more than max_depth requests.
THEOREM QueueIsExact == Spec => []QueueAccounting
<1>1. Init => DepthBounded
  <2>1. Init => At(Queued) = {}
    BY DEF Init, At, Queued, Registered
  <2> QED
    BY <2>1, FS_EmptySet, MaxDepthAssumption DEF DepthBounded
<1>2. IInv /\ DepthBounded => QueueAccounting
  BY ZenonT(30) DEF IInv, CountersExact, InClass, DepthBounded, QueueAccounting
<1> QED
  BY Invariance, DepthStep, <1>1, <1>2, PTL DEF Spec

\* A broadcast reaches exactly the requests that are blocked.
THEOREM BlockedAreListed == Spec => []BlockedOnOneChannel
<1>1. Init => BlockedOnOneChannel
  BY DEF Init, QueueInit, BlockedOnOneChannel, At
<1> QED
  BY Invariance, ChannelStep, <1>1, PTL DEF Spec

\* A Signal leaves nobody blocked on the channel that was current when it returned.
THEOREM SignalsReachBlocked == Spec => SignalReachesBlocked
  BY Invariance, BlockedAreListed, ReachStep, PTL DEF Spec, SignalReachesBlocked

\* However many failures and successes race, the failure counter is at the
\* threshold only while some request is about to clear it.
THEOREM BreakerSettles == Spec => []BreakerCounterSettles
<1>1. Init => BreakerCounterSettles
  BY FailureThresholdAssumption DEF Init, BackendInit, BreakerCounterSettles
<1> QED
  BY Invariance, BreakerStep, <1>1, PTL DEF Spec

\* A retry changes backend, through all attempts and stays in the queue.
THEOREM RetryChangesBackend == Spec => NoResend
<1>1. Init => SentExcluded
  BY DEF Init, SentExcluded, SentOK, Holding
<1>2. SentExcluded => \A r \in Requests : pc[r] = "acquire" => cur[r] \notin sent[r]
  BY ZenonT(30) DEF SentExcluded, SentOK
<1>3. SentExcluded /\ [Next]_vars
          => [\A r \in Requests :
                 pc[r] = "acquire" /\ pc'[r] = "forward" => cur[r] \notin sent[r]]_vars
  BY <1>2
<1> QED
  BY Invariance, SentStep, <1>1, <1>3, PTL DEF Spec, NoResend

\* Once a request has its answer nothing changes it, and it takes no further slot.
THEOREM AnswersAreFinal == Spec => AnswerIsFinal
<1>1. Init => AnsweredLate
  BY DEF Init, AnsweredLate, LateOK
<1> QED
  BY Invariance, AnsweredStep, AnswerStep, <1>1, PTL DEF Spec, AnswerIsFinal
=============================================================================
