-------------------------------- MODULE PD --------------------------------
(***************************************************************************)
(* Forwarding to a disaggregated group (internal/proxy/pdproxy.go and     *)
(* internal/pd): an attempt takes a slot of a prefill backend, a slot of  *)
(* a decode backend and a KV link between them.  With a vllm prefill the  *)
(* two calls follow each other; with an sglang prefill the prefill call   *)
(* runs in a goroutine that owns the prefill's slot, beside the decode    *)
(* call, and the attempt joins it for a limited time.  A failed attempt   *)
(* excludes the side that failed and picks again.                         *)
(*                                                                         *)
(* TryAcquire, MarkFailure and the admission queue are atomic here; their *)
(* instructions are interleaved in Serving.  A body that is not JSON and  *)
(* an unknown group are answered before any of this state is touched.     *)
(***************************************************************************)
EXTENDS Backend

CONSTANTS
    Requests,
    Prefills, Decodes,  \* the two sides of the group
    Links,              \* the declared (prefill, decode) links
    Sglang,             \* the prefills whose engine is of the sglang family
    Attempts,           \* Retries + 1
    QueueEnabled,
    Arrivals,           \* the sets of requests that may come in
    Leavers             \* the requests whose client may leave early

None == "none"      \* no backend

ASSUME PDAssumption ==
    /\ IsFiniteSet(Requests) /\ None \notin Backends
    /\ Prefills \cup Decodes \subseteq Backends /\ Prefills \cap Decodes = {}
    /\ Links \subseteq Prefills \X Decodes /\ Sglang \subseteq Prefills
    /\ Attempts \in Nat \ {0} /\ QueueEnabled \in BOOLEAN

VARIABLES
    reqs,       \* reqs[r]: the locals of servePD, and who failed it (failedBy, a history)
    prefilling, \* prefilling[r][i]: where the goroutine of attempt i calls, None once it ended
    linked,     \* linked[l]: KV transfers under way on a link
    bound,      \* the prefill the session of the requests is bound to
    wronged     \* history: the backends charged with a call the client's leaving cut off

vars == <<backendVars, reqs, prefilling, linked, bound, wronged>>

Members == Prefills \cup Decodes
Calling == {"prefill", "body", "decode", "stream"}

Fresh == [pc |-> "start", p |-> None, d |-> None, prefer |-> None, exP |-> {}, exD |-> {},
          try |-> 1, fate |-> "aborted", gone |-> FALSE, late |-> FALSE,
          failedBy |-> {}]

\* servePD returns, and its locals go with it.
Answered(q) == [Fresh EXCEPT !.pc = "answered", !.late = q.late]

Init ==
    /\ BackendInit
    /\ \E A \in Arrivals :
          reqs = [r \in Requests |-> IF r \in A THEN Fresh ELSE Answered(Fresh)]
    /\ prefilling = [r \in Requests |-> [i \in 1..Attempts |-> None]]
    /\ linked = [l \in Links |-> 0]
    /\ bound = None
    /\ wronged = {}

---------------------------------------------------------------------------
At(r, pc) == reqs[r].pc = pc
Moves(r, pc) == reqs' = [reqs EXCEPT ![r].pc = pc]
Faulty(q, side) == CASE side = "prefill" -> {q.p} [] side = "decode" -> {q.d} [] OTHER -> {}
Ends(r, fate) == reqs' = [reqs EXCEPT ![r].pc = "leave", ![r].fate = fate,
                                      ![r].failedBy = @ \cup Faulty(reqs[r], fate)]
TurnedAway(q, side) == [q EXCEPT !.failedBy = @ \cup Faulty(q, side)]
KeepSlots == UNCHANGED <<inflight, linked>>
KeepMarks == UNCHANGED <<fails, ejected, wronged>>
KeepHealth == UNCHANGED <<healthy, cordoned>>

MarkSuccess(b) == fails' = [fails EXCEPT ![b] = 0] /\ UNCHANGED <<ejected, wronged>>

MarkFailure(b) ==
    IF fails[b] + 1 >= FailureThreshold
    THEN fails' = [fails EXCEPT ![b] = 0] /\ ejected' = ejected \cup {b}
    ELSE fails' = [fails EXCEPT ![b] = @ + 1] /\ UNCHANGED ejected

\* Mutant of Exclude: forgets which side failed.
ExcludePrefill(q, side) == [q EXCEPT !.exP = @ \cup {q.p}]

Exclude(q, side) ==
    IF side = "decode" THEN [q EXCEPT !.exD = @ \cup {q.d}] ELSE [q EXCEPT !.exP = @ \cup {q.p}]

\* The tail of servePD's loop: one side is excluded, the attempts are used up or not.
Excluding(q, side) ==
    IF q.try < Attempts
    THEN [Exclude(q, side) EXCEPT !.pc = "pick", !.try = @ + 1, !.p = None, !.d = None,
                                  !.fate = "aborted"]
    ELSE Answered(q)

\* A binding to a prefill that is not available is dropped, another is a preference.
Begin(r) ==
    /\ At(r, "start")
    /\ LET ok == bound # None /\ Available(bound)
       IN /\ reqs' = [reqs EXCEPT ![r].pc = "pick", ![r].prefer = IF ok THEN bound ELSE None]
          /\ bound' = IF ok THEN bound ELSE None
    /\ KeepSlots /\ KeepMarks /\ KeepHealth /\ UNCHANGED prefilling

PrefillChoices(q) ==
    LET ok == {p \in Prefills \ q.exP : Available(p) /\ HasRoom(p)}
    IN IF q.prefer \in ok THEN {q.prefer} ELSE ok

DecodeChoices(q, p) ==
    {d \in Decodes \ q.exD : <<p, d>> \in Links /\ Available(d) /\ HasRoom(d)}

\* PickPreferred, at once or from the queue.  The policy and the scores choose freely.
PickPreferred(r) ==
    /\ reqs[r].pc \in {"pick", "wait"}
    /\ \E p \in PrefillChoices(reqs[r]) : \E d \in DecodeChoices(reqs[r], p) :
          reqs' = [reqs EXCEPT ![r].pc = "acquire", ![r].p = p, ![r].d = d]
    /\ KeepSlots /\ KeepMarks /\ KeepHealth /\ UNCHANGED <<prefilling, bound>>

\* The prefill is chosen before its decodes are looked at, and not chosen again.
NoPair(r) ==
    /\ At(r, "pick")
    /\ \/ PrefillChoices(reqs[r]) = {}
       \/ \E p \in PrefillChoices(reqs[r]) : DecodeChoices(reqs[r], p) = {}
    /\ \/ QueueEnabled /\ Moves(r, "wait")
       \/ reqs' = [reqs EXCEPT ![r] = Answered(@)]
    /\ KeepSlots /\ KeepMarks /\ KeepHealth /\ UNCHANGED <<prefilling, bound>>

\* Mutant of GiveUp: a queue without max_wait.
GiveUpNever(r) == FALSE

\* WaitFor gives up: the deadline passed, the queue was full or the client left.
GiveUp(r) ==
    /\ At(r, "wait")
    /\ reqs' = [reqs EXCEPT ![r] = Answered(@)]
    /\ KeepSlots /\ KeepMarks /\ KeepHealth /\ UNCHANGED <<prefilling, bound>>

---------------------------------------------------------------------------
\* tryPDPair

AcquirePrefill(r) ==
    LET q == reqs[r] IN
    /\ At(r, "acquire")
    /\ IF HasRoom(q.p)
       THEN /\ inflight' = [inflight EXCEPT ![q.p] = @ + 1]
            /\ Moves(r, "pair")
       ELSE /\ reqs' = [reqs EXCEPT ![r] = Excluding(TurnedAway(q, "prefill"), "prefill")]
            /\ UNCHANGED inflight
    /\ KeepMarks /\ KeepHealth /\ UNCHANGED <<prefilling, linked, bound>>

\* The decode's slot and the link; an sglang prefill call starts in its goroutine.
AcquireDecode(r) ==
    LET q == reqs[r] IN
    /\ At(r, "pair")
    /\ IF HasRoom(q.d)
       THEN /\ inflight' = [inflight EXCEPT ![q.d] = @ + 1]
            /\ linked' = [linked EXCEPT ![<<q.p, q.d>>] = @ + 1]
            /\ IF q.p \in Sglang
               THEN /\ prefilling' = [prefilling EXCEPT ![r][q.try] = q.p]
                    /\ Moves(r, "decode")
               ELSE Moves(r, "prefill") /\ UNCHANGED prefilling
       ELSE /\ inflight' = [inflight EXCEPT ![q.p] = @ - 1]
            /\ reqs' = [reqs EXCEPT ![r] = Excluding(TurnedAway(q, "decode"), "decode")]
            /\ UNCHANGED <<linked, prefilling>>
    /\ KeepMarks /\ KeepHealth /\ UNCHANGED bound

\* pdVLLM, the call: an answer, an error, or the cancelled context of the client.
CallPrefill(r) ==
    /\ At(r, "prefill")
    /\ \/ Moves(r, "body") /\ KeepMarks
       \/ MarkFailure(reqs[r].p) /\ Ends(r, "prefill") /\ UNCHANGED wronged
       \/ reqs[r].gone /\ Ends(r, "aborted") /\ KeepMarks
    /\ KeepSlots /\ KeepHealth /\ UNCHANGED <<prefilling, bound>>

\* pdVLLM, the body: a read the client's leaving cut off is charged like any other error.
ReadPrefill(r) ==
    /\ At(r, "body")
    /\ \/ MarkSuccess(reqs[r].p) /\ Moves(r, "decode")
       \/ MarkFailure(reqs[r].p) /\ Ends(r, "prefill") /\ UNCHANGED wronged
       \/ /\ reqs[r].gone
          /\ MarkFailure(reqs[r].p) /\ Ends(r, "prefill")
          /\ wronged' = wronged \cup {reqs[r].p}
    /\ KeepSlots /\ KeepHealth /\ UNCHANGED <<prefilling, bound>>

\* forwardDecode: an answer below 500 is streamed, whatever it says.
CallDecode(r) ==
    /\ At(r, "decode")
    /\ \/ MarkSuccess(reqs[r].d) /\ Moves(r, "stream")
       \/ MarkFailure(reqs[r].d) /\ Ends(r, "decode") /\ UNCHANGED wronged
       \/ reqs[r].gone /\ Ends(r, "aborted") /\ KeepMarks
    /\ KeepSlots /\ KeepHealth /\ UNCHANGED <<prefilling, bound>>

Streamed(r) ==
    /\ At(r, "stream")
    /\ Ends(r, "served")
    /\ KeepSlots /\ KeepMarks /\ KeepHealth /\ UNCHANGED <<prefilling, bound>>

---------------------------------------------------------------------------
\* The end of an attempt

\* Mutant of HandedOff: every path releases the slot itself.
NeverHandedOff(q) == FALSE

\* The goroutine of an sglang prefill owns the prefill's slot.
HandedOff(q) == q.p \in Sglang

\* The prefill's slot is released here unless its goroutine owns it, which is cancelled.
Leave(r) ==
    LET q == reqs[r] IN
    /\ At(r, "leave")
    /\ IF HandedOff(q)
       THEN Moves(r, "join") /\ UNCHANGED inflight
       ELSE Moves(r, "release") /\ inflight' = [inflight EXCEPT ![q.p] = @ - 1]
    /\ KeepMarks /\ KeepHealth /\ UNCHANGED <<prefilling, linked, bound>>

\* Mutant of Exited: the attempt goes on without its goroutine.
ExitedAtOnce(r) == TRUE

Exited(r) == prefilling[r][reqs[r].try] = None

Join(r) ==
    /\ At(r, "join")
    /\ Exited(r)
    /\ Moves(r, "release")
    /\ KeepSlots /\ KeepMarks /\ KeepHealth /\ UNCHANGED <<prefilling, bound>>

\* pdPrefillJoinTimeout passes first: the attempt ends and the goroutine lives on.
JoinTimeout(r) ==
    /\ At(r, "join")
    /\ ~Exited(r)
    /\ reqs' = [reqs EXCEPT ![r].pc = "release", ![r].late = TRUE]
    /\ KeepSlots /\ KeepMarks /\ KeepHealth /\ UNCHANGED <<prefilling, bound>>

\* The deferred releases, then what servePD does with the outcome.
Release(r) ==
    LET q == reqs[r] IN
    /\ At(r, "release")
    /\ inflight' = [inflight EXCEPT ![q.d] = @ - 1]
    /\ linked' = [linked EXCEPT ![<<q.p, q.d>>] = @ - 1]
    /\ reqs' = [reqs EXCEPT ![r] = IF q.fate \in {"served", "aborted"}
                                   THEN Answered(q)
                                   ELSE Excluding(q, q.fate)]
    /\ bound' = IF q.fate = "served" THEN q.p ELSE bound
    /\ KeepMarks /\ KeepHealth /\ UNCHANGED prefilling

\* The context of attempt i's goroutine is cancelled with the attempt and with the client.
Cancelled(r, i) == reqs[r].gone \/ reqs[r].try # i \/ reqs[r].pc \in {"join", "release", "answered"}

\* pdSGLang's goroutine ends: the verdict on the prefill, and its slot.
PrefillEnds(r, i) ==
    LET p == prefilling[r][i] IN
    /\ p # None
    /\ inflight' = [inflight EXCEPT ![p] = @ - 1]
    /\ prefilling' = [prefilling EXCEPT ![r][i] = None]
    /\ \/ MarkSuccess(p)
       \/ MarkFailure(p) /\ UNCHANGED wronged
       \/ Cancelled(r, i) /\ KeepMarks
    /\ KeepHealth /\ UNCHANGED <<reqs, linked, bound>>

\* The client's context matters to the calls alone; a waiting request may always give up.
ClientLeaves(r) ==
    /\ r \in Leavers /\ reqs[r].pc \in Calling /\ ~reqs[r].gone
    /\ reqs' = [reqs EXCEPT ![r].gone = TRUE]
    /\ KeepSlots /\ KeepMarks /\ KeepHealth /\ UNCHANGED <<prefilling, bound>>

Cools(b) == CooldownEnds(b) /\ UNCHANGED <<reqs, prefilling, linked, bound, wronged>>

Step(r) ==
    \/ Begin(r) \/ PickPreferred(r) \/ NoPair(r) \/ AcquirePrefill(r) \/ AcquireDecode(r)
    \/ CallPrefill(r) \/ ReadPrefill(r) \/ CallDecode(r) \/ Streamed(r)
    \/ Leave(r) \/ Join(r) \/ JoinTimeout(r) \/ Release(r)

Next ==
    \/ \E r \in Requests : Step(r) \/ GiveUp(r) \/ ClientLeaves(r)
    \/ \E r \in Requests, i \in 1..Attempts : PrefillEnds(r, i)
    \/ \E b \in Members : Cools(b)

Spec == Init /\ [][Next]_vars

\* Every call has a deadline (UpstreamResponseTimeout, pdPrefillJoinTimeout, the queue's).
FairSpec ==
    /\ Spec
    /\ \A r \in Requests : WF_vars(Step(r)) /\ WF_vars(GiveUp(r))
    /\ \A r \in Requests, i \in 1..Attempts : WF_vars(PrefillEnds(r, i))

---------------------------------------------------------------------------
HoldsPrefill(r, p) ==
    /\ reqs[r].p = p
    /\ \/ At(r, "pair")
       \/ p \notin Sglang /\ reqs[r].pc \in Calling \cup {"leave"}
HoldsDecode(r, d) == reqs[r].d = d /\ reqs[r].pc \in Calling \cup {"leave", "join", "release"}

Goroutines == {x \in Requests \X (1..Attempts) : prefilling[x[1]][x[2]] # None}

\* Every slot and every link in use has exactly one owner: an attempt, or the goroutine
\* an sglang attempt handed its prefill's slot to (the ownership rule of tryPDPair).
SlotsExact ==
    /\ \A b \in Members :
          inflight[b] = Cardinality({r \in Requests : HoldsPrefill(r, b) \/ HoldsDecode(r, b)})
                        + Cardinality({x \in Goroutines : prefilling[x[1]][x[2]] = b})
    /\ \A l \in Links :
          linked[l] = Cardinality({r \in Requests : HoldsDecode(r, l[2]) /\ reqs[r].p = l[1]})

\* A request calls a second prefill in the background only after a join timed out, and
\* a prefill that is still at work is never called again for it otherwise (tryPDPair, H4).
OneGoroutine ==
    \A r \in Requests :
        Cardinality({i \in 1..Attempts : prefilling[r][i] # None}) > 1 => reqs[r].late

\* Only the faulty side is excluded: what a request may not pick again is exactly what
\* failed it or had no slot for it, and it is never sent there again (servePD).
OnlyTheFaulty ==
    \A r \in Requests :
        /\ reqs[r].pc \in {"pick", "wait"} => reqs[r].exP \cup reqs[r].exD = reqs[r].failedBy
        /\ reqs[r].pc \in Calling => {reqs[r].p, reqs[r].d} \cap reqs[r].failedBy = {}

\* Who owns a slot of b, as pairs of a request and a number: 0 is its decode call, i > 0
\* the prefill of its attempt i, whether the attempt or the goroutine is to release it.
Owners(b) ==
    {x \in Requests \X (0 .. Attempts) :
        \/ x[2] = 0 /\ HoldsDecode(x[1], b)
        \/ x[2] = reqs[x[1]].try /\ HoldsPrefill(x[1], b)
        \/ x[2] > 0 /\ prefilling[x[1]][x[2]] = b}

Pool == INSTANCE SlotPool WITH
            Requests <- Requests \X (0 .. Attempts), holders <- [b \in Backends |-> Owners(b)]

\* The calls of all attempts take slots and give them back as SlotPool says: no backend
\* of either side is over its limit, nothing is released that is not held, and handing
\* the prefill's slot to its goroutine changes nothing (tryPDPair, pdSGLang).
ImplementsSlotPool == Pool!Spec

\* Every request is answered and everything it took comes back: slots, links and the
\* goroutines it left behind (the deferred releases of tryPDPair and pdSGLang).
EverythingReturned ==
    <>[](/\ \A r \in Requests : At(r, "answered")
         /\ Goroutines = {}
         /\ \A b \in Members : inflight[b] = 0
         /\ \A l \in Links : linked[l] = 0)

\* "prefill is innocent, not charged": a call that failed because the client left is not
\* counted against the backend (the comment on the cancelled context in pdVLLM).
ClientLeavingIsNoFailure == wronged = {}

=============================================================================
