---------------------------- MODULE LeaderLease ----------------------------
(***************************************************************************)
(* Leader election (internal/cluster, Manager.Run, tick and resign): a key *)
(* with a time to live in Redis, renewed by whoever holds it, and in every *)
(* instance a flag that says whether it leads.  The flag follows the       *)
(* replies, which may be late or lost.                                     *)
(*                                                                         *)
(* Time is the action Clock; every variable that measures it counts from   *)
(* an event, so none grows without bound.  All instances and Redis share   *)
(* one clock: nothing shown here is owed to clock drift.  The instance key *)
(* that tick also writes is read by the members view only and left out;    *)
(* the time its write takes is part of the call.                           *)
(***************************************************************************)
EXTENDS Integers

CONSTANTS
    Instances,  \* gateway instances, by instance_id
    NoOne,      \* the key does not exist
    LeaderTTL,  \* cluster.leader_ttl
    Interval,   \* cluster.heartbeat_interval
    CallMax,    \* the longest a call to Redis lasts before it returns an error
    MaxStops    \* bound: how many crashes and shutdowns happen in all

ASSUME InstancesAssumption == NoOne \notin Instances
ASSUME DurationsAssumption ==
    /\ {LeaderTTL, Interval, CallMax} \subseteq Nat \ {0}
    /\ LeaderTTL >= Interval
ASSUME StopsAssumption == MaxStops \in Nat

VARIABLES
    holder,     \* the value of the leader key
    left,       \* its remaining time to live
    leader,     \* leader[i]: i believes that it leads
    age,        \* age[i]: time since lastRenew (capped at AgeCap)
    call,       \* call[i]: what Run is doing, or how its call stands
    phase,      \* phase[i]: time since the call was made
    timer,      \* timer[i]: time since the ticker last fired
    fired,      \* fired[i]: the ticker's channel holds a tick
    late,       \* late[i]: commands whose call has returned, not yet executed
    stops       \* crashes and shutdowns so far

keyVars == <<holder, left>>
runVars == <<leader, age, call, phase, timer, fired>>
leaseVars == <<keyVars, runVars, late, stops>>

\* "sent": the script is on its way; "granted", "refused": executed, the reply
\* is on its way; "resigning", "resigned": the same for the script of resign.
Renewing == {"sent", "granted", "refused"}
Resigning == {"resigning", "resigned"}
Calls == {"down", "idle"} \cup Renewing \cup Resigning

\* The age at which nobody leads any more (LeaderStepsDown); never reached by one.
AgeCap == LeaderTTL + Interval + CallMax

TypeOK ==
    /\ holder \in Instances \cup {NoOne}
    /\ left \in 0..LeaderTTL
    /\ leader \in [Instances -> BOOLEAN]
    /\ age \in [Instances -> 0..AgeCap]
    /\ call \in [Instances -> Calls]
    /\ phase \in [Instances -> 0..CallMax]
    /\ timer \in [Instances -> 0..(Interval - 1)]
    /\ fired \in [Instances -> BOOLEAN]
    /\ late \in [Instances -> SUBSET {"renew", "resign"}]
    /\ stops \in 0..MaxStops

LeaseInit ==
    /\ holder = NoOne
    /\ left = 0
    /\ leader = [i \in Instances |-> FALSE]
    /\ age = [i \in Instances |-> AgeCap]
    /\ call = [i \in Instances |-> "down"]
    /\ phase = [i \in Instances |-> 0]
    /\ timer = [i \in Instances |-> 0]
    /\ fired = [i \in Instances |-> FALSE]
    /\ late = [i \in Instances |-> {}]
    /\ stops = 0

-----------------------------------------------------------------------------
(* The two scripts, as Redis executes them.                                *)

\* renewLeaderScript: take the key if there is none, renew it if it is i's.
Renew(i) ==
    IF holder \in {NoOne, i}
      THEN holder' = i /\ left' = LeaderTTL
      ELSE UNCHANGED keyVars

\* Mutant of Delete: deletes the key whoever holds it.
DeleteAnyway(i) ==
    /\ holder' = NoOne
    /\ left' = 0

\* The script of resign: delete the key if it is i's.
Delete(i) ==
    IF holder = i
      THEN holder' = NoOne /\ left' = 0
      ELSE UNCHANGED keyVars

-----------------------------------------------------------------------------
(* The loop of Run in one instance.                                        *)

\* A process starts: no lease confirmed yet (lastRenew is zero), a new ticker,
\* and the first tick at once.
Start(i) ==
    /\ call[i] = "down"
    /\ call' = [call EXCEPT ![i] = "sent"]
    /\ phase' = [phase EXCEPT ![i] = 0]
    /\ timer' = [timer EXCEPT ![i] = 0]
    /\ fired' = [fired EXCEPT ![i] = FALSE]
    /\ age' = [age EXCEPT ![i] = AgeCap]
    /\ late' = [late EXCEPT ![i] = {}]
    /\ UNCHANGED <<keyVars, leader, stops>>

\* Run receives from the ticker and calls tick, which sends the script.
BeginTick(i) ==
    /\ call[i] = "idle"
    /\ fired[i]
    /\ fired' = [fired EXCEPT ![i] = FALSE]
    /\ call' = [call EXCEPT ![i] = "sent"]
    /\ phase' = [phase EXCEPT ![i] = 0]
    /\ UNCHANGED <<keyVars, leader, age, timer, late, stops>>

\* Redis executes the script of the call under way.
ExecuteRenew(i) ==
    /\ call[i] = "sent"
    /\ Renew(i)
    /\ call' = [call EXCEPT ![i] = IF holder' = i THEN "granted" ELSE "refused"]
    /\ UNCHANGED <<leader, age, phase, timer, fired, late, stops>>

\* The client library gives an attempt up and sends the script again.
Resend(i) ==
    /\ call[i] \in Renewing
    /\ call' = [call EXCEPT ![i] = "sent"]
    /\ late' = [late EXCEPT ![i] = IF call[i] = "sent" THEN @ \cup {"renew"} ELSE @]
    /\ UNCHANGED <<keyVars, leader, age, phase, timer, fired, stops>>

\* Mutant of TickSucceeds: takes any reply for a grant.
TickSucceedsAnyway(i) ==
    /\ call[i] \in {"granted", "refused"}
    /\ age' = [age EXCEPT ![i] = 0]
    /\ leader' = [leader EXCEPT ![i] = TRUE]
    /\ call' = [call EXCEPT ![i] = "idle"]
    /\ UNCHANGED <<keyVars, phase, timer, fired, late, stops>>

\* tick gets the reply: lastRenew = now, setLeader(got == 1).
TickSucceeds(i) ==
    /\ call[i] \in {"granted", "refused"}
    /\ age' = [age EXCEPT ![i] = 0]
    /\ leader' = [leader EXCEPT ![i] = (call[i] = "granted")]
    /\ call' = [call EXCEPT ![i] = "idle"]
    /\ UNCHANGED <<keyVars, phase, timer, fired, late, stops>>

\* Mutant of LeaseUnconfirmed: keeps leading through any fault.
LeaseNeverLapses(i) == FALSE

\* The condition under which a leader whose call failed steps down.
LeaseUnconfirmed(i) == leader[i] /\ age[i] >= LeaderTTL

\* tick gets an error, however far its command came.
TickFails(i) ==
    /\ call[i] \in Renewing
    /\ leader' = [leader EXCEPT ![i] = @ /\ ~LeaseUnconfirmed(i)]
    /\ late' = [late EXCEPT ![i] = IF call[i] = "sent" THEN @ \cup {"renew"} ELSE @]
    /\ call' = [call EXCEPT ![i] = "idle"]
    /\ UNCHANGED <<keyVars, age, phase, timer, fired, stops>>

\* The context is done: resign, which returns at once unless i leads.
Shutdown(i) ==
    /\ call[i] = "idle"
    /\ stops < MaxStops
    /\ stops' = stops + 1
    /\ call' = [call EXCEPT ![i] = IF leader[i] THEN "resigning" ELSE "down"]
    /\ phase' = [phase EXCEPT ![i] = 0]
    /\ UNCHANGED <<keyVars, leader, age, timer, fired, late>>

\* Redis executes the script of resign.
ExecuteResign(i) ==
    /\ call[i] = "resigning"
    /\ Delete(i)
    /\ call' = [call EXCEPT ![i] = "resigned"]
    /\ UNCHANGED <<leader, age, phase, timer, fired, late, stops>>

\* resign ignores the outcome: setLeader(false), and Run returns.
ResignReturns(i) ==
    /\ call[i] \in Resigning
    /\ leader' = [leader EXCEPT ![i] = FALSE]
    /\ late' = [late EXCEPT ![i] = IF call[i] = "resigning" THEN @ \cup {"resign"} ELSE @]
    /\ call' = [call EXCEPT ![i] = "down"]
    /\ UNCHANGED <<keyVars, age, phase, timer, fired, stops>>

\* The process dies: at any time, and also because main does not wait for Run.
Crash(i) ==
    /\ call[i] # "down"
    /\ stops < MaxStops
    /\ stops' = stops + 1
    /\ leader' = [leader EXCEPT ![i] = FALSE]
    /\ call' = [call EXCEPT ![i] = "down"]
    /\ UNCHANGED <<keyVars, age, phase, timer, fired, late>>

-----------------------------------------------------------------------------
(* The network and the clock.                                              *)

\* Redis executes a command whose call has already failed.
ExecuteLate(i, command) ==
    /\ command \in late[i]
    /\ IF command = "renew" THEN Renew(i) ELSE Delete(i)
    /\ late' = [late EXCEPT ![i] = @ \ {command}]
    /\ UNCHANGED <<runVars, stops>>

\* Such a command is lost.
Lose(i, command) ==
    /\ command \in late[i]
    /\ late' = [late EXCEPT ![i] = @ \ {command}]
    /\ UNCHANGED <<keyVars, runVars, stops>>

\* Time may pass for i: a tick in the channel is taken at once, and a call
\* returns after CallMax at the latest.
Unhurried(i) ==
    /\ ~(call[i] = "idle" /\ fired[i])
    /\ call[i] \in Renewing \cup Resigning => phase[i] < CallMax

\* Mutant of KeyExpires: the key was set without a time to live.
KeyStays == FALSE

\* The key has been there for LeaderTTL since it was last set or renewed.
KeyExpires == left <= 1

Capped(n, cap) == IF n < cap THEN n + 1 ELSE cap

\* Time passes: the key expires, the ticker fires into a channel that holds
\* one tick.
Clock ==
    /\ \A i \in Instances : Unhurried(i)
    /\ holder' = IF KeyExpires THEN NoOne ELSE holder
    /\ left' = IF left = 0 THEN 0 ELSE left - 1
    /\ age' = [i \in Instances |-> Capped(age[i], AgeCap)]
    /\ phase' = [i \in Instances |->
                   IF call[i] \in Renewing \cup Resigning THEN phase[i] + 1 ELSE phase[i]]
    /\ timer' = [i \in Instances |->
                   IF call[i] = "down" THEN timer[i]
                   ELSE IF timer[i] + 1 = Interval THEN 0 ELSE timer[i] + 1]
    /\ fired' = [i \in Instances |->
                   fired[i] \/ (call[i] # "down" /\ timer[i] + 1 = Interval)]
    /\ UNCHANGED <<leader, call, late, stops>>

-----------------------------------------------------------------------------

InstanceStep(i) ==
    \/ Start(i) \/ BeginTick(i) \/ ExecuteRenew(i) \/ Resend(i)
    \/ TickSucceeds(i) \/ TickFails(i)
    \/ Shutdown(i) \/ ExecuteResign(i) \/ ResignReturns(i) \/ Crash(i)

NetworkStep(i) ==
    \E command \in {"renew", "resign"} : ExecuteLate(i, command) \/ Lose(i, command)

LeaseNext == Clock \/ \E i \in Instances : InstanceStep(i) \/ NetworkStep(i)

LeaseSpec == LeaseInit /\ [][LeaseNext]_leaseVars

\* Time passes, a tick in the channel is taken, Redis executes what reaches it
\* and every call returns.
LeaseFairSpec ==
    /\ LeaseSpec
    /\ WF_leaseVars(Clock)
    /\ \A i \in Instances :
         /\ WF_leaseVars(BeginTick(i))
         /\ WF_leaseVars(ExecuteRenew(i))
         /\ WF_leaseVars(TickSucceeds(i) \/ TickFails(i))
         /\ WF_leaseVars(ResignReturns(i))

-----------------------------------------------------------------------------
(* Properties.                                                             *)

\* A leader whose last confirmation is younger than the lease without the
\* longest call really holds the key, unless it is about to resign: a renewal
\* counts from when it was executed, at most one call before lastRenew.
ConfirmedLeaderHolds ==
    \A i \in Instances :
        leader[i] /\ call[i] \notin Resigning /\ age[i] + CallMax < LeaderTTL => holder = i

\* An instance cut off from Redis stops leading: no leader's last confirmation is
\* older than the lease, one period of the ticker and one call (tick).
LeaderStepsDown == \A i \in Instances : leader[i] => age[i] < AgeCap

\* The key passes from i to nobody else directly, and i loses it before it expires
\* only by its own resign, never by a command of another instance.
LeaseNotStolen ==
    [][\A i \in Instances :
          holder = i /\ holder' # i =>
              /\ holder' = NoOne
              /\ left = 1 \/ call[i] = "resigning" \/ "resign" \in late[i]]_leaseVars

\* Once an instance runs for good and calls to Redis no longer fail, the cluster
\* gets a leader, whatever became of the last one and of the commands sent before
\* (Run, tick; README: everything converges by itself after a recovery).
LeadershipFilled ==
    /\ <>[](\E i \in Instances : call[i] # "down")
    /\ <>[][\A i \in Instances : ~TickFails(i) /\ ~Resend(i)]_leaseVars
    => []<>(\E i \in Instances : leader[i])

\* The inductive invariant.  What a granted call and a confirmed leader know of
\* the key's remaining time, and how old a leader's confirmation may be in each
\* phase of the loop.
LeaseKnown(i) ==
    /\ call[i] = "granted" /\ phase[i] < LeaderTTL =>
         holder = i /\ left + phase[i] >= LeaderTTL
    /\ leader[i] /\ call[i] \notin Resigning /\ age[i] + CallMax < LeaderTTL =>
         holder = i /\ left + age[i] + CallMax >= LeaderTTL

AgeBounded(i) ==
    leader[i] =>
        /\ call[i] = "idle" => age[i] < LeaderTTL + Interval
        /\ call[i] = "idle" /\ ~fired[i] => age[i] < LeaderTTL + timer[i]
        /\ call[i] \in Renewing \cup Resigning => age[i] < LeaderTTL + Interval + phase[i]

DownIsQuiet(i) ==
    /\ call[i] = "down" => ~leader[i]
    /\ "resign" \in late[i] => call[i] = "down"

LeaseInv ==
    /\ TypeOK
    /\ holder # NoOne => left > 0
    /\ \A i \in Instances : LeaseKnown(i) /\ AgeBounded(i) /\ DownIsQuiet(i)

\* The comment in tick: with stepping down aligned with the lease's expiry, two
\* instances lead together for no longer than the clocks' drift, here zero.
OneLeader == \A i, j \in Instances : leader[i] /\ leader[j] => i = j

=============================================================================
