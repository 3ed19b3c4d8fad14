--------------------------- MODULE ClusterProofs ----------------------------
(***************************************************************************)
(* What is proved of the state that gateways share through Redis.          *)
(*                                                                         *)
(* Leader election, for any instances and any durations with leader_ttl    *)
(* >= heartbeat_interval: LeaseInv is inductive, and every property        *)
(* follows from it and from the shape of the two scripts.                  *)
(*                                                                         *)
(* The session tables, for any capacity, gateways, keys and backends: they *)
(* stay within their capacity and hold one entry for a key.  TreeProofs is *)
(* extended for what it says of subsequences.                              *)
(***************************************************************************)
EXTENDS LeaderLease, Sessions, TreeProofs

\* The time the provers have for a leaf, in seconds.
USE SMTT(30), ZenonT(30)

-----------------------------------------------------------------------------
(* Leader election. *)

\* The initial states satisfy the invariant: nobody runs and there is no key.
LEMMA LeaseInitially == LeaseInit => LeaseInv
BY InstancesAssumption, DurationsAssumption, StopsAssumption
   DEF LeaseInit, LeaseInv, TypeOK, LeaseKnown, AgeBounded, DownIsQuiet, Calls, AgeCap,
       Renewing, Resigning

\* Executing the renewal script for i keeps the key well-formed and leaves it alone
\* when another instance holds it.
LEMMA RenewEffect ==
    ASSUME NEW i \in Instances, TypeOK, holder # NoOne => left > 0, Renew(i)
    PROVE  /\ holder' \in Instances \cup {NoOne}
           /\ left' \in 0..LeaderTTL
           /\ holder' # NoOne => left' > 0
           /\ holder' = i => left' = LeaderTTL
           /\ \A j \in Instances \ {i} : holder = j => holder' = j /\ left' = left
           /\ holder = i => holder' = i
BY InstancesAssumption, DurationsAssumption DEF Renew, TypeOK, keyVars

\* Executing the script of resign for i takes the key from nobody else.
LEMMA DeleteEffect ==
    ASSUME NEW i \in Instances, TypeOK, holder # NoOne => left > 0, Delete(i)
    PROVE  /\ holder' \in Instances \cup {NoOne}
           /\ left' \in 0..LeaderTTL
           /\ holder' # NoOne => left' > 0
           /\ \A j \in Instances \ {i} : holder = j => holder' = j /\ left' = left
BY InstancesAssumption, DurationsAssumption DEF Delete, TypeOK, keyVars

\* Every step of the loop of Run in an instance preserves the invariant.
LEMMA InstanceStepInv ==
    ASSUME LeaseInv, NEW i \in Instances, InstanceStep(i)
    PROVE  LeaseInv'
<1> USE InstancesAssumption, DurationsAssumption, StopsAssumption
        DEF LeaseInv, TypeOK, LeaseKnown, AgeBounded, DownIsQuiet, Calls, AgeCap, Renewing, Resigning
<1>1. CASE Start(i)
  BY <1>1 DEF Start, keyVars
<1>2. CASE BeginTick(i)
  BY <1>2 DEF BeginTick, keyVars
<1>3. CASE ExecuteRenew(i)
  BY <1>3, RenewEffect DEF ExecuteRenew
<1>4. CASE Resend(i)
  BY <1>4 DEF Resend, keyVars
<1>5. CASE TickSucceeds(i)
  <2>1. CASE call[i] = "granted"
    <3>1. leader' = [leader EXCEPT ![i] = TRUE]
      BY <1>5, <2>1, ZenonT(30) DEF TickSucceeds
    <3> QED
      BY <1>5, <2>1, <3>1 DEF TickSucceeds, keyVars
  <2>2. CASE call[i] # "granted"
    <3>1. leader' = [leader EXCEPT ![i] = FALSE]
      BY <1>5, <2>2, ZenonT(30) DEF TickSucceeds
    <3> QED
      BY <1>5, <2>2, <3>1 DEF TickSucceeds, keyVars
  <2> QED
    BY <2>1, <2>2
<1>6. CASE TickFails(i)
  <2>1. CASE LeaseUnconfirmed(i)
    <3>1. leader' = [leader EXCEPT ![i] = FALSE]
      BY <1>6, <2>1, ZenonT(30) DEF TickFails
    <3> QED
      BY <1>6, <2>1, <3>1 DEF TickFails, keyVars
  <2>2. CASE ~LeaseUnconfirmed(i)
    <3>1. leader' = leader
      BY <1>6, <2>2 DEF TickFails
    <3>2. leader[i] => age[i] < LeaderTTL
      BY <2>2 DEF LeaseUnconfirmed
    <3> QED
      BY <1>6, <3>1, <3>2 DEF TickFails, keyVars
  <2> QED
    BY <2>1, <2>2
<1>7. CASE Shutdown(i)
  BY <1>7 DEF Shutdown, keyVars
<1>8. CASE ExecuteResign(i)
  BY <1>8, DeleteEffect DEF ExecuteResign
<1>9. CASE ResignReturns(i)
  BY <1>9 DEF ResignReturns, keyVars
<1>10. CASE Crash(i)
  BY <1>10 DEF Crash, keyVars
<1> QED
  BY <1>1, <1>2, <1>3, <1>4, <1>5, <1>6, <1>7, <1>8, <1>9, <1>10, ZenonT(30) DEF InstanceStep

\* A command executed late, or lost, preserves the invariant.
LEMMA NetworkStepInv ==
    ASSUME LeaseInv, NEW i \in Instances, NetworkStep(i)
    PROVE  LeaseInv'
<1> PICK command \in {"renew", "resign"} : ExecuteLate(i, command) \/ Lose(i, command)
  BY DEF NetworkStep
<1> USE InstancesAssumption, DurationsAssumption, StopsAssumption
        DEF LeaseInv, TypeOK, LeaseKnown, AgeBounded, DownIsQuiet, Calls, AgeCap, Renewing, Resigning
<1>1. CASE ExecuteLate(i, command) /\ command = "renew"
  BY <1>1, RenewEffect DEF ExecuteLate, runVars
<1>2. CASE ExecuteLate(i, command) /\ command = "resign"
  BY <1>2, DeleteEffect DEF ExecuteLate, runVars
<1>3. CASE Lose(i, command)
  BY <1>3 DEF Lose, runVars, keyVars
<1> QED
  BY <1>1, <1>2, <1>3

\* The passing of time preserves the invariant: the key outlives what a granted
\* call or a confirmed leader knows of it, and a leader's next call is not far.
LEMMA ClockInv == LeaseInv /\ Clock => LeaseInv'
<1> SUFFICES ASSUME LeaseInv, Clock PROVE LeaseInv'
  OBVIOUS
<1> USE InstancesAssumption, DurationsAssumption
<1>1. TypeOK' /\ (holder' # NoOne => left' > 0)
  BY DEF LeaseInv, TypeOK, Clock, KeyExpires, Capped, Unhurried, AgeCap, Calls, Renewing, Resigning
<1>2. ASSUME NEW i \in Instances PROVE LeaseKnown(i)'
  BY DEF LeaseInv, TypeOK, LeaseKnown, Clock, KeyExpires, Capped, Unhurried, AgeCap, Renewing, Resigning
<1>3. ASSUME NEW i \in Instances PROVE AgeBounded(i)'
  BY DEF LeaseInv, TypeOK, AgeBounded, Clock, Capped, Unhurried, AgeCap, Renewing, Resigning
<1>4. ASSUME NEW i \in Instances PROVE DownIsQuiet(i)'
  BY DEF LeaseInv, DownIsQuiet, Clock
<1> QED
  BY <1>1, <1>2, <1>3, <1>4 DEF LeaseInv

\* A stuttering step changes nothing the invariant reads.
LEMMA StutterInv == LeaseInv /\ UNCHANGED leaseVars => LeaseInv'
BY DEF leaseVars, keyVars, runVars, LeaseInv, TypeOK, LeaseKnown, AgeBounded, DownIsQuiet

\* LeaseInv is an invariant of the election (Run, tick, resign, the scripts).
THEOREM LeaseInvariance == LeaseSpec => []LeaseInv
<1>1. LeaseInv /\ [LeaseNext]_leaseVars => LeaseInv'
  BY InstanceStepInv, NetworkStepInv, ClockInv, StutterInv DEF LeaseNext
<1> QED
  BY LeaseInitially, <1>1, PTL DEF LeaseSpec

\* A leader whose confirmation is younger than leader_ttl minus a call holds the key.
THEOREM ConfirmedLeader == LeaseSpec => []ConfirmedLeaderHolds
<1>1. LeaseInv => ConfirmedLeaderHolds
  BY DEF LeaseInv, LeaseKnown, ConfirmedLeaderHolds
<1> QED
  BY LeaseInvariance, <1>1, PTL

\* No leader's confirmation gets older than leader_ttl, a heartbeat interval and a
\* call: an instance cut off from Redis steps down (tick).
THEOREM StepsDown == LeaseSpec => []LeaderStepsDown
<1>1. LeaseInv => LeaderStepsDown
  BY DurationsAssumption
     DEF LeaseInv, TypeOK, AgeBounded, DownIsQuiet, LeaderStepsDown, AgeCap, Calls, Renewing, Resigning
<1> QED
  BY LeaseInvariance, <1>1, PTL

\* Nobody takes the key from its holder: it expires, or the holder's own resign
\* deletes it (the scripts of tick and resign).
THEOREM LeaseIsTheHolders == LeaseSpec => LeaseNotStolen
<1> DEFINE Stolen(i) == /\ holder = i /\ holder' # i
                        /\ ~(/\ holder' = NoOne
                             /\ left = 1 \/ call[i] = "resigning" \/ "resign" \in late[i])
<1>1. ASSUME LeaseInv, [LeaseNext]_leaseVars, NEW i \in Instances PROVE ~Stolen(i)
  <2>1. ASSUME NEW j \in Instances, InstanceStep(j) PROVE ~Stolen(i)
    BY <1>1, <2>1, InstancesAssumption
       DEF InstanceStep, Start, BeginTick, ExecuteRenew, Resend, TickSucceeds, TickFails, Shutdown,
           ExecuteResign, ResignReturns, Crash, Renew, Delete, keyVars
  <2>2. ASSUME NEW j \in Instances, NetworkStep(j) PROVE ~Stolen(i)
    BY <1>1, <2>2, InstancesAssumption
       DEF NetworkStep, ExecuteLate, Lose, Renew, Delete, keyVars
  <2>3. CASE Clock
    BY <1>1, <2>3, InstancesAssumption, DurationsAssumption DEF Clock, KeyExpires, LeaseInv, TypeOK
  <2>4. CASE UNCHANGED leaseVars
    BY <2>4 DEF leaseVars, keyVars
  <2> QED
    BY <1>1, <2>1, <2>2, <2>3, <2>4 DEF LeaseNext
<1>2. LeaseInv /\ [LeaseNext]_leaseVars =>
        [\A i \in Instances :
            holder = i /\ holder' # i =>
                /\ holder' = NoOne
                /\ left = 1 \/ call[i] = "resigning" \/ "resign" \in late[i]]_leaseVars
  BY <1>1
<1> QED
  BY LeaseInvariance, <1>2, PTL DEF LeaseSpec, LeaseNotStolen

-----------------------------------------------------------------------------
(* The session tables. *)

Bindings == Backends \cup {None}
Entries == [key : Keys \cup {None}, b : Bindings]

Reqs == [pc : {"idle", "pick", "found", "sent", "unbind", "bind"}, key : Keys \cup {None}, b : Bindings]

OneEach(t) == \A m, n \in DOMAIN t : t[m].key = t[n].key => m = n
IsTable(t) == t \in Seq(Entries) /\ Len(t) <= MaxPerShard /\ OneEach(t)

SessionTypeOK ==
    /\ redis \in [Keys -> Bindings]
    /\ req \in [Gateways -> Reqs]
    /\ local \in [Gateways -> Seq(Entries)]

SessionInv ==
    /\ SessionTypeOK
    /\ \A i \in Gateways : IsTable(local[i])

-----------------------------------------------------------------------------
(* The operations of a table. *)

\* Taking entries out of a table leaves a table.
LEMMA OnlyIsTable ==
    ASSUME NEW t, IsTable(t), NEW S
    PROVE  IsTable(Only(t, S))
<1> DEFINE o == Only(t, S)
<1>1. t \in Seq(Entries) /\ Len(t) <= MaxPerShard /\ OneEach(t)
  BY DEF IsTable
<1>2. o \in Seq(Entries) /\ Len(o) <= Len(t) /\ Within(o, t)
  BY <1>1, OnlyKeeps, ZenonT(30)
<1> HIDE DEF o
<1>3. Len(o) <= MaxPerShard
  BY <1>1, <1>2, TableAssumption
<1>4. OneEach(o)
  BY <1>1, <1>2 DEF OneEach, Within
<1> QED
  BY <1>2, <1>3, <1>4 DEF IsTable, o

\* Unbinding a key leaves a table without it, and a smaller one if it had the key.
LEMMA OthersIsTable ==
    ASSUME NEW t, IsTable(t), NEW k
    PROVE  /\ IsTable(Others(t, k))
           /\ \A n \in DOMAIN Others(t, k) : Others(t, k)[n].key # k
           /\ Len(Others(t, k)) <= Len(t)
           /\ (\E e \in Range(t) : e.key = k) => Len(Others(t, k)) < Len(t)
<1> DEFINE S == {e \in Range(t) : e.key # k}
<1>1. IsTable(Only(t, S))
  BY OnlyIsTable, ZenonT(30)
<1>2. t \in Seq(Entries)
  BY DEF IsTable
<1>3. /\ Len(Only(t, S)) <= Len(t)
      /\ (\E n \in DOMAIN t : t[n] \notin S) => Len(Only(t, S)) < Len(t)
      /\ Range(Only(t, S)) = Range(t) \cap S
  BY <1>2, OnlyKeeps, ZenonT(30)
<1>4. ASSUME \E e \in Range(t) : e.key = k PROVE \E n \in DOMAIN t : t[n] \notin S
  BY <1>4 DEF Range
<1>5. \A n \in DOMAIN Only(t, S) : Only(t, S)[n].key # k
  <2>1. ASSUME NEW n \in DOMAIN Only(t, S) PROVE Only(t, S)[n] \in Range(Only(t, S))
    BY DEF Range
  <2> QED
    BY <1>3, <2>1
<1> QED
  BY <1>1, <1>3, <1>4, <1>5, ZenonT(30) DEF Others

\* A new entry for a key that is not there fits into a table that is not full.
LEMMA AppendIsTable ==
    ASSUME NEW t, IsTable(t), Len(t) < MaxPerShard,
           NEW k \in Keys \cup {None}, \A n \in DOMAIN t : t[n].key # k, NEW b \in Bindings
    PROVE  IsTable(Append(t, [key |-> k, b |-> b]))
<1> DEFINE e == [key |-> k, b |-> b]
           a == Append(t, e)
<1>1. t \in Seq(Entries) /\ OneEach(t)
  BY DEF IsTable
<1>2. e \in Entries /\ e.key = k
  BY DEF Entries
<1> HIDE DEF e
<1>3. /\ a \in Seq(Entries) /\ Len(a) = Len(t) + 1
      /\ DOMAIN a = 1 .. Len(t) + 1 /\ DOMAIN t = 1 .. Len(t)
      /\ a[Len(t) + 1] = e /\ \A n \in 1 .. Len(t) : a[n] = t[n]
  BY <1>1, <1>2
<1> HIDE DEF a
<1>4. Len(a) <= MaxPerShard
  BY <1>1, <1>3, TableAssumption
<1>5. OneEach(a)
  <2> SUFFICES ASSUME NEW m \in DOMAIN a, NEW n \in DOMAIN a, a[m].key = a[n].key PROVE m = n
    BY DEF OneEach
  <2>1. Len(t) \in Nat
    BY <1>1
  <2>2. CASE m <= Len(t) /\ n <= Len(t)
    BY <1>1, <1>3, <2>1, <2>2 DEF OneEach
  <2>3. CASE m = Len(t) + 1 /\ n <= Len(t)
    BY <1>2, <1>3, <2>1, <2>3
  <2>4. CASE m <= Len(t) /\ n = Len(t) + 1
    BY <1>2, <1>3, <2>1, <2>4
  <2> QED
    BY <1>3, <2>1, <2>2, <2>3, <2>4
<1> QED
  BY <1>3, <1>4, <1>5 DEF IsTable, a, e

\* The entry that expires first may go.
LEMMA TailIsTable ==
    ASSUME NEW t, IsTable(t), t # << >>
    PROVE  IsTable(Tail(t)) /\ Len(Tail(t)) = Len(t) - 1
<1>1. t \in Seq(Entries) /\ Len(t) <= MaxPerShard /\ OneEach(t)
  BY DEF IsTable
<1>2. /\ Tail(t) \in Seq(Entries) /\ Len(Tail(t)) = Len(t) - 1 /\ Len(t) \in Nat
      /\ DOMAIN Tail(t) = 1 .. Len(t) - 1 /\ DOMAIN t = 1 .. Len(t)
      /\ \A n \in 1 .. Len(t) - 1 : Tail(t)[n] = t[n + 1]
  BY <1>1
<1>3. OneEach(Tail(t))
  BY <1>1, <1>2 DEF OneEach
<1> QED
  BY <1>1, <1>2, <1>3, TableAssumption DEF IsTable

\* What a lookup finds is a binding.
LEMMA FoundIsBinding ==
    ASSUME NEW t, IsTable(t), NEW k
    PROVE  Found(t, k) \in Bindings /\ (Found(t, k) # None => \E e \in Range(t) : e.key = k)
<1>1. \A e \in Range(t) : e.b \in Bindings
  <2>1. t \in Seq(Entries)
    BY DEF IsTable
  <2>2. ASSUME NEW n \in DOMAIN t PROVE t[n].b \in Bindings
    <3>1. t[n] \in Entries
      BY <2>1
    <3> QED
      BY <3>1 DEF Entries
  <2> QED
    BY <2>2 DEF Range
<1>2. CASE \E e \in Range(t) : e.key = k
  <2>1. (CHOOSE e \in Range(t) : e.key = k) \in Range(t)
    BY <1>2
  <2> QED
    BY <1>1, <1>2, <2>1 DEF Found
<1>3. CASE ~ \E e \in Range(t) : e.key = k
  BY <1>3 DEF Found, Bindings
<1> QED
  BY <1>2, <1>3

\* A lookup that slides the expiry of an entry leaves a table.
LEMMA TouchedIsTable ==
    ASSUME NEW t, IsTable(t), NEW k \in Keys
    PROVE  IsTable(Touched(t, k))
<1>1. CASE Found(t, k) = None
  BY <1>1 DEF Touched
<1>2. CASE Found(t, k) # None
  <2>1. /\ IsTable(Others(t, k)) /\ \A n \in DOMAIN Others(t, k) : Others(t, k)[n].key # k
        /\ Len(Others(t, k)) < Len(t)
    BY <1>2, FoundIsBinding, OthersIsTable, ZenonT(30)
  <2>2. Len(Others(t, k)) < MaxPerShard
    BY <2>1, TableAssumption DEF IsTable
  <2>3. IsTable(Append(Others(t, k), [key |-> k, b |-> Found(t, k)]))
    BY <2>1, <2>2, FoundIsBinding, AppendIsTable, ZenonT(30)
  <2> QED
    BY <1>2, <2>3 DEF Touched
<1> QED
  BY <1>1, <1>2

\* Binding a key leaves a table, full or not and whether the key is new or not.
LEMMA BoundIsTable ==
    ASSUME NEW t, IsTable(t), NEW k \in Keys \cup {None}, NEW b \in Bindings
    PROVE  IsTable(Bound(t, k, b))
<1> DEFINE room == IF Found(t, k) = None /\ Len(t) >= MaxPerShard THEN EvictOldest(t) ELSE t
<1>1. MaxPerShard \in Nat /\ MaxPerShard > 0 /\ Len(t) \in Nat /\ Len(t) <= MaxPerShard
  BY TableAssumption DEF IsTable
<1>2. CASE Found(t, k) = None /\ Len(t) >= MaxPerShard
  <2>1. t # << >> /\ room = Tail(t)
    BY <1>1, <1>2 DEF EvictOldest
  <2>2. IsTable(room) /\ Len(room) = Len(t) - 1
    BY <2>1, TailIsTable, ZenonT(30)
  <2> HIDE DEF room
  <2>3. /\ IsTable(Others(room, k)) /\ \A n \in DOMAIN Others(room, k) : Others(room, k)[n].key # k
        /\ Len(Others(room, k)) <= Len(room)
    BY <2>2, OthersIsTable, ZenonT(30)
  <2>4. Len(Others(room, k)) < MaxPerShard
    BY <1>1, <2>2, <2>3 DEF IsTable
  <2>5. IsTable(Append(Others(room, k), [key |-> k, b |-> b]))
    BY <2>3, <2>4, AppendIsTable, ZenonT(30)
  <2> QED
    BY <2>5 DEF Bound, room
<1>3. CASE ~ (Found(t, k) = None /\ Len(t) >= MaxPerShard)
  <2>1. room = t
    BY <1>3
  <2>2. /\ IsTable(Others(t, k)) /\ \A n \in DOMAIN Others(t, k) : Others(t, k)[n].key # k
        /\ Len(Others(t, k)) <= Len(t)
        /\ Found(t, k) # None => Len(Others(t, k)) < Len(t)
    BY FoundIsBinding, OthersIsTable, ZenonT(30)
  <2>3. Len(Others(t, k)) < MaxPerShard
    BY <1>1, <1>3, <2>2 DEF IsTable
  <2>4. IsTable(Append(Others(t, k), [key |-> k, b |-> b]))
    BY <2>2, <2>3, AppendIsTable, ZenonT(30)
  <2> QED
    BY <2>1, <2>4 DEF Bound
<1> QED
  BY <1>2, <1>3

-----------------------------------------------------------------------------
(* The steps. *)

\* A step that changes one table into a table.
LEMMA TableChanged ==
    ASSUME SessionInv, NEW i \in Gateways, NEW t, IsTable(t), local' = [local EXCEPT ![i] = t]
    PROVE  local' \in [Gateways -> Seq(Entries)] /\ \A j \in Gateways : IsTable(local'[j])
<1>1. local \in [Gateways -> Seq(Entries)] /\ \A j \in Gateways : IsTable(local[j])
  BY DEF SessionInv, SessionTypeOK
<1>2. t \in Seq(Entries)
  BY DEF IsTable
<1>3. ASSUME NEW j \in Gateways PROVE IsTable(local'[j])
  <2>1. CASE j = i
    BY <1>1, <2>1
  <2>2. CASE j # i
    BY <1>1, <2>2
  <2> QED
    BY <2>1, <2>2
<1> QED
  BY <1>1, <1>2, <1>3

\* A request changes into another of its shape.
LEMMA RequestChanged ==
    ASSUME SessionTypeOK, NEW i \in Gateways,
           NEW v \in Reqs, Becomes(i, v)
    PROVE  req' \in [Gateways -> Reqs]
  BY DEF SessionTypeOK, Becomes

\* A request that has not begun is one.
LEMMA IdleIsRequest == Idle \in Reqs
  BY DEF Idle, Bindings, Reqs

\* Lookup keeps the tables.
LEMMA LookupKeeps ==
    ASSUME SessionInv, NEW i \in Gateways, NEW k \in Keys, Lookup(i, k)
    PROVE  SessionInv'
<1> DEFINE here == Found(local[i], k)
           hit(b) == [pc |-> IF b = None THEN "pick" ELSE "found", key |-> k, b |-> b]
<1>1. IsTable(local[i]) /\ SessionTypeOK /\ redis' = redis
  BY DEF SessionInv, Lookup
<1>2. here \in Bindings /\ redis[k] \in Bindings
  BY <1>1, FoundIsBinding DEF SessionTypeOK
<1>3. ASSUME NEW b \in Bindings, Becomes(i, hit(b))
      PROVE  req' \in [Gateways -> Reqs]
  <2>1. hit(b) \in Reqs
    BY DEF Reqs
  <2> HIDE DEF hit
  <2> QED
    BY <1>1, <1>3, <2>1, RequestChanged, ZenonT(30)
<1>4. CASE Becomes(i, hit(here)) /\ local' = [local EXCEPT ![i] = Touched(@, k)]
  <2>1. local' = [local EXCEPT ![i] = Touched(local[i], k)] /\ IsTable(Touched(local[i], k))
    BY <1>1, <1>4, TouchedIsTable
  <2>2. local' \in [Gateways -> Seq(Entries)] /\ \A j \in Gateways : IsTable(local'[j])
    BY <2>1, TableChanged, ZenonT(30)
  <2>3. req' \in [Gateways -> Reqs]
    BY <1>2, <1>3, <1>4
  <2> QED
    BY <1>1, <2>2, <2>3 DEF SessionInv, SessionTypeOK
<1>5. CASE Becomes(i, hit(redis[k])) /\ local' = local
  <2>1. req' \in [Gateways -> Reqs]
    BY <1>2, <1>3, <1>5
  <2> QED
    BY <1>1, <1>5, <2>1 DEF SessionInv, SessionTypeOK
<1> QED
  BY <1>4, <1>5 DEF Lookup

\* The preferred backend is taken or not, the tables are kept.
LEMMA PreferKeeps ==
    ASSUME SessionInv, NEW i \in Gateways, Prefer(i)
    PROVE  SessionInv'
<1>1. IsTable(local[i]) /\ SessionTypeOK /\ redis' = redis
  BY DEF SessionInv, Prefer
<1>2. CASE /\ Becomes(i, [req[i] EXCEPT !.pc = AfterUnbind, !.b = None])
           /\ local' = [local EXCEPT ![i] = Others(@, req[i].key)]
  <2>1. /\ local' = [local EXCEPT ![i] = Others(local[i], req[i].key)]
        /\ IsTable(Others(local[i], req[i].key))
    BY <1>1, <1>2, OthersIsTable
  <2>2. local' \in [Gateways -> Seq(Entries)] /\ \A j \in Gateways : IsTable(local'[j])
    BY <2>1, TableChanged, ZenonT(30)
  <2>3. [req[i] EXCEPT !.pc = AfterUnbind, !.b = None] \in Reqs
    BY <1>1, ZenonT(30) DEF SessionTypeOK, AfterUnbind, Bindings, Reqs
  <2>4. req' \in [Gateways -> Reqs]
    BY <1>1, <1>2, <2>3, RequestChanged, ZenonT(30)
  <2> QED
    BY <1>1, <2>2, <2>4 DEF SessionInv, SessionTypeOK
<1>3. CASE Becomes(i, [req[i] EXCEPT !.pc = "sent"]) /\ UNCHANGED local
  <2>1. [req[i] EXCEPT !.pc = "sent"] \in Reqs
    BY <1>1 DEF SessionTypeOK, Reqs
  <2>2. req' \in [Gateways -> Reqs]
    BY <1>1, <1>3, <2>1, RequestChanged, ZenonT(30)
  <2> QED
    BY <1>1, <1>3, <2>2 DEF SessionInv, SessionTypeOK
<1> QED
  BY <1>2, <1>3 DEF Prefer

\* Bind keeps the tables.
LEMMA BindKeeps ==
    ASSUME SessionInv, NEW i \in Gateways, Bind(i)
    PROVE  SessionInv'
<1> DEFINE q == req[i]
<1>1. IsTable(local[i]) /\ SessionTypeOK /\ redis' = redis
  BY DEF SessionInv, Bind
<1>2. q.key \in Keys \cup {None} /\ q.b \in Bindings
  BY <1>1 DEF SessionTypeOK, Reqs
<1>3. /\ local' = [local EXCEPT ![i] = Bound(local[i], q.key, q.b)]
      /\ IsTable(Bound(local[i], q.key, q.b))
  <2>1. IsTable(Bound(local[i], q.key, q.b))
    <3> HIDE DEF q
    <3> QED
      BY <1>1, <1>2, BoundIsTable, ZenonT(30)
  <2> QED
    BY <2>1 DEF Bind
<1>4. local' \in [Gateways -> Seq(Entries)] /\ \A j \in Gateways : IsTable(local'[j])
  <2> HIDE DEF q
  <2> QED
    BY <1>3, TableChanged, ZenonT(30)
<1>5. req' \in [Gateways -> Reqs]
  <2>1. [q EXCEPT !.pc = "bind"] \in Reqs
    BY <1>1 DEF SessionTypeOK, Reqs
  <2>2. Becomes(i, Idle) \/ Becomes(i, [q EXCEPT !.pc = "bind"])
    BY DEF Bind
  <2> QED
    BY <1>1, <2>1, <2>2, IdleIsRequest, RequestChanged, ZenonT(30)
<1> QED
  BY <1>1, <1>4, <1>5 DEF SessionInv, SessionTypeOK

\* A step that changes no local table.
LEMMA TablesUntouched ==
    ASSUME SessionInv, local' = local, redis' \in [Keys -> Bindings], req' \in [Gateways -> Reqs]
    PROVE  SessionInv'
  BY DEF SessionInv, SessionTypeOK

\* The calls that write to the shared store keep the tables.
LEMMA SharedKeeps ==
    ASSUME SessionInv, NEW i \in Gateways, UnbindShared(i) \/ BindShared(i) \/ DeleteShared(i)
    PROVE  SessionInv'
<1>1. SessionTypeOK /\ local' = local /\ req[i] \in Reqs
  BY DEF SessionInv, SessionTypeOK, UnbindShared, BindShared, DeleteShared
<1>2. redis' \in [Keys -> Bindings]
  <2>1. CASE redis' = redis
    BY <1>1, <2>1 DEF SessionTypeOK
  <2>2. CASE redis' = [redis EXCEPT ![req[i].key] = None]
    BY <1>1, <2>2, ZenonT(30) DEF SessionTypeOK, Bindings
  <2>3. CASE redis' = [redis EXCEPT ![req[i].key] = req[i].b]
    <3>1. req[i].b \in Bindings
      BY <1>1 DEF Reqs
    <3> QED
      BY <1>1, <2>3, <3>1, ZenonT(30) DEF SessionTypeOK
  <2>4. CASE redis' = [k \in Keys |-> IF k \in inv[i].keys THEN None ELSE redis[k]]
    BY <1>1, <2>4 DEF SessionTypeOK, Bindings
  <2> QED
    BY <2>1, <2>2, <2>3, <2>4 DEF UnbindShared, BindShared, DeleteShared, Call
<1>3. req' \in [Gateways -> Reqs]
  <2>1. [req[i] EXCEPT !.pc = "pick"] \in Reqs
    BY <1>1 DEF Reqs
  <2>2. req' = req \/ Becomes(i, Idle) \/ Becomes(i, [req[i] EXCEPT !.pc = "pick"])
    BY DEF UnbindShared, BindShared, DeleteShared
  <2>3. CASE req' = req
    BY <1>1, <2>3 DEF SessionTypeOK
  <2> QED
    BY <1>1, <2>1, <2>2, <2>3, IdleIsRequest, RequestChanged, ZenonT(30)
<1> QED
  BY <1>1, <1>2, <1>3, TablesUntouched

\* Routing a request, or failing to, leaves the tables alone.
LEMMA PickKeeps ==
    ASSUME SessionInv, NEW i \in Gateways, Pick(i) \/ Fail(i)
    PROVE  SessionInv'
<1>1. SessionTypeOK /\ local' = local /\ redis' = redis /\ req[i] \in Reqs
  BY ZenonT(30) DEF SessionInv, SessionTypeOK, Pick, Fail
<1>2. ASSUME NEW b \in Backends, Becomes(i, [req[i] EXCEPT !.pc = "sent", !.b = b])
      PROVE  req' \in [Gateways -> Reqs]
  <2>1. [req[i] EXCEPT !.pc = "sent", !.b = b] \in Reqs
    BY <1>1, ZenonT(30) DEF Reqs, Bindings
  <2> QED
    BY <1>1, <1>2, <2>1, RequestChanged, ZenonT(30)
<1>3. req' \in [Gateways -> Reqs]
  BY <1>1, <1>2, IdleIsRequest, RequestChanged, ZenonT(30) DEF Pick, Fail
<1> QED
  BY <1>1, <1>3, TablesUntouched DEF SessionTypeOK

\* InvalidateBackend keeps the tables.
LEMMA InvalidateKeeps ==
    ASSUME SessionInv, NEW i \in Gateways, InvalidateBackend(i)
    PROVE  SessionInv'
<1>1. SessionTypeOK /\ IsTable(local[i]) /\ redis' = redis /\ req' = req
  BY DEF SessionInv, InvalidateBackend
<1>2. local' = [local EXCEPT ![i] = Cleared(local[i], inv[i].b)] /\ IsTable(Cleared(local[i], inv[i].b))
  BY <1>1, OnlyIsTable DEF InvalidateBackend, Cleared
<1>3. local' \in [Gateways -> Seq(Entries)] /\ \A j \in Gateways : IsTable(local'[j])
  BY <1>2, TableChanged, ZenonT(30)
<1> QED
  BY <1>1, <1>3 DEF SessionInv, SessionTypeOK

\* An entry that expires leaves a table.
LEMMA ExpireLocalKeeps ==
    ASSUME SessionInv, NEW i \in Gateways, ExpireLocal(i)
    PROVE  SessionInv'
<1>1. SessionTypeOK /\ IsTable(local[i]) /\ redis' = redis /\ req' = req /\ local[i] # << >>
  BY DEF SessionInv, ExpireLocal
<1>2. local' = [local EXCEPT ![i] = Tail(local[i])] /\ IsTable(Tail(local[i]))
  BY <1>1, TailIsTable DEF ExpireLocal
<1>3. local' \in [Gateways -> Seq(Entries)] /\ \A j \in Gateways : IsTable(local'[j])
  BY <1>2, TableChanged, ZenonT(30)
<1> QED
  BY <1>1, <1>3 DEF SessionInv, SessionTypeOK

\* The rest changes neither a local table nor a request.
LEMMA QuietKeeps ==
    ASSUME SessionInv, local' = local, req' = req,
           redis' = redis \/ \E k \in Keys : redis' = [redis EXCEPT ![k] = None]
    PROVE  SessionInv'
<1>1. redis' \in [Keys -> Bindings] /\ req' \in [Gateways -> Reqs]
  BY DEF SessionInv, SessionTypeOK, Bindings
<1> QED
  BY <1>1, TablesUntouched

\* The inductive invariant: every local table is one, its entries and the requests have
\* the shape the operations expect.
THEOREM SessionInvariance == Spec => []SessionInv
<1>1. Init => SessionInv
  <2> SUFFICES ASSUME Init PROVE SessionInv
    OBVIOUS
  <2>1. IsTable(<< >>)
    BY TableAssumption DEF IsTable, OneEach
  <2>2. SessionTypeOK
    BY IdleIsRequest DEF Init, SessionTypeOK, Bindings
  <2> QED
    BY <2>1, <2>2 DEF Init, SessionInv
<1>2. SessionInv /\ [Next]_vars => SessionInv'
  <2> SUFFICES ASSUME SessionInv, [Next]_vars PROVE SessionInv'
    OBVIOUS
  <2>1. ASSUME NEW i \in Gateways, NEW k \in Keys, Lookup(i, k) PROVE SessionInv'
    BY <2>1, LookupKeeps
  <2>2. ASSUME NEW i \in Gateways, Serve(i) PROVE SessionInv'
    BY <2>2, PreferKeeps, SharedKeeps, PickKeeps, BindKeeps DEF Serve
  <2>3. ASSUME NEW i \in Gateways, Invalidate(i) PROVE SessionInv'
    <3>1. CASE InvalidateBackend(i)
      BY <3>1, InvalidateKeeps
    <3>2. CASE DeleteShared(i)
      BY <3>2, SharedKeeps
    <3>3. CASE ScanShared(i) \/ Invalidated(i)
      BY <3>3, QuietKeeps DEF ScanShared, Invalidated
    <3> QED
      BY <2>3, <3>1, <3>2, <3>3 DEF Invalidate
  <2>4. ASSUME NEW i \in Gateways, NEW b \in Backends,
               ComesBack(i, b) \/ \E how \in {"down", "told", "quiet"} : GoesOut(i, b, how)
        PROVE  SessionInv'
    BY <2>4, QuietKeeps DEF ComesBack, GoesOut
  <2>5. ASSUME NEW i \in Gateways, ExpireLocal(i) PROVE SessionInv'
    BY <2>5, ExpireLocalKeeps
  <2>6. ASSUME NEW k \in Keys, ExpireShared(k) PROVE SessionInv'
    BY <2>6, QuietKeeps, ZenonT(30) DEF ExpireShared
  <2>7. CASE UNCHANGED vars
    BY <2>7, QuietKeeps DEF vars
  <2> QED
    BY <2>1, <2>2, <2>3, <2>4, <2>5, <2>6, <2>7 DEF Next
<1> QED
  BY <1>1, <1>2, PTL DEF Spec

\* For every capacity a local table never outgrows it and has one entry for a key, however
\* lookups, bindings, invalidations and expiries follow each other (Store.Bind, evictOldest).
THEOREM TablesAreBounded == Spec => []TableBounded
<1>1. SessionInv => TableBounded
  BY DEF SessionInv, IsTable, OneEach, TableBounded
<1> QED
  BY <1>1, SessionInvariance, PTL
=============================================================================
