----------------------------- MODULE StateSync ------------------------------
(***************************************************************************)
(* How one dynamic item, a scheduling policy or a dynamically registered   *)
(* backend, is kept the same on all instances of a cluster: the handlers of*)
(* the admin API (internal/server), the optional database (internal/store) *)
(* with its reconciler (internal/reconcile), the broadcasts over Redis     *)
(* pub/sub, and the state mirrors whose entries the leader merges and      *)
(* publishes again (internal/cluster).  Items do not influence each other, *)
(* so one is enough; `kind' says which it is.                              *)
(*                                                                         *)
(* The content of the item is a value or Absent.  A subscription is a queue*)
(* of its own: `inbox' feeds RunPolicySubscriber or RunBackendSubscriber,   *)
(* `mbox' the mirror.  Versions are the clock of the observer; the clocks  *)
(* agree and no two observations have the same version.                    *)
(***************************************************************************)
EXTENDS Naturals, Sequences

CONSTANTS
    Instances,      \* gateway instances
    Original,       \* the content of a policy in the configuration file
    Absent,         \* no such backend; no row; no value read
    Deployments     \* what to look at: records of
                    \*   kind     "policy" or "backend"
                    \*   store    is there a database?
                    \*   leaders  the instances that lead
                    \*   values   the contents operators may give the item
                    \*   changes  bound on the requests of operators
                    \*   faults   bound on lost messages, failed writes and restarts

ASSUME DeploymentsAssumption ==
    \A d \in Deployments :
        /\ d.kind \in {"policy", "backend"} /\ d.store \in BOOLEAN
        /\ d.leaders \subseteq Instances /\ Absent \notin d.values
        /\ d.changes \in Nat /\ d.faults \in Nat
ASSUME OriginalAssumption == Original # Absent

VARIABLES
    dep,        \* the deployment
    cfg,        \* the content in the registry or policy engine of an instance
    db,         \* the row of the item
    op,         \* the handler in progress on an instance
    inbox, mbox,    \* broadcasts on their way to the subscriber and to the mirror
    mirror,     \* m.mirror: the entry of the item
    snap,       \* the snapshot key of an instance in Redis
    plan,       \* what replayOnce has merged and is about to publish
    rows,       \* what the reconciler has read from the database
    now,        \* the clock of the versions
    recent,     \* the entry's last change is within the window of the replay
    replayed,   \* it has been published again since that change
    changes,    \* requests of operators and faults so far
    faults,
    unseen,     \* no mirror has seen some broadcast
    restarted   \* some instance has restarted

kind == dep.kind
store == dep.store
sync == <<mirror, snap, plan, now, recent, replayed>>
past == <<changes, faults, unseen, restarted>>
syncVars == <<dep, cfg, db, op, inbox, mbox, sync, rows, past>>

Idle == [at |-> "idle", val |-> Absent]
NoEntry == [val |-> Absent, origin |-> Absent, ver |-> 0]
Nothing == [val |-> Absent, read |-> FALSE]

Fault == faults < dep.faults /\ faults' = faults + 1

-----------------------------------------------------------------------------
(* Broadcasts.                                                             *)

\* What reaches the subscribers is the message without those who miss it.
Delivered(box, missed, msg) ==
    [i \in Instances |-> IF i \in missed THEN box[i] ELSE Append(box[i], msg)]

\* One subscription that is not connected, or a call of Publish that fails.
Misses ==
    {[inbox |-> {i}, mbox |-> {}] : i \in Instances}
    \cup {[inbox |-> {}, mbox |-> {i}] : i \in Instances}
    \cup {[inbox |-> Instances, mbox |-> Instances]}

\* Publish: every connected subscription gets the message, the publisher's too.
\* One that is not connected misses it for good; a Publish that fails reaches none.
Publish(msg) ==
    \/ /\ inbox' = Delivered(inbox, {}, msg) /\ mbox' = Delivered(mbox, {}, msg)
       /\ UNCHANGED <<faults, unseen>>
    \/ /\ Fault
       /\ \E m \in Misses :
             /\ inbox' = Delivered(inbox, m.inbox, msg)
             /\ mbox' = Delivered(mbox, m.mbox, msg)
             /\ unseen' = (unseen \/ m.mbox = Instances)

Msg(origin, val, again) == [origin |-> origin, val |-> val, again |-> again]

\* A subscriber takes its next message; one of the own origin is skipped.
Apply(i) ==
    /\ inbox[i] # << >>
    /\ inbox' = [inbox EXCEPT ![i] = Tail(@)]
    /\ cfg' = IF Head(inbox[i]).origin = i
              THEN cfg ELSE [cfg EXCEPT ![i] = Head(inbox[i]).val]
    /\ UNCHANGED <<dep, db, op, mbox, sync, rows, past>>

\* RunPolicySubscriber: the policy is set.
ApplyPolicy(i) == kind = "policy" /\ Apply(i)

\* RunBackendSubscriber: the backend is put in place or removed (RemoveBackend of one
\* that is not there changes nothing).
ApplyBackend(i) == kind = "backend" /\ Apply(i)

-----------------------------------------------------------------------------
(* The admin API.  A handler changes memory, then the database, then       *)
(* broadcasts; a delete starts with the database.                          *)

Then(i, at, val) == op' = [op EXCEPT ![i] = [at |-> at, val |-> val]]
Done(i) == op' = [op EXCEPT ![i] = Idle]
AfterMemory == IF store THEN "write" ELSE "publish"

Change(i, v) ==
    /\ op[i] = Idle /\ changes < dep.changes
    /\ changes' = changes + 1
    /\ cfg' = [cfg EXCEPT ![i] = v]
    /\ Then(i, AfterMemory, v)
    /\ UNCHANGED <<dep, db, inbox, mbox, sync, rows, faults, unseen, restarted>>

\* handlePolicyPut and applyPolicySource up to the change in memory.
PutPolicy(i, v) == kind = "policy" /\ Change(i, v)

\* handleBackendPost up to there; a backend that exists is refused with 409.
PostBackend(i, v) == kind = "backend" /\ cfg[i] = Absent /\ Change(i, v)

\* UpsertPolicy of the store.  If it fails the handler gives up without a broadcast;
\* the policy stays in memory.
UpsertPolicy(i) ==
    /\ kind = "policy" /\ op[i].at = "write"
    /\ \/ db' = op[i].val /\ Then(i, "publish", op[i].val) /\ UNCHANGED faults
       \/ Fault /\ Done(i) /\ UNCHANGED db
    /\ UNCHANGED <<dep, cfg, inbox, mbox, sync, rows, changes, unseen, restarted>>

\* UpsertBackend of the store.  If it fails the backend is removed from memory again.
UpsertBackend(i) ==
    /\ kind = "backend" /\ op[i].at = "write"
    /\ \/ db' = op[i].val /\ Then(i, "publish", op[i].val) /\ UNCHANGED <<cfg, faults>>
       \/ Fault /\ Done(i) /\ cfg' = [cfg EXCEPT ![i] = Absent] /\ UNCHANGED db
    /\ UNCHANGED <<dep, inbox, mbox, sync, rows, changes, unseen, restarted>>

\* DeleteBackend of the store, also of a row that is not there.
DeleteBackend == db' = Absent

\* handleBackendDelete: the row first; if that fails nothing is changed.
Delete(i) ==
    /\ kind = "backend"
    /\ op[i] = Idle /\ changes < dep.changes
    /\ changes' = changes + 1
    /\ \/ /\ DeleteBackend
          /\ Then(i, "remove", Absent)
          /\ UNCHANGED faults
       \/ /\ store /\ Fault
          /\ UNCHANGED <<db, op>>
    /\ UNCHANGED <<dep, cfg, inbox, mbox, sync, rows, unseen, restarted>>

\* RemoveBackend: if this instance does not have the backend the handler answers
\* 404 and broadcasts nothing.
Remove(i) ==
    /\ op[i].at = "remove"
    /\ IF cfg[i] = Absent THEN Done(i) ELSE Then(i, "publish", Absent)
    /\ cfg' = [cfg EXCEPT ![i] = Absent]
    /\ UNCHANGED <<dep, db, inbox, mbox, sync, rows, past>>

PublishChange(i) ==
    /\ op[i].at = "publish"
    /\ Publish(Msg(i, op[i].val, FALSE))
    /\ Done(i)
    /\ UNCHANGED <<dep, cfg, db, sync, rows, changes, restarted>>

PublishPolicy(i) == kind = "policy" /\ PublishChange(i)
PublishBackendChange(i) == kind = "backend" /\ PublishChange(i)

-----------------------------------------------------------------------------
(* The reconciler of an instance, with a database.                         *)

\* Once: a read that fails skips the round.
ReadRows(i) ==
    /\ store /\ ~ rows[i].read
    /\ rows' = [rows EXCEPT ![i] = [val |-> db, read |-> TRUE]]
    /\ UNCHANGED <<dep, cfg, db, op, inbox, mbox, sync, past>>

ListBackends(i) == kind = "backend" /\ ReadRows(i)
ListPolicies(i) == kind = "policy" /\ ReadRows(i)

\* Mutant of LeftAlone: a backend without a row stays, too.
LeftAloneAlways(val) == val = Absent

LeftAlone(val) == kind = "policy" /\ val = Absent

\* What differs from the rows is replaced.
Reconcile(i) ==
    /\ rows[i].read
    /\ rows' = [rows EXCEPT ![i] = Nothing]
    /\ cfg' = IF LeftAlone(rows[i].val)
              THEN cfg ELSE [cfg EXCEPT ![i] = rows[i].val]
    /\ UNCHANGED <<dep, db, op, inbox, mbox, sync, past>>

\* reconcileBackends, where a backend without a row is removed, and reconcilePolicies,
\* where a policy without one is left alone.
ReconcileBackends(i) == kind = "backend" /\ Reconcile(i)
ReconcilePolicies(i) == kind = "policy" /\ Reconcile(i)

-----------------------------------------------------------------------------
(* The mirrors and the replay.                                             *)

\* observePolicy, observeBackend: only a change of the content advances the
\* version; the first delete seen leaves a tombstone.
Observed(entry, msg) ==
    IF entry.ver > 0 /\ entry.val = msg.val
    THEN entry
    ELSE [val |-> msg.val, origin |-> msg.origin, ver |-> now + 1]

\* writeSnapshot, which may fail.
WriteSnapshot(i, entry) ==
    \/ snap' = [snap EXCEPT ![i] = entry] /\ UNCHANGED faults
    \/ Fault /\ UNCHANGED snap

\* runStateMirror, on a message.
Observe(i) ==
    /\ mbox[i] # << >>
    /\ mbox' = [mbox EXCEPT ![i] = Tail(@)]
    /\ LET entry == Observed(mirror[i], Head(mbox[i])) IN
          /\ mirror' = [mirror EXCEPT ![i] = entry]
          /\ now' = IF entry # mirror[i] THEN now + 1 ELSE now
          /\ recent' = (recent \/ entry # mirror[i])
          /\ replayed' = (replayed /\ entry = mirror[i])
          /\ WriteSnapshot(i, entry)
    /\ UNCHANGED <<dep, cfg, db, op, inbox, plan, rows, changes, unseen, restarted>>

\* Mutant of Merged: the snapshots of the others are not read.
MergedAlone(i) == mirror[i]

ReadSnapshots == {snap[j] : j \in Instances}

\* mergeState over the own mirror and all snapshots: the highest version wins.
Merged(i) ==
    CHOOSE e \in {mirror[i]} \cup ReadSnapshots :
        \A f \in {mirror[i]} \cup ReadSnapshots : f.ver <= e.ver

\* runResyncLoop at a tick: every instance refreshes its snapshot.
Refresh(i) ==
    /\ i \notin dep.leaders /\ snap[i] # mirror[i]
    /\ snap' = [snap EXCEPT ![i] = mirror[i]]
    /\ UNCHANGED <<dep, cfg, db, op, inbox, mbox, mirror, plan, now, recent, replayed,
                   rows, past>>

\* A leader then reads and merges the snapshots.  A period is longer than it takes to
\* deliver what the last replay published.
ReplayRead(i) ==
    /\ i \in dep.leaders /\ plan[i] = NoEntry
    /\ kind = "policy" \/ recent
    /\ \A j \in Instances : \A box \in {inbox[j], mbox[j]} :
          \A n \in DOMAIN box : ~ box[n].again
    /\ WriteSnapshot(i, mirror[i])
    /\ plan' = [plan EXCEPT ![i] = Merged(i)]
    /\ UNCHANGED <<dep, cfg, db, op, inbox, mbox, mirror, now, recent, replayed,
                   rows, changes, unseen, restarted>>

\* publishResyncPolicy and publishResyncBackend: the first origin stays.
Resync(entry) == Msg(entry.origin, entry.val, TRUE)

\* replayOnce publishes the entry: a policy always, a
\* backend only within the window.
ReplayPublish(i) ==
    /\ plan[i].ver > 0
    /\ plan' = [plan EXCEPT ![i] = NoEntry]
    /\ IF kind = "policy" \/ recent
       THEN Publish(Resync(plan[i])) /\ replayed' = TRUE
       ELSE UNCHANGED <<inbox, mbox, faults, unseen, replayed>>
    /\ UNCHANGED <<dep, cfg, db, op, mirror, snap, now, recent, rows, changes, restarted>>

\* The last change of a backend leaves the window of eight periods; by then it has
\* been published again and delivered.
WindowEnds ==
    /\ kind = "backend" /\ recent /\ replayed
    /\ \A i \in Instances : inbox[i] = << >> /\ mbox[i] = << >> /\ plan[i] = NoEntry
    /\ recent' = FALSE
    /\ UNCHANGED <<dep, cfg, db, op, inbox, mbox, mirror, snap, plan, now,
                   replayed, rows, past>>

\* bootstrapMirror
Bootstrapped(i) == snap[i]

\* A crash and a new start: the configuration file overlaid with the rows, and the
\* mirror that the snapshot still holds.
Restart(i) ==
    /\ Fault /\ restarted' = TRUE
    /\ cfg' = [cfg EXCEPT ![i] =
                  IF store /\ db # Absent THEN db
                  ELSE IF kind = "policy" THEN Original ELSE Absent]
    /\ op' = [op EXCEPT ![i] = Idle]
    /\ inbox' = [inbox EXCEPT ![i] = << >>] /\ mbox' = [mbox EXCEPT ![i] = << >>]
    /\ mirror' = [mirror EXCEPT ![i] = Bootstrapped(i)]
    /\ plan' = [plan EXCEPT ![i] = NoEntry]
    /\ rows' = [rows EXCEPT ![i] = Nothing]
    /\ UNCHANGED <<dep, db, snap, now, recent, replayed, changes, unseen>>

SyncInit ==
    /\ dep \in Deployments
    /\ \E c \in IF kind = "policy" THEN {Original} ELSE dep.values \cup {Absent} :
          /\ cfg = [i \in Instances |-> c]
          /\ db = IF store /\ kind = "backend" THEN c ELSE Absent
    /\ op = [i \in Instances |-> Idle]
    /\ inbox = [i \in Instances |-> << >>] /\ mbox = inbox
    /\ mirror = [i \in Instances |-> NoEntry] /\ snap = mirror /\ plan = mirror
    /\ rows = [i \in Instances |-> Nothing]
    /\ now = 0 /\ recent = FALSE /\ replayed = FALSE
    /\ changes = 0 /\ faults = 0 /\ unseen = FALSE /\ restarted = FALSE

Handler(i) ==
    UpsertPolicy(i) \/ UpsertBackend(i) \/ Remove(i) \/ PublishPolicy(i) \/ PublishBackendChange(i)

Subscriber(i) == ApplyPolicy(i) \/ ApplyBackend(i)

Reconciler(i) ==
    ListBackends(i) \/ ListPolicies(i) \/ ReconcileBackends(i) \/ ReconcilePolicies(i)

SyncNext ==
    \/ \E i \in Instances :
          \/ \E v \in dep.values : PutPolicy(i, v) \/ PostBackend(i, v)
          \/ Delete(i) \/ Handler(i) \/ Subscriber(i) \/ Observe(i)
          \/ Reconciler(i) \/ Refresh(i) \/ ReplayRead(i) \/ ReplayPublish(i)
          \/ Restart(i)
    \/ WindowEnds

SyncSpec == SyncInit /\ [][SyncNext]_syncVars

\* Handlers, subscribers and the tickers of every instance keep running, and time
\* passes.  Nothing is assumed of operators and faults.
SyncFairSpec ==
    /\ SyncSpec
    /\ WF_syncVars(WindowEnds)
    /\ \A i \in Instances :
          /\ WF_syncVars(Handler(i)) /\ WF_syncVars(Subscriber(i)) /\ WF_syncVars(Observe(i))
          /\ WF_syncVars(Reconciler(i))
          /\ WF_syncVars(Refresh(i)) /\ WF_syncVars(ReplayRead(i)) /\ WF_syncVars(ReplayPublish(i))

-----------------------------------------------------------------------------
(* Properties.                                                             *)

\* With a database every instance comes to what the database holds, whatever
\* broadcasts were lost or crossed each other, writes failed, rounds of the
\* reconciler worked from old rows and instances restarted (reconcile.go:97).  A policy
\* without a row keeps the source each instance has.
InstancesFollowStore ==
    <>[](store => \A i \in Instances : cfg[i] = db \/ (kind = "policy" /\ db = Absent))

\* The entry all mirrors end with.
Latest == CHOOSE e \in {mirror[i] : i \in Instances} :
              \A i \in Instances : mirror[i].ver <= e.ver

\* Without a database the replay brings a change that some mirror has seen to all
\* mirrors and to all instances, also those that missed the broadcast; only the
\* instance it originated from is left out, as it skips its own messages.  An
\* instance that restarts after the window of a backend is not brought back.
ReplayReaches ==
    <>[](\/ store
         \/ unseen
         \/ kind = "backend" /\ restarted
         \/ \A i \in Instances :
               /\ mirror[i].val = Latest.val
               /\ cfg[i] = Latest.val \/ Latest.origin = i \/ Latest.ver = 0)

\* Whatever is lost, delayed, reconciled, replayed or restarted, an instance has the content
\* of its configuration file or one that an operator gave; a policy is never taken away, not
\* by a missing row, nor by an empty mirror or snapshot (reconcilePolicies, replayOnce).
OnlyConfigured ==
    \A i \in Instances :
        cfg[i] \in dep.values \cup {IF kind = "policy" THEN Original ELSE Absent}

\* The snapshot of an instance in Redis never goes back to an older version, although its
\* mirror does when it restarts from a snapshot that could not be written (bootstrapMirror,
\* writeSnapshot, runResyncLoop).
SnapshotsAdvance == [][\A i \in Instances : snap[i].ver <= snap'[i].ver]_syncVars

\* The claim of cluster/policy.go:1 that broadcasts keep the policy the same on all
\* instances: once operators are done they agree.
InstancesAgree == <>[](\A i, j \in Instances : cfg[i] = cfg[j])

=============================================================================
