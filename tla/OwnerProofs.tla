----------------------------- MODULE OwnerProofs -----------------------------
(***************************************************************************)
(* The two owners of the firmware's shared hardware.  The flash owner is   *)
(* exclusive for any number of tasks, any token width and any waiting      *)
(* budget, and its releases never fail.  The Wi-Fi owner's proof of a      *)
(* connection is real and no state of it is a dead end, for any set of     *)
(* networks and any length of the event queue.                             *)
(***************************************************************************)
EXTENDS StorageOwner, WifiRuntime, TLAPS

-----------------------------------------------------------------------------
(* The flash owner: the inductive invariant *)

\* A task that is reserving the owner or holds it.
Owning == HoldingStages \cup {"reserved", "minted"}

\* Where the active token of a holder is kept: parked in the shared variable
\* while the SDK runs between two callbacks, else in the task's own claim.
ClaimOf(t) == IF pc[t] = "held" /\ kind[t] = "ota" THEN handoff ELSE claim[t]

ExclusiveInv == \A t, u \in Tasks : pc[t] \in Owning /\ pc[u] \in Owning => t = u

ReservedInv ==
    \A t \in Tasks : pc[t] \in {"reserved", "minted"} => activeToken = MaxToken

MintedInv == \A t \in Tasks : pc[t] = "minted" => nextToken \in Token

HeldInv ==
    \A t \in Tasks : pc[t] \in HoldingStages =>
        activeToken \in Token /\ activeToken = ClaimOf(t)

KindInv == \A t \in Tasks : pc[t] = "acquired" => kind[t] = "ota"

OwnerInv == KindInv /\ OwnerTypeOK /\ ExclusiveInv /\ ReservedInv /\ MintedInv /\ HeldInv

\* While a task owns the flash or is reserving it, the owner is not idle.
LEMMA OwnerBusy == OwnerInv => \A t \in Tasks : pc[t] \in Owning => activeToken # 0
BY OwnerAssumption DEF OwnerInv, Owning, ReservedInv, HeldInv, Token, HoldingStages

\* The initialised owner satisfies the invariant.
LEMMA InitOwnerInv == OwnerInit => OwnerInv
BY OwnerAssumption DEF OwnerInit, OwnerInv, OwnerTypeOK, Stages, Kinds, Owning, HoldingStages,
     ExclusiveInv, ReservedInv, MintedInv, HeldInv, KindInv

\* Every atomic step of claim and release keeps the types.
LEMMA TypeStep == OwnerTypeOK /\ [OwnerNext]_ownerVars => OwnerTypeOK'
<1> SUFFICES ASSUME OwnerTypeOK, [OwnerNext]_ownerVars PROVE OwnerTypeOK'
  OBVIOUS
<1> USE OwnerAssumption DEF OwnerTypeOK, Stages, HoldingStages, Goto
<1>1. ASSUME NEW t \in Tasks, Call(t) PROVE OwnerTypeOK'
  BY <1>1 DEF Call, Kinds
<1>2. ASSUME NEW t \in Tasks, Reserve(t) PROVE OwnerTypeOK'
  BY <1>2 DEF Reserve
<1>3. ASSUME NEW t \in Tasks, Busy(t) PROVE OwnerTypeOK'
  BY <1>3 DEF Busy, Refused, GiveUp, Retry
<1>4. ASSUME NEW t \in Tasks, Exhausted(t) PROVE OwnerTypeOK'
  BY <1>4 DEF Exhausted, Refused, GiveUp, Retry
<1>5. ASSUME NEW t \in Tasks, Mint(t) PROVE OwnerTypeOK'
  BY <1>5 DEF Mint
<1>6. ASSUME NEW t \in Tasks, Publish(t) PROVE OwnerTypeOK'
  BY <1>6 DEF Publish
<1>7. ASSUME NEW t \in Tasks, Park(t) PROVE OwnerTypeOK'
  BY <1>7 DEF Park
<1>8. ASSUME NEW t \in Tasks, LoadHandoff(t) \/ ClearHandoff(t) PROVE OwnerTypeOK'
  BY <1>8 DEF LoadHandoff, ClearHandoff
<1>9. ASSUME NEW t \in Tasks, Finish(t) PROVE OwnerTypeOK'
  BY <1>9 DEF Finish
<1>10. ASSUME NEW t \in Tasks, Free(t) PROVE OwnerTypeOK'
  BY <1>10 DEF Free
<1>11. CASE UNCHANGED ownerVars
  BY <1>11 DEF ownerVars
<1>12. QED
  BY <1>1, <1>2, <1>3, <1>4, <1>5, <1>6, <1>7, <1>8, <1>9, <1>10, <1>11
  DEF OwnerNext, Step

\* A step that starts from an idle owner, keeps a lone owner or ends its
\* ownership preserves the invariant, action by action.
LEMMA OwnerStep == OwnerInv /\ [OwnerNext]_ownerVars => OwnerInv'
<1> SUFFICES ASSUME OwnerInv, [OwnerNext]_ownerVars PROVE OwnerInv'
  OBVIOUS
<1> USE OwnerAssumption
<1>0. OwnerTypeOK'
  BY TypeStep DEF OwnerInv
<1>a. \A u \in Tasks : pc[u] \in Owning => activeToken # 0
  BY OwnerBusy
<1> DEFINE Rest == KindInv /\ ExclusiveInv /\ ReservedInv /\ MintedInv /\ HeldInv
<1> USE <1>0 DEF OwnerInv, OwnerTypeOK, Goto, Owning, HoldingStages, ExclusiveInv, ReservedInv,
     MintedInv, HeldInv, KindInv, ClaimOf, Token
<1>1. ASSUME NEW t \in Tasks, Call(t) PROVE Rest'
  BY <1>1 DEF Call
<1>2. ASSUME NEW t \in Tasks, Reserve(t) PROVE Rest'
  BY <1>2, <1>a DEF Reserve
<1>3. ASSUME NEW t \in Tasks, Busy(t) PROVE Rest'
  BY <1>3 DEF Busy, Refused, GiveUp, Retry
<1>4. ASSUME NEW t \in Tasks, Exhausted(t) PROVE Rest'
  BY <1>4 DEF Exhausted, Refused, GiveUp, Retry
<1>5. ASSUME NEW t \in Tasks, Mint(t) PROVE Rest'
  BY <1>5 DEF Mint
<1>6. ASSUME NEW t \in Tasks, Publish(t) PROVE Rest'
  BY <1>6 DEF Publish
<1>7. ASSUME NEW t \in Tasks, Park(t) PROVE Rest'
  BY <1>7 DEF Park
<1>8. ASSUME NEW t \in Tasks, LoadHandoff(t) PROVE Rest'
  BY <1>8 DEF LoadHandoff
<1>9. ASSUME NEW t \in Tasks, ClearHandoff(t) PROVE Rest'
  BY <1>9 DEF ClearHandoff
<1>10. ASSUME NEW t \in Tasks, Finish(t) PROVE Rest'
  BY <1>10 DEF Finish
<1>11. ASSUME NEW t \in Tasks, Free(t) PROVE Rest'
  BY <1>11 DEF Free
<1>12. CASE UNCHANGED ownerVars
  BY <1>12 DEF ownerVars
<1>13. Rest'
  BY <1>1, <1>2, <1>3, <1>4, <1>5, <1>6, <1>7, <1>8, <1>9, <1>10, <1>11, <1>12
  DEF OwnerNext, Step
<1>14. QED
  BY <1>13

\* The inductive invariant holds throughout.
LEMMA OwnerInvariant == OwnerSpec => []OwnerInv
<1>1. QED
  BY InitOwnerInv, OwnerStep, PTL DEF OwnerSpec

\* esp_base_storage_owner.c: the tokens, the claims and the handoff keep
\* their types; in particular a token never reaches the reserved UINT_MAX.
THEOREM TypeCorrect == OwnerSpec => []OwnerTypeOK
<1>1. OwnerInv => OwnerTypeOK
  BY DEF OwnerInv
<1>2. QED
  BY <1>1, OwnerInvariant, PTL

\* No two tasks are inside a flash claim at once.
THEOREM Exclusion == OwnerSpec => []MutualExclusion
<1>1. OwnerInv => MutualExclusion
  BY DEF OwnerInv, ExclusiveInv, MutualExclusion, Owning
<1>2. QED
  BY <1>1, OwnerInvariant, PTL

\* A release of the flash, parked claim or local claim, always succeeds.
THEOREM ReleaseCorrect == OwnerSpec => []ReleaseSucceeds
<1>1. OwnerInv => ReleaseSucceeds
  BY OwnerAssumption DEF OwnerInv, HeldInv, ClaimOf, ReleaseSucceeds, HoldingStages, Token
<1>2. QED
  BY <1>1, OwnerInvariant, PTL

\* The holder seen by the abstract owner is the one task inside a claim ...
LEMMA HolderIs ==
    ASSUME ExclusiveInv, NEW t \in Tasks, pc[t] \in HoldingStages
    PROVE  Holder = t
BY DEF Holder, ExclusiveInv, Owning

\* ... and nobody when there is none.
LEMMA HolderNobody ==
    ASSUME \A t \in Tasks : pc[t] \notin HoldingStages
    PROVE  Holder = Nobody
BY DEF Holder

\* Publish is the abstract Take, Free the abstract Give, all else stutters.
LEMMA HolderStep == OwnerInv /\ OwnerInv' /\ [OwnerNext]_ownerVars => [Abstract!Next]_Holder
<1> SUFFICES ASSUME OwnerInv, OwnerInv', [OwnerNext]_ownerVars
             PROVE  Abstract!Next \/ Holder' = Holder
  OBVIOUS
<1> USE OwnerAssumption DEF OwnerInv, OwnerTypeOK
<1>1. ASSUME NEW t \in Tasks, Publish(t) PROVE Abstract!Take(t)
  <2>1. pc[t] = "minted" /\ pc'[t] \in HoldingStages
    BY <1>1 DEF Publish, Goto, HoldingStages
  <2>2. \A u \in Tasks : pc[u] \notin HoldingStages
    BY <2>1 DEF ExclusiveInv, Owning, HoldingStages
  <2>3. Holder = Nobody
    BY <2>2, HolderNobody
  <2>4. Holder' = t
    BY <2>1 DEF Holder, ExclusiveInv, Owning
  <2>5. QED
    BY <2>3, <2>4 DEF Abstract!Take
<1>2. ASSUME NEW t \in Tasks, Free(t) PROVE Abstract!Give(t)
  <2>1. pc[t] \in HoldingStages /\ pc' = [pc EXCEPT ![t] = "idle"]
    BY <1>2 DEF Free, Goto, HoldingStages
  <2>2. Holder = t
    BY <2>1, HolderIs
  <2>3. \A u \in Tasks : pc'[u] \notin HoldingStages
    BY <2>1 DEF ExclusiveInv, Owning, HoldingStages
  <2>4. Holder' = Nobody
    BY <2>3 DEF Holder
  <2>5. QED
    BY <2>2, <2>4 DEF Abstract!Give
<1>3. ASSUME \A u \in Tasks : pc'[u] \in HoldingStages <=> pc[u] \in HoldingStages
      PROVE  Holder' = Holder
  <2>1. CASE \E u \in Tasks : pc[u] \in HoldingStages
    <3>1. PICK u \in Tasks : pc[u] \in HoldingStages
      BY <2>1
    <3>2. Holder = u
      BY <3>1, HolderIs
    <3>3. pc'[u] \in HoldingStages
      BY <3>1, <1>3
    <3>4. Holder' = u
      BY <3>3 DEF Holder, ExclusiveInv, Owning
    <3>5. QED
      BY <3>2, <3>4
  <2>2. CASE ~ \E u \in Tasks : pc[u] \in HoldingStages
    BY <2>2, <1>3 DEF Holder
  <2>3. QED
    BY <2>1, <2>2
<1>4. ASSUME NEW t \in Tasks,
             \/ Call(t) \/ Reserve(t) \/ Busy(t) \/ Exhausted(t) \/ Mint(t)
             \/ Park(t) \/ LoadHandoff(t) \/ ClearHandoff(t) \/ Finish(t)
      PROVE  \A u \in Tasks : pc'[u] \in HoldingStages <=> pc[u] \in HoldingStages
  BY <1>4 DEF Call, Reserve, Busy, Refused, GiveUp, Retry, Exhausted, Mint, Park,
     LoadHandoff, ClearHandoff, Finish, Goto, HoldingStages
<1>5. ASSUME UNCHANGED ownerVars PROVE Holder' = Holder
  BY <1>5, <1>3 DEF ownerVars
<1>6. QED
  BY <1>1, <1>2, <1>3, <1>4, <1>5 DEF OwnerNext, Step, Abstract!Next

\* The firmware's token algorithm with its handoff implements ExclusiveOwner.
THEOREM Refinement == OwnerSpec => ImplementsExclusiveOwner
<1>1. OwnerInit => Abstract!Init
  BY DEF OwnerInit, Abstract!Init, Holder, HoldingStages
<1>2. QED
  BY <1>1, HolderStep, OwnerInvariant, PTL DEF OwnerSpec, ImplementsExclusiveOwner, Abstract!Spec

-----------------------------------------------------------------------------
(* The Wi-Fi owner: the inductive invariant *)

\* The owner knows whether the radio runs: an inactive station is stopped, a
\* stopping one on its way, any other one started.
ModeInv ==
    /\ ~s.active => ~s.stopping /\ d.mode = "stopped"
    /\ s.stopping => d.mode \in {"stopping", "stopped"}
    /\ s.active /\ ~s.stopping => d.mode \notin {"stopping", "stopped"}

\* An association is one with the configured network, and never outlives the mode.
LinkInv ==
    /\ d.mode # "stopped" => d.config \in Networks
    /\ d.link # NoLink => d.link = d.config
    /\ d.mode \in {"stopped", "starting", "idle", "connecting"} => d.link = NoLink

\* The radio runs the latest selection unless it is being stopped or failed.
ConfigInv ==
    /\ s.config = wanted
    /\ s.active /\ ~s.stopping /\ s.state # "failed" => d.config = s.config
    /\ s.state = "unconfigured" => ~s.active /\ s.config = Off

\* A failed station has neither retry nor proof; a ready one was not disturbed.
StateInv ==
    /\ s.state = "failed" => s.retry = "none"
    /\ s.ready => s.active /\ ~s.stopping /\ s.state # "failed"
    /\ d.mode = "starting" => ~s.connecting

\* A stop is reported once, and only while it is awaited.
StoppedInv ==
    /\ Queued({"STOPPED"}) => s.stopping /\ d.mode = "stopped"
    /\ \A i, j \in 1 .. Len(queue) : queue[i] = "STOPPED" /\ queue[j] = "STOPPED" => i = j

\* Nobody connects before the start was reported.
StartedInv == Queued({"STARTED"}) => ~s.connecting

\* While the radio is idle a retry is ahead, or an event that schedules one.
RetryInv ==
    (s.active /\ ~s.stopping /\ s.state # "failed" /\ d.mode = "idle" /\ ~overflow)
      => (s.retry # "none" /\ ~s.connecting) \/ Queued({"STARTED", "DISCONNECTED"})

\* A ready station has its address, or an event that takes the proof back.
ReadyInv ==
    s.ready => \/ d.link = wanted /\ d.address
               \/ overflow \/ Queued({"DISCONNECTED", "LOST_ADDRESS"})

Rest == ModeInv /\ LinkInv /\ ConfigInv /\ StateInv /\ StoppedInv /\ StartedInv /\ RetryInv /\ ReadyInv

IInv == TypeOK /\ Rest

-----------------------------------------------------------------------------
(* The event queue *)

\* Taking the first event leaves the others in their order.
LEMMA QueueTail ==
    ASSUME queue \in Seq(Events), queue # <<>>, queue' = Tail(queue), NEW E
    PROVE  /\ queue' \in Seq(Events) /\ Len(queue') = Len(queue) - 1 /\ Head(queue) \in Events
           /\ Queued(E)' => Queued(E)
           /\ Queued(E) => Queued(E)' \/ Head(queue) \in E
<1>1. Len(queue) \in Nat \ {0} /\ queue' \in Seq(Events) /\ Len(queue') = Len(queue) - 1
  OBVIOUS
<1>2. \A i \in 1 .. Len(queue') : queue'[i] = queue[i + 1]
  OBVIOUS
<1>3. Head(queue) = queue[1] /\ Head(queue) \in Events
  OBVIOUS
<1>4. Queued(E)' => Queued(E)
  BY <1>1, <1>2 DEF Queued
<1>5. Queued(E) => Queued(E)' \/ Head(queue) \in E
  <2> SUFFICES ASSUME NEW i \in 1 .. Len(queue), queue[i] \in E, Head(queue) \notin E PROVE Queued(E)'
    BY DEF Queued
  <2>1. i # 1
    BY <1>3
  <2>2. i - 1 \in 1 .. Len(queue') /\ queue'[i - 1] = queue[i]
    BY <1>1, <1>2, <2>1
  <2>3. QED
    BY <2>2 DEF Queued
<1>6. QED
  BY <1>1, <1>3, <1>4, <1>5

\* A stop that was reported once is reported no more when it is taken.
LEMMA StoppedTail ==
    ASSUME TypeOK, StoppedInv, queue # <<>>, queue' = Tail(queue)
    PROVE  /\ Head(queue) = "STOPPED" => ~Queued({"STOPPED"})'
           /\ \A i, j \in 1 .. Len(queue') : queue'[i] = "STOPPED" /\ queue'[j] = "STOPPED" => i = j
<1>1. Len(queue) \in Nat \ {0} /\ Len(queue') = Len(queue) - 1 /\ Head(queue) = queue[1]
  BY DEF TypeOK
<1>2. \A i \in 1 .. Len(queue') : queue'[i] = queue[i + 1] /\ i + 1 \in 1 .. Len(queue) /\ i + 1 # 1
  BY <1>1 DEF TypeOK
<1>3. \A i, j \in 1 .. Len(queue) : queue[i] = "STOPPED" /\ queue[j] = "STOPPED" => i = j
  BY DEF StoppedInv
<1>4. Head(queue) = "STOPPED" => ~Queued({"STOPPED"})'
  <2> SUFFICES ASSUME Head(queue) = "STOPPED", NEW i \in 1 .. Len(queue'), queue'[i] = "STOPPED"
               PROVE  FALSE
    BY DEF Queued
  <2>1. 1 \in 1 .. Len(queue)
    BY <1>1
  <2>2. QED
    BY <1>1, <1>2, <1>3, <2>1
<1>5. ASSUME NEW i \in 1 .. Len(queue'), NEW j \in 1 .. Len(queue'),
             queue'[i] = "STOPPED", queue'[j] = "STOPPED"
      PROVE  i = j
  <2>1. i + 1 = j + 1
    BY <1>2, <1>3, <1>5
  <2>2. QED
    BY <2>1
<1>6. QED
  BY <1>4, <1>5

\* event_received keeps every queued event; the new one is queued or its loss
\* is noted.
LEMMA QueueAppend ==
    ASSUME TypeOK, NEW e \in Events, event_received(e), NEW E
    PROVE  /\ queue' \in Seq(Events) /\ Len(queue') <= QueueSize /\ overflow' \in BOOLEAN
           /\ (overflow => overflow')
           /\ (e \in E => overflow' \/ Queued(E)')
           /\ (Queued(E) => Queued(E)') /\ (Queued(E)' => Queued(E) \/ e \in E)
<1>0. queue \in Seq(Events) /\ Len(queue) \in Nat /\ QueueSize \in Nat
  BY WifiAssumption DEF TypeOK
<1>1. CASE Len(queue) < QueueSize
  <2>1. queue' = Append(queue, e) /\ overflow' = overflow
    BY <1>1 DEF event_received
  <2>2. queue' \in Seq(Events) /\ Len(queue') = Len(queue) + 1 /\ queue'[Len(queue) + 1] = e
    BY <1>0, <2>1
  <2>3. \A i \in 1 .. Len(queue) : queue'[i] = queue[i]
    BY <1>0, <2>1
  <2>4. e \in E => Queued(E)'
    <3>1. Len(queue) + 1 \in 1 .. Len(queue')
      BY <1>0, <2>2
    <3>2. QED
      BY <2>2, <3>1 DEF Queued
  <2>5. Queued(E) => Queued(E)'
    <3> SUFFICES ASSUME NEW i \in 1 .. Len(queue), queue[i] \in E PROVE Queued(E)'
      BY DEF Queued
    <3>1. i \in 1 .. Len(queue') /\ queue'[i] \in E
      BY <1>0, <2>2, <2>3
    <3>2. QED
      BY <3>1 DEF Queued
  <2>6. Queued(E)' => Queued(E) \/ e \in E
    <3> SUFFICES ASSUME NEW i \in 1 .. Len(queue'), queue'[i] \in E, e \notin E PROVE Queued(E)
      BY DEF Queued
    <3>1. i # Len(queue) + 1
      BY <2>2
    <3>2. i \in 1 .. Len(queue)
      BY <1>0, <2>2, <3>1
    <3>3. QED
      BY <2>3, <3>2 DEF Queued
  <2>7. Len(queue') <= QueueSize
    BY <1>0, <1>1, <2>2
  <2>8. QED
    BY <2>1, <2>2, <2>4, <2>5, <2>6, <2>7 DEF TypeOK
<1>2. CASE ~(Len(queue) < QueueSize)
  <2>1. queue' = queue /\ overflow' = TRUE
    BY <1>2 DEF event_received
  <2>2. Queued(E)' <=> Queued(E)
    BY <2>1 DEF Queued
  <2>3. QED
    BY <2>1, <2>2 DEF TypeOK
<1>3. QED
  BY <1>1, <1>2

\* A stop that is not reported yet is reported once.
LEMMA StoppedAppend ==
    ASSUME TypeOK, StoppedInv, NEW e \in Events, event_received(e),
           e = "STOPPED" => ~Queued({"STOPPED"})
    PROVE  \A i, j \in 1 .. Len(queue') : queue'[i] = "STOPPED" /\ queue'[j] = "STOPPED" => i = j
<1>0. queue \in Seq(Events) /\ Len(queue) \in Nat /\ QueueSize \in Nat
  BY WifiAssumption DEF TypeOK
<1>1. CASE Len(queue) < QueueSize
  <2>1. queue' = Append(queue, e)
    BY <1>1 DEF event_received
  <2>2. Len(queue') = Len(queue) + 1 /\ queue'[Len(queue) + 1] = e
    BY <1>0, <2>1
  <2>3. \A i \in 1 .. Len(queue) : queue'[i] = queue[i]
    BY <1>0, <2>1
  <2>4. \A i \in 1 .. Len(queue') : i \in 1 .. Len(queue) \/ i = Len(queue) + 1
    BY <1>0, <2>2
  <2>5. QED
    BY <2>2, <2>3, <2>4 DEF StoppedInv, Queued
<1>2. CASE ~(Len(queue) < QueueSize)
  BY <1>2 DEF event_received, StoppedInv
<1>3. QED
  BY <1>1, <1>2

-----------------------------------------------------------------------------
(* The Wi-Fi owner's functions *)

\* failed and schedule_retry take the proof back; start_selected too.
LEMMA OwnerUpdates ==
    ASSUME NEW o \in Owner
    PROVE  /\ Unproven(o) \in Owner /\ failed(o) \in Owner /\ schedule_retry(o) \in Owner
           /\ Unproven(o).config = o.config /\ Unproven(o).active = o.active
           /\ Unproven(o).stopping = o.stopping /\ Unproven(o).state = o.state
           /\ Unproven(o).retry = o.retry
           /\ ~Unproven(o).ready /\ ~Unproven(o).connecting
           /\ failed(o).config = o.config /\ failed(o).active = o.active
           /\ failed(o).stopping = o.stopping /\ failed(o).state = "failed"
           /\ failed(o).retry = "none" /\ ~failed(o).ready /\ ~failed(o).connecting
           /\ schedule_retry(o).config = o.config /\ schedule_retry(o).active = o.active
           /\ schedule_retry(o).stopping = o.stopping /\ schedule_retry(o).state = "disconnected"
           /\ schedule_retry(o).retry = "later"
           /\ ~schedule_retry(o).ready /\ ~schedule_retry(o).connecting
<1>1. /\ Unproven(o) \in Owner /\ Unproven(o).config = o.config /\ Unproven(o).active = o.active
      /\ Unproven(o).stopping = o.stopping /\ Unproven(o).state = o.state
      /\ Unproven(o).retry = o.retry /\ ~Unproven(o).ready /\ ~Unproven(o).connecting
  BY DEF Owner, Unproven
<1>2. \A u \in Owner :
        LET f == [u EXCEPT !.state = "failed", !.retry = "none"]
        IN /\ f \in Owner /\ f.config = u.config /\ f.active = u.active /\ f.stopping = u.stopping
           /\ f.state = "failed" /\ f.retry = "none" /\ f.ready = u.ready
           /\ f.connecting = u.connecting
  BY DEF Owner, States
<1>3. \A u \in Owner :
        LET f == [u EXCEPT !.state = "disconnected", !.retry = "later"]
        IN /\ f \in Owner /\ f.config = u.config /\ f.active = u.active /\ f.stopping = u.stopping
           /\ f.state = "disconnected" /\ f.retry = "later" /\ f.ready = u.ready
           /\ f.connecting = u.connecting
  BY DEF Owner, States
<1>4. QED
  BY <1>1, <1>2, <1>3 DEF failed, schedule_retry

\* What start_selected leaves: nothing to do, a failure, or a starting radio.
Selected(o, q, r) ==
    /\ q \in Owner /\ r \in Radio
    /\ q.config = o.config /\ q.stopping = o.stopping /\ q.retry = "none"
    /\ ~q.ready /\ ~q.connecting
    /\ r.link = d.link
    /\ \/ o.config = Off /\ q.state = "unconfigured" /\ q.active = o.active /\ r = d
       \/ q.state = "failed" /\ q.active = o.active /\ r.mode = d.mode
       \/ /\ o.config \in Networks /\ q.state = "connecting" /\ q.active
          /\ r.config = o.config /\ r.mode = IF d.mode = "stopped" THEN "starting" ELSE d.mode

\* start_selected, for any selection.
LEMMA StartSelected ==
    ASSUME d \in Radio, NEW o \in Owner, NEW x \in start_selected(o)
    PROVE  Selected(o, x.s, x.d) /\ x.waiting = FALSE
<1> DEFINE q == [Unproven(o) EXCEPT !.retry = "none"]
           r == [d EXCEPT !.config = o.config]
           t == [r EXCEPT !.mode = IF @ = "stopped" THEN "starting" ELSE @]
           u == [q EXCEPT !.state = "unconfigured"]
           a == [q EXCEPT !.active = TRUE, !.state = "connecting"]
<1>1. Unproven(o) \in Owner
  BY OwnerUpdates
<1>2. /\ q \in Owner /\ q.config = o.config /\ q.active = o.active /\ q.stopping = o.stopping
      /\ q.retry = "none" /\ ~q.ready /\ ~q.connecting
  BY <1>1, OwnerUpdates DEF Owner
<1>3. /\ r \in Radio /\ r.link = d.link /\ r.mode = d.mode /\ r.config = o.config
  BY DEF Radio, Owner
<1>4. /\ t \in Radio /\ t.link = d.link /\ t.config = o.config
      /\ t.mode = IF d.mode = "stopped" THEN "starting" ELSE d.mode
  BY <1>3 DEF Radio
<1>5. /\ u \in Owner /\ u.config = o.config /\ u.active = o.active /\ u.stopping = o.stopping
      /\ u.retry = "none" /\ ~u.ready /\ ~u.connecting /\ u.state = "unconfigured"
  BY <1>2 DEF Owner, States
<1>6. /\ a \in Owner /\ a.config = o.config /\ a.active /\ a.stopping = o.stopping
      /\ a.retry = "none" /\ ~a.ready /\ ~a.connecting /\ a.state = "connecting"
  BY <1>2 DEF Owner, States
<1>7. /\ failed(q) \in Owner /\ failed(q).config = o.config /\ failed(q).active = o.active
      /\ failed(q).stopping = o.stopping /\ failed(q).retry = "none" /\ ~failed(q).ready
      /\ ~failed(q).connecting /\ failed(q).state = "failed"
  BY <1>2, OwnerUpdates
<1>8. o.config \in Networks \cup {Off}
  BY DEF Owner, Selections
<1>9. IF o.config = Off THEN x = Result(u, d, FALSE)
      ELSE \/ x = Result(failed(q), d, FALSE) \/ x = Result(failed(q), r, FALSE)
           \/ x = Result(a, t, FALSE)
  BY DEF start_selected
<1> HIDE DEF q, r, t, u, a
<1>10. CASE o.config = Off
  BY <1>5, <1>9, <1>10 DEF Result, Selected
<1>11. CASE o.config # Off /\ (x = Result(failed(q), d, FALSE) \/ x = Result(failed(q), r, FALSE))
  BY <1>3, <1>7, <1>11 DEF Result, Selected
<1>12. CASE o.config # Off /\ x = Result(a, t, FALSE)
  BY <1>4, <1>6, <1>8, <1>12 DEF Result, Selected
<1>13. QED
  BY <1>9, <1>10, <1>11, <1>12

\* A selection that is started while the radio is stopped.
LEMMA SelectedStep ==
    ASSUME IInv, d.mode = "stopped", NEW o \in Owner, ~o.active, ~o.stopping,
           Selected(o, s', d'), wanted' = o.config, waiting' = FALSE,
           phase' \in {"boot", "up", "broken"}, polling' \in BOOLEAN, overflow' = overflow,
           queue' \in Seq(Events), Len(queue') <= QueueSize, ~Queued({"STOPPED"})'
    PROVE  IInv'
<1>1. TypeOK'
  BY DEF IInv, TypeOK, Selected, Owner, Selections
<1>2. d.link = NoLink
  BY DEF IInv, Rest, LinkInv
<1>3. ModeInv' /\ LinkInv'
  BY <1>2, WifiAssumption DEF Selected, ModeInv, LinkInv
<1>4. ConfigInv' /\ StateInv'
  BY DEF Selected, ConfigInv, StateInv
<1>5. StoppedInv' /\ StartedInv'
  BY DEF Selected, StoppedInv, StartedInv, Queued
<1>6. RetryInv' /\ ReadyInv'
  BY DEF Selected, RetryInv, ReadyInv
<1>7. QED
  BY <1>1, <1>3, <1>4, <1>5, <1>6 DEF IInv, Rest

\* A station that fails, the radio and the queue as they are.
LEMMA FailedStep ==
    ASSUME IInv, s' \in Owner, s'.state = "failed", s'.retry = "none", ~s'.ready, ~s'.connecting,
           s'.active = s.active, s'.stopping = s.stopping, s'.config = wanted',
           wanted' \in Selections, waiting' \in BOOLEAN, overflow' \in BOOLEAN,
           phase' \in {"boot", "up", "broken"}, polling' \in BOOLEAN, UNCHANGED <<d, queue>>
    PROVE  IInv'
<1>1. TypeOK'
  BY DEF IInv, TypeOK
<1>2. Rest'
  BY DEF IInv, Rest, ModeInv, LinkInv, ConfigInv, StateInv, StoppedInv, StartedInv, RetryInv,
     ReadyInv, Queued
<1>3. QED
  BY <1>1, <1>2 DEF IInv

-----------------------------------------------------------------------------
(* Selections *)

\* esp_base_wifi_apply, in each of its four situations.
LEMMA AppliedStep ==
    ASSUME IInv, NEW c \in Selections, wanted' = c, \E x \in Applied(c) : Becomes(x),
           phase' \in {"boot", "up", "broken"}, UNCHANGED <<queue, overflow, polling>>
    PROVE  IInv'
<1> DEFINE q == [Unproven(s) EXCEPT !.config = c, !.retry = "none"]
           stop == [q EXCEPT !.stopping = TRUE, !.late = FALSE, !.state = "connecting"]
           back == [stop EXCEPT !.stopping = FALSE]
<1>0. s \in Owner /\ d \in Radio /\ queue \in Seq(Events) /\ Len(queue) <= QueueSize
  BY DEF IInv, TypeOK
<1>1. PICK x \in Applied(c) : s' = x.s /\ d' = x.d /\ waiting' = x.waiting
  BY DEF Becomes
<1>2. /\ q \in Owner /\ q.config = c /\ q.active = s.active /\ q.stopping = s.stopping
      /\ q.retry = "none" /\ ~q.ready /\ ~q.connecting /\ q.state = s.state
  <2>1. Unproven(s) \in Owner
    BY <1>0, OwnerUpdates
  <2>2. QED
    BY <1>0, <2>1, OwnerUpdates DEF Owner
<1>3. /\ stop \in Owner /\ stop.config = c /\ stop.active = s.active /\ stop.stopping
      /\ stop.retry = "none" /\ ~stop.ready /\ ~stop.connecting /\ stop.state = "connecting"
  BY <1>2 DEF Owner, States
<1>4. /\ back \in Owner /\ back.config = c /\ back.active = s.active /\ ~back.stopping
  BY <1>3 DEF Owner
<1>5. CASE Unchanged(c)
  <2>1. x = Result(s, d, waiting)
    BY <1>1, <1>5 DEF Applied
  <2>2. s' = s /\ d' = d /\ waiting' = waiting
    BY <1>1, <2>1 DEF Result
  <2>3. wanted' = wanted
    BY <1>5 DEF Unchanged, IInv, Rest, ConfigInv
  <2>4. QED
    BY <2>2, <2>3 DEF IInv, TypeOK, Rest, ModeInv, LinkInv, ConfigInv, StateInv, StoppedInv,
       StartedInv, RetryInv, ReadyInv, Queued
<1>6. CASE ~Unchanged(c) /\ s.stopping
  <2>1. x = Result(q, d, TRUE)
    BY <1>1, <1>6 DEF Applied
  <2> HIDE DEF q
  <2>2. s' = q /\ d' = d /\ waiting' = TRUE
    BY <1>1, <2>1 DEF Result
  <2>3. TypeOK'
    BY <1>2, <2>2 DEF IInv, TypeOK
  <2>4. Rest'
    BY <1>2, <1>6, <2>2 DEF IInv, Rest, ModeInv, LinkInv, ConfigInv, StateInv, StoppedInv,
       StartedInv, RetryInv, ReadyInv, Queued
  <2>5. QED
    BY <2>3, <2>4 DEF IInv
<1>7. CASE ~Unchanged(c) /\ ~s.stopping /\ ~s.active
  <2>1. x \in start_selected(q)
    BY <1>1, <1>7 DEF Applied
  <2> HIDE DEF q
  <2>2. Selected(q, s', d') /\ waiting' = FALSE
    BY <1>0, <1>1, <1>2, <2>1, StartSelected
  <2>3. d.mode = "stopped" /\ ~Queued({"STOPPED"})'
    BY <1>7 DEF IInv, Rest, ModeInv, StoppedInv, Queued
  <2>4. overflow' = overflow /\ polling' \in BOOLEAN /\ queue' \in Seq(Events) /\ Len(queue') <= QueueSize
    BY DEF IInv, TypeOK
  <2>5. ~q.active /\ ~q.stopping
    BY <1>2, <1>7
  <2>6. QED
    BY <1>2, <2>2, <2>3, <2>4, <2>5, SelectedStep
<1>8. CASE ~Unchanged(c) /\ ~s.stopping /\ s.active
  <2>1. d.mode \notin {"stopped", "stopping"}
    BY <1>8 DEF IInv, Rest, ModeInv
  <2>2. x = Result(failed(back), d, FALSE) \/ x = Result(stop, [d EXCEPT !.mode = "stopping"], FALSE)
    BY <1>1, <1>8, <2>1 DEF Applied
  <2> HIDE DEF stop, back
  <2>3. CASE x = Result(failed(back), d, FALSE)
    <3>1. s' = failed(back) /\ d' = d /\ waiting' = FALSE
      BY <1>1, <2>3 DEF Result
    <3>2. /\ s' \in Owner /\ s'.state = "failed" /\ s'.retry = "none" /\ ~s'.ready /\ ~s'.connecting
          /\ s'.active = s.active /\ s'.stopping = s.stopping /\ s'.config = c
      <4>1. /\ failed(back) \in Owner /\ failed(back).state = "failed" /\ failed(back).retry = "none"
            /\ ~failed(back).ready /\ ~failed(back).connecting /\ failed(back).active = back.active
            /\ failed(back).stopping = back.stopping /\ failed(back).config = back.config
        BY <1>4, OwnerUpdates
      <4>2. back.active = s.active /\ back.stopping = s.stopping /\ back.config = c
        BY <1>0, <1>4, <1>8 DEF Owner
      <4>3. QED
        BY <3>1, <4>1, <4>2
    <3>3. overflow' \in BOOLEAN /\ polling' \in BOOLEAN
      BY DEF IInv, TypeOK
    <3>4. QED
      BY <3>1, <3>2, <3>3, FailedStep
  <2>4. CASE x = Result(stop, [d EXCEPT !.mode = "stopping"], FALSE)
    <3>1. s' = stop /\ d' = [d EXCEPT !.mode = "stopping"] /\ waiting' = FALSE
      BY <1>1, <2>4 DEF Result
    <3>2. /\ d' \in Radio /\ d'.mode = "stopping" /\ d'.link = d.link /\ d'.config = d.config
      BY <1>0, <3>1 DEF Radio
    <3>3. TypeOK'
      BY <1>3, <3>1, <3>2 DEF IInv, TypeOK
    <3>4. ~Queued({"STOPPED"})
      BY <1>8 DEF IInv, Rest, StoppedInv
    <3>5. Rest'
      BY <1>3, <1>8, <2>1, <3>1, <3>2, <3>4 DEF IInv, Rest, ModeInv, LinkInv, ConfigInv, StateInv,
         StoppedInv, StartedInv, RetryInv, ReadyInv, Queued
    <3>6. QED
      BY <3>3, <3>5 DEF IInv
  <2>5. QED
    BY <2>2, <2>3, <2>4
<1>9. QED
  BY <1>5, <1>6, <1>7, <1>8

\* esp_base_wifi_start, also when the initialisation fails.
LEMMA StartStep == ASSUME IInv, NEW c \in Selections, Start(c) PROVE IInv'
<1>1. CASE phase' = "broken"
  <2>1. s' = failed(s) /\ UNCHANGED <<d, wanted, waiting, queue, overflow, polling>>
    BY <1>1 DEF Start
  <2>2. s \in Owner
    BY DEF IInv, TypeOK
  <2>3. s'.config = wanted'
    BY <2>1, <2>2, OwnerUpdates DEF IInv, Rest, ConfigInv
  <2>4. /\ s' \in Owner /\ s'.state = "failed" /\ s'.retry = "none" /\ ~s'.ready /\ ~s'.connecting
        /\ s'.active = s.active /\ s'.stopping = s.stopping
    BY <2>1, <2>2, OwnerUpdates
  <2>5. wanted' \in Selections /\ waiting' \in BOOLEAN /\ overflow' \in BOOLEAN /\ polling' \in BOOLEAN
    BY <2>1 DEF IInv, TypeOK
  <2>6. QED
    BY <1>1, <2>1, <2>3, <2>4, <2>5, FailedStep
<1>2. CASE phase' = "up"
  BY <1>2, AppliedStep DEF Start
<1>3. QED
  BY <1>1, <1>2 DEF Start

\* A selection is applied later on.
LEMMA ApplyStep == ASSUME IInv, NEW c \in Selections, Apply(c) PROVE IInv'
<1>1. phase' \in {"boot", "up", "broken"}
  BY DEF Apply, IInv, TypeOK
<1>2. QED
  BY <1>1, AppliedStep DEF Apply

-----------------------------------------------------------------------------
(* The poll *)

\* Fails is a failure with everything else in place.
LEMMA FailsStep ==
    ASSUME IInv, Fails, UNCHANGED <<phase, d, queue, wanted>>, overflow' \in BOOLEAN,
           polling' \in BOOLEAN
    PROVE  IInv'
<1>1. s \in Owner /\ s' = failed(s) /\ waiting \in BOOLEAN /\ waiting' = (waiting /\ s.state = "failed")
  BY DEF IInv, TypeOK, Fails
<1>2. /\ s' \in Owner /\ s'.state = "failed" /\ s'.retry = "none" /\ ~s'.ready /\ ~s'.connecting
      /\ s'.active = s.active /\ s'.stopping = s.stopping
  BY <1>1, OwnerUpdates
<1>3. s'.config = wanted'
  BY <1>1, OwnerUpdates DEF IInv, Rest, ConfigInv
<1>4. wanted' \in Selections /\ waiting' \in BOOLEAN /\ phase' \in {"boot", "up", "broken"}
  BY <1>1 DEF IInv, TypeOK
<1>5. QED
  BY <1>2, <1>3, <1>4, FailedStep

\* The start of a poll: a lost event is a failure.
LEMMA PollStep == ASSUME IInv, Poll PROVE IInv'
<1>1. CASE overflow
  BY <1>1, FailsStep DEF Poll, IInv, TypeOK
<1>2. CASE ~overflow
  BY <1>2 DEF Poll, IInv, TypeOK, Rest, ModeInv, LinkInv, ConfigInv, StateInv, StoppedInv,
     StartedInv, RetryInv, ReadyInv, Queued
<1>3. QED
  BY <1>1, <1>2

\* A deadline is reached.
LEMMA ElapseStep == ASSUME IInv, Elapse PROVE IInv'
<1>1. s \in Owner
  BY DEF IInv, TypeOK
<1>2. /\ s' \in Owner /\ s'.config = s.config /\ s'.active = s.active /\ s'.stopping = s.stopping
      /\ s'.ready = s.ready /\ s'.connecting = s.connecting /\ s'.state = s.state
      /\ s'.retry = s.retry \/ (s.retry # "none" /\ s'.retry = "due")
  BY <1>1 DEF Elapse, Owner
<1>3. TypeOK'
  BY <1>2 DEF Elapse, IInv, TypeOK
<1>4. Rest'
  BY <1>2 DEF Elapse, IInv, Rest, ModeInv, LinkInv, ConfigInv, StateInv, StoppedInv, StartedInv,
     RetryInv, ReadyInv, Queued
<1>5. QED
  BY <1>3, <1>4 DEF IInv

\* A network that the radio holds is not the absence of one.
LEMMA LinkIsNetwork ==
    IInv /\ s.active /\ ~s.stopping /\ s.state # "failed" =>
        wanted \in Networks /\ wanted # NoLink /\ d.config = wanted
BY WifiAssumption DEF IInv, Rest, ModeInv, LinkInv, ConfigInv

\* The end of a poll: the stop deadline, a retry, or nothing.
LEMMA PollEndStep == ASSUME IInv, PollEnd PROVE IInv'
<1>0. s \in Owner /\ d \in Radio /\ queue = <<>> /\ UNCHANGED <<phase, queue, overflow, wanted>>
  BY DEF IInv, TypeOK, PollEnd
<1>1. CASE s.stopping /\ s.late
  BY <1>1, FailsStep DEF PollEnd, IInv, TypeOK
<1>2. CASE /\ ~(s.stopping /\ s.late)
           /\ s.active /\ ~s.stopping /\ s.retry = "due" /\ ~s.connecting
  <2> DEFINE o == [s EXCEPT !.retry = "none"]
             t == [o EXCEPT !.connecting = TRUE, !.state = "connecting"]
  <2>1. PICK x \in Retried : s' = x.s /\ d' = x.d /\ waiting' = x.waiting
    BY <1>2 DEF PollEnd, Becomes
  <2>2. /\ o \in Owner /\ o.config = s.config /\ o.active = s.active /\ o.stopping = s.stopping
        /\ o.ready = s.ready
    BY <1>0 DEF Owner
  <2>3. /\ t \in Owner /\ t.config = s.config /\ t.active = s.active /\ t.stopping = s.stopping
        /\ t.ready = s.ready /\ t.connecting /\ t.state = "connecting" /\ t.retry = "none"
    BY <1>0 DEF Owner, States
  <2>4. \/ x = Result(schedule_retry(o), d, waiting)
        \/ d.mode = "idle" /\ x = Result(t, [d EXCEPT !.mode = "connecting"], waiting)
    BY <2>1 DEF Retried
  <2> HIDE DEF o, t
  <2>5. s.state # "failed"
    BY <1>2 DEF IInv, Rest, StateInv
  <2>6. ~Queued({"STOPPED"})' /\ ~Queued({"STARTED"})' /\ StoppedInv'
    BY <1>0 DEF Queued, StoppedInv
  <2>7. CASE x = Result(schedule_retry(o), d, waiting)
    <3>1. s' = schedule_retry(o) /\ d' = d /\ waiting' = waiting
      BY <2>1, <2>7 DEF Result
    <3>2. /\ s' \in Owner /\ s'.config = s.config /\ s'.active /\ ~s'.stopping
          /\ s'.state = "disconnected" /\ s'.retry = "later" /\ ~s'.ready /\ ~s'.connecting
      BY <1>2, <2>2, <3>1, OwnerUpdates
    <3>3. TypeOK'
      BY <1>0, <3>1, <3>2 DEF PollEnd, IInv, TypeOK
    <3>4. Rest'
      BY <1>0, <1>2, <2>5, <2>6, <3>1, <3>2 DEF IInv, Rest, ModeInv, LinkInv, ConfigInv, StateInv,
         StartedInv, RetryInv, ReadyInv
    <3>5. QED
      BY <3>3, <3>4 DEF IInv
  <2>8. CASE d.mode = "idle" /\ x = Result(t, [d EXCEPT !.mode = "connecting"], waiting)
    <3>1. s' = t /\ d' = [d EXCEPT !.mode = "connecting"] /\ waiting' = waiting
      BY <2>1, <2>8 DEF Result
    <3>2. /\ d' \in Radio /\ d'.mode = "connecting" /\ d'.link = d.link /\ d'.config = d.config
          /\ d'.address = d.address
      BY <1>0, <3>1 DEF Radio
    <3>3. TypeOK'
      BY <1>0, <2>3, <3>1, <3>2 DEF PollEnd, IInv, TypeOK
    <3>4. ModeInv' /\ LinkInv' /\ ConfigInv'
      BY <1>0, <1>2, <2>3, <2>5, <2>8, <3>1, <3>2 DEF IInv, Rest, ModeInv, LinkInv, ConfigInv
    <3>5. StateInv' /\ StartedInv' /\ RetryInv'
      BY <1>2, <2>3, <2>6, <3>1, <3>2 DEF StateInv, StartedInv, RetryInv
    <3>6. ReadyInv'
      <4>1. d.link # wanted
        BY <1>2, <2>5, <2>8, LinkIsNetwork DEF IInv, Rest, LinkInv
      <4>2. s.ready => overflow
        BY <1>0, <4>1 DEF IInv, Rest, ReadyInv, Queued
      <4>3. QED
        BY <1>0, <2>3, <3>1, <4>2 DEF ReadyInv
    <3>7. QED
      BY <2>6, <3>3, <3>4, <3>5, <3>6 DEF IInv, Rest
  <2>9. QED
    BY <2>4, <2>7, <2>8
<1>3. CASE /\ ~(s.stopping /\ s.late)
           /\ ~(s.active /\ ~s.stopping /\ s.retry = "due" /\ ~s.connecting)
  <2>1. UNCHANGED <<s, d, waiting>> /\ polling' = FALSE
    BY <1>3 DEF PollEnd
  <2>2. TypeOK'
    BY <1>0, <2>1 DEF IInv, TypeOK
  <2>3. Rest'
    BY <1>0, <2>1 DEF IInv, Rest, ModeInv, LinkInv, ConfigInv, StateInv, StoppedInv, StartedInv,
       RetryInv, ReadyInv, Queued
  <2>4. QED
    BY <2>2, <2>3 DEF IInv
<1>4. QED
  BY <1>1, <1>2, <1>3

\* The end of a stop: what was selected last is started, or the failure stays.
LEMMA StopReported ==
    ASSUME IInv, TakeEvent, Head(queue) = "STOPPED" PROVE IInv'
<1> DEFINE o == [Unproven(s) EXCEPT !.active = FALSE, !.stopping = FALSE]
<1>0. /\ s \in Owner /\ d \in Radio /\ queue # <<>> /\ queue \in Seq(Events) /\ queue' = Tail(queue)
      /\ UNCHANGED <<phase, overflow, polling, wanted>>
  BY DEF IInv, TypeOK, TakeEvent
<1>1. PICK x \in Handled("STOPPED") : s' = x.s /\ d' = x.d /\ waiting' = x.waiting
  BY DEF TakeEvent, Becomes
<1>2. /\ o \in Owner /\ o.config = s.config /\ ~o.active /\ ~o.stopping /\ o.retry = s.retry
      /\ ~o.ready /\ ~o.connecting /\ o.state = s.state
  <2>1. Unproven(s) \in Owner
    BY <1>0, OwnerUpdates
  <2>2. QED
    BY <1>0, <2>1, OwnerUpdates DEF Owner
<1>3. ~Queued({"STOPPED"})'
  BY <1>0, StoppedTail DEF IInv, Rest
<1>4. d.mode = "stopped" /\ s.stopping
  <2>1. Queued({"STOPPED"})
    <3>1. 1 \in 1 .. Len(queue) /\ queue[1] = "STOPPED"
      BY <1>0
    <3>2. QED
      BY <3>1 DEF Queued
  <2>2. QED
    BY <2>1 DEF IInv, Rest, StoppedInv
<1>5. /\ queue' \in Seq(Events) /\ Len(queue') <= QueueSize /\ overflow' = overflow
      /\ polling' \in BOOLEAN /\ phase' \in {"boot", "up", "broken"} /\ wanted' = s.config
  BY <1>0, WifiAssumption DEF IInv, TypeOK, Rest, ConfigInv
<1>6. IF s.state = "failed" THEN x = Result(o, d, waiting) ELSE x \in start_selected(o)
  BY <1>1 DEF Handled
<1> HIDE DEF o
<1>7. CASE s.state = "failed"
  <2>1. s' = o /\ d' = d /\ waiting' = waiting
    BY <1>1, <1>6, <1>7 DEF Result
  <2>2. TypeOK'
    BY <1>0, <1>2, <1>5, <2>1 DEF IInv, TypeOK
  <2>3. StoppedInv' /\ StartedInv'
    BY <1>2, <1>3, <2>1 DEF StoppedInv, StartedInv, Queued
  <2>4. Rest'
    BY <1>2, <1>4, <1>5, <1>7, <2>1, <2>3 DEF IInv, Rest, ModeInv, LinkInv, ConfigInv, StateInv,
       RetryInv, ReadyInv
  <2>5. QED
    BY <2>2, <2>4 DEF IInv
<1>8. CASE s.state # "failed"
  <2>1. Selected(o, s', d') /\ waiting' = FALSE
    BY <1>0, <1>1, <1>2, <1>6, <1>8, StartSelected
  <2>2. QED
    BY <1>2, <1>3, <1>4, <1>5, <2>1, SelectedStep
<1>9. QED
  BY <1>7, <1>8

\* An event of a running station: it keeps the selection, it may take the proof
\* back or find it, and it may schedule a retry.
LEMMA EventStep ==
    ASSUME IInv, TakeEvent, Head(queue) # "STOPPED", ~Ignored,
           s' \in Owner, s'.config = s.config, s'.active = s.active, s'.stopping = s.stopping,
           s'.state \notin {"failed", "unconfigured"}, s'.connecting => s.connecting,
           waiting' \in BOOLEAN,
           d' \in Radio, d'.link = d.link, d'.address = d.address, d'.config = d.config,
           d'.mode = d.mode \/ (d.mode \in {"connecting", "associated"} /\ d'.mode = "leaving"),
           s'.ready => \/ d.link = wanted /\ d.address
                       \/ s.ready /\ Head(queue) \notin {"DISCONNECTED", "LOST_ADDRESS"},
           d.mode = "idle" =>
               \/ s'.retry # "none" /\ ~s'.connecting
               \/ /\ s'.retry = s.retry /\ s'.connecting = s.connecting
                  /\ Head(queue) \notin {"STARTED", "DISCONNECTED"}
    PROVE  IInv'
<1>0. /\ queue # <<>> /\ queue \in Seq(Events) /\ queue' = Tail(queue)
      /\ Len(queue) <= QueueSize /\ UNCHANGED <<phase, overflow, polling, wanted>>
  BY DEF IInv, TypeOK, TakeEvent
<1>1. queue' \in Seq(Events) /\ Len(queue') = Len(queue) - 1
  BY <1>0, QueueTail
<1>2. (Queued({"STOPPED"})' => Queued({"STOPPED"})) /\ (Queued({"STARTED"})' => Queued({"STARTED"}))
  BY <1>0, QueueTail
<1>3. /\ Queued({"STARTED", "DISCONNECTED"}) =>
            Queued({"STARTED", "DISCONNECTED"})' \/ Head(queue) \in {"STARTED", "DISCONNECTED"}
      /\ Queued({"DISCONNECTED", "LOST_ADDRESS"}) =>
            Queued({"DISCONNECTED", "LOST_ADDRESS"})' \/ Head(queue) \in {"DISCONNECTED", "LOST_ADDRESS"}
  BY <1>0, QueueTail
<1>4. s.active /\ ~s.stopping /\ s.state # "failed"
  BY DEF Ignored
<1>5. TypeOK'
  <2>1. Len(queue') <= QueueSize
    BY <1>0, <1>1, WifiAssumption
  <2>2. QED
    BY <1>0, <1>1, <2>1 DEF IInv, TypeOK
<1>6. ModeInv' /\ LinkInv' /\ ConfigInv'
  BY <1>0, <1>4 DEF IInv, Rest, ModeInv, LinkInv, ConfigInv
<1>7. StateInv'
  BY <1>4 DEF IInv, Rest, StateInv
<1>8. StoppedInv' /\ StartedInv'
  BY <1>0, <1>2, <1>4, StoppedTail DEF IInv, Rest, StoppedInv, StartedInv
<1>9. RetryInv'
  BY <1>0, <1>3, <1>4 DEF IInv, Rest, RetryInv
<1>10. ReadyInv'
  BY <1>0, <1>3 DEF IInv, Rest, ReadyInv
<1>11. QED
  BY <1>5, <1>6, <1>7, <1>8, <1>9, <1>10 DEF IInv, Rest

\* An event that a stopping, stopped or failed station does not want.
LEMMA IgnoredEvent ==
    ASSUME IInv, TakeEvent, Head(queue) # "STOPPED", Ignored PROVE IInv'
<1>0. /\ queue # <<>> /\ queue \in Seq(Events) /\ queue' = Tail(queue)
      /\ Len(queue) <= QueueSize /\ UNCHANGED <<phase, overflow, polling, wanted>>
  BY DEF IInv, TypeOK, TakeEvent
<1>1. UNCHANGED <<s, d, waiting>>
  <2>1. Handled(Head(queue)) = {Result(s, d, waiting)}
    BY DEF Handled
  <2>2. QED
    BY <2>1 DEF TakeEvent, Becomes, Result
<1>2. queue' \in Seq(Events) /\ Len(queue') = Len(queue) - 1
  BY <1>0, QueueTail
<1>3. (Queued({"STOPPED"})' => Queued({"STOPPED"})) /\ (Queued({"STARTED"})' => Queued({"STARTED"}))
  BY <1>0, QueueTail
<1>4. TypeOK'
  <2>1. Len(queue') <= QueueSize
    BY <1>0, <1>2, WifiAssumption
  <2>2. QED
    BY <1>0, <1>1, <1>2, <2>1 DEF IInv, TypeOK
<1>5. StoppedInv' /\ StartedInv'
  BY <1>0, <1>1, <1>3, StoppedTail DEF IInv, Rest, StoppedInv, StartedInv
<1>6. Rest'
  BY <1>0, <1>1, <1>5 DEF Ignored, IInv, Rest, ModeInv, LinkInv, ConfigInv, StateInv, RetryInv, ReadyInv
<1>7. QED
  BY <1>4, <1>6 DEF IInv

\* Every event of a poll.
LEMMA TakeEventStep == ASSUME IInv, TakeEvent PROVE IInv'
<1>0. s \in Owner /\ d \in Radio /\ waiting \in BOOLEAN /\ queue # <<>> /\ queue \in Seq(Events)
  BY DEF IInv, TypeOK, TakeEvent
<1>1. Head(queue) \in Events
  BY <1>0
<1>2. PICK x \in Handled(Head(queue)) : s' = x.s /\ d' = x.d /\ waiting' = x.waiting
  BY DEF TakeEvent, Becomes
<1>3. ~Ignored => s.state # "unconfigured"
  BY DEF Ignored, IInv, Rest, ConfigInv
<1>4. CASE Head(queue) = "STOPPED"
  BY <1>4, StopReported
<1>5. CASE Head(queue) # "STOPPED" /\ Ignored
  BY <1>5, IgnoredEvent
<1>6. CASE Head(queue) = "LOST_ADDRESS" /\ ~Ignored
  <2> DEFINE o == [s EXCEPT !.ready = FALSE]
  <2>1. x = Result(o, Left, waiting) \/ x = Result(schedule_retry(o), d, waiting)
    BY <1>2, <1>6 DEF Handled
  <2>2. /\ o \in Owner /\ o.config = s.config /\ o.active = s.active /\ o.stopping = s.stopping
        /\ o.state = s.state /\ o.connecting = s.connecting /\ o.retry = s.retry /\ ~o.ready
    BY <1>0 DEF Owner
  <2>3. /\ Left \in Radio /\ Left.link = d.link /\ Left.address = d.address /\ Left.config = d.config
        /\ Left.mode = d.mode \/ (d.mode \in {"connecting", "associated"} /\ Left.mode = "leaving")
    BY <1>0 DEF Left, Radio
  <2> HIDE DEF o
  <2>4. CASE x = Result(o, Left, waiting)
    <3>1. s' = o /\ d' = Left /\ waiting' = waiting
      BY <1>2, <2>4 DEF Result
    <3>2. s'.state \notin {"failed", "unconfigured"}
      BY <1>3, <1>6, <2>2, <3>1 DEF Ignored
    <3>3. QED
      BY <1>0, <1>6, <2>2, <2>3, <3>1, <3>2, EventStep
  <2>5. CASE x = Result(schedule_retry(o), d, waiting)
    <3>1. s' = schedule_retry(o) /\ d' = d /\ waiting' = waiting
      BY <1>2, <2>5 DEF Result
    <3>2. /\ s' \in Owner /\ s'.config = s.config /\ s'.active = s.active /\ s'.stopping = s.stopping
          /\ s'.state = "disconnected" /\ s'.retry = "later" /\ ~s'.ready /\ ~s'.connecting
      BY <2>2, <3>1, OwnerUpdates
    <3>3. QED
      BY <1>0, <1>6, <3>1, <3>2, EventStep
  <2>6. QED
    BY <2>1, <2>4, <2>5
<1>7. CASE Head(queue) = "STARTED" /\ ~Ignored
  <2>1. s' = [s EXCEPT !.retry = "due"] /\ d' = d /\ waiting' = waiting
    BY <1>2, <1>7 DEF Handled, Result
  <2>2. /\ s' \in Owner /\ s'.config = s.config /\ s'.active = s.active /\ s'.stopping = s.stopping
        /\ s'.state = s.state /\ s'.connecting = s.connecting /\ s'.retry = "due" /\ s'.ready = s.ready
    BY <1>0, <2>1 DEF Owner
  <2>3. ~s.connecting
    <3>1. 1 \in 1 .. Len(queue) /\ queue[1] = "STARTED"
      BY <1>0, <1>7
    <3>2. Queued({"STARTED"})
      BY <3>1 DEF Queued
    <3>3. QED
      BY <3>2 DEF IInv, Rest, StartedInv
  <2>4. s'.state \notin {"failed", "unconfigured"}
    BY <1>3, <1>7, <2>2 DEF Ignored
  <2>5. QED
    BY <1>0, <1>7, <2>1, <2>2, <2>3, <2>4, EventStep
<1>8. CASE Head(queue) = "ASSOCIATED" /\ ~Ignored
  <2>1. s' = [s EXCEPT !.associated = TRUE] /\ d' = d /\ waiting' = waiting
    <3>1. x \in {Result(o, d, waiting) : o \in {[s EXCEPT !.associated = TRUE]}}
      BY <1>2, <1>8 DEF Handled
    <3>2. x = Result([s EXCEPT !.associated = TRUE], d, waiting)
      BY <3>1
    <3>3. QED
      BY <1>2, <3>2 DEF Result
  <2>2. /\ s' \in Owner /\ s'.config = s.config /\ s'.active = s.active /\ s'.stopping = s.stopping
        /\ s'.state = s.state /\ s'.connecting = s.connecting /\ s'.retry = s.retry
        /\ s'.ready = s.ready
    BY <1>0, <2>1 DEF Owner
  <2>3. s'.state \notin {"failed", "unconfigured"}
    BY <1>3, <1>8, <2>2 DEF Ignored
  <2>4. QED
    BY <1>0, <1>8, <2>1, <2>2, <2>3, EventStep
<1>9. CASE Head(queue) = "DISCONNECTED" /\ ~Ignored
  <2>1. s' = schedule_retry(s) /\ d' = d /\ waiting' = waiting
    BY <1>2, <1>9 DEF Handled, Result
  <2>2. /\ s' \in Owner /\ s'.config = s.config /\ s'.active = s.active /\ s'.stopping = s.stopping
        /\ s'.state = "disconnected" /\ s'.retry = "later" /\ ~s'.ready /\ ~s'.connecting
    BY <1>0, <2>1, OwnerUpdates
  <2>3. QED
    BY <1>0, <1>9, <2>1, <2>2, EventStep
<1>10. CASE Head(queue) = "GOT_ADDRESS" /\ ~Ignored
  <2>1. d' = d /\ waiting' = waiting /\ (s' = s \/ (AddressIsProven /\ s' = Connected(s)))
    <3>1. x \in {Result(o, d, waiting) :
                     o \in {s} \cup (IF s.associated /\ AddressIsProven THEN {Connected(s)} ELSE {})}
      BY <1>2, <1>10 DEF Handled
    <3>2. \/ x = Result(s, d, waiting)
          \/ AddressIsProven /\ x = Result(Connected(s), d, waiting)
      BY <3>1
    <3>3. QED
      BY <1>2, <3>2 DEF Result
  <2>2. CASE s' = s
    <3>1. s'.state \notin {"failed", "unconfigured"}
      BY <1>3, <1>10, <2>2 DEF Ignored
    <3>2. QED
      BY <1>0, <1>10, <2>1, <2>2, <3>1, EventStep
  <2>3. CASE AddressIsProven /\ s' = Connected(s)
    <3>1. /\ s' \in Owner /\ s'.config = s.config /\ s'.active = s.active /\ s'.stopping = s.stopping
          /\ s'.state = "connected" /\ ~s'.connecting
      BY <1>0, <2>3 DEF Connected, Owner, States
    <3>2. d.link = wanted /\ d.address /\ d.mode # "idle"
      <4>1. d.link # NoLink /\ d.address
        BY <2>3 DEF AddressIsProven
      <4>2. d.config = wanted
        BY <1>10, LinkIsNetwork DEF Ignored
      <4>3. QED
        BY <4>1, <4>2 DEF IInv, Rest, LinkInv
    <3>3. QED
      BY <1>0, <1>10, <2>1, <3>1, <3>2, EventStep
  <2>4. QED
    BY <2>1, <2>2, <2>3
<1>11. QED
  BY <1>1, <1>4, <1>5, <1>6, <1>7, <1>8, <1>9, <1>10 DEF Events

-----------------------------------------------------------------------------
(* The radio *)

\* Whatever happens to the radio: an event that says so is queued or lost.
LEMMA RadioEvent ==
    ASSUME IInv, NEW e \in Events, event_received(e), UNCHANGED <<phase, s, polling, wanted, waiting>>,
           d' \in Radio, d'.config = d.config,
           d'.mode # d.mode => d.mode # "stopped",
           (d'.mode = "stopped") = (d.mode = "stopped" \/ e = "STOPPED"),
           (d'.mode = "stopping") = (d.mode = "stopping" /\ e # "STOPPED"),
           e = "STOPPED" => d.mode = "stopping",
           d'.mode = "starting" => d.mode = "starting",
           e = "STARTED" => d.mode = "starting",
           d'.mode = "idle" => d.mode = "idle" \/ e \in {"STARTED", "DISCONNECTED"},
           d'.link # NoLink => d'.link = d'.config,
           d'.mode \in {"stopped", "starting", "idle", "connecting"} => d'.link = NoLink,
           d.link # NoLink /\ d.address =>
               \/ d'.link = d.link /\ d'.address
               \/ e \in {"DISCONNECTED", "LOST_ADDRESS", "STOPPED"}
    PROVE  IInv'
<1>0. TypeOK /\ StoppedInv
  BY DEF IInv, Rest
<1>1. /\ queue' \in Seq(Events) /\ Len(queue') <= QueueSize /\ overflow' \in BOOLEAN
      /\ (overflow => overflow')
  BY <1>0, QueueAppend
<1>2. TypeOK'
  BY <1>1 DEF IInv, TypeOK
<1>3. ModeInv'
  BY DEF IInv, Rest, ModeInv
<1>4. LinkInv' /\ ConfigInv' /\ StateInv'
  BY DEF IInv, Rest, LinkInv, ConfigInv, StateInv
<1>5. StoppedInv'
  <2>1. Queued({"STOPPED"})' => Queued({"STOPPED"}) \/ e = "STOPPED"
    BY <1>0, QueueAppend
  <2>2. e = "STOPPED" => ~Queued({"STOPPED"}) /\ s.stopping /\ d'.mode = "stopped"
    BY DEF IInv, Rest, StoppedInv, ModeInv
  <2>3. \A i, j \in 1 .. Len(queue') : queue'[i] = "STOPPED" /\ queue'[j] = "STOPPED" => i = j
    BY <1>0, <2>2, StoppedAppend
  <2>4. QED
    BY <1>0, <2>1, <2>2, <2>3 DEF StoppedInv
<1>6. StartedInv'
  <2>1. Queued({"STARTED"})' => Queued({"STARTED"}) \/ e = "STARTED"
    BY <1>0, QueueAppend
  <2>2. QED
    BY <2>1 DEF IInv, Rest, StartedInv, StateInv
<1>7. RetryInv'
  <2>1. /\ e \in {"STARTED", "DISCONNECTED"} => overflow' \/ Queued({"STARTED", "DISCONNECTED"})'
        /\ Queued({"STARTED", "DISCONNECTED"}) => Queued({"STARTED", "DISCONNECTED"})'
    BY <1>0, QueueAppend
  <2>2. QED
    BY <1>1, <2>1 DEF IInv, Rest, RetryInv
<1>8. ReadyInv'
  <2>1. /\ e \in {"DISCONNECTED", "LOST_ADDRESS"} => overflow' \/ Queued({"DISCONNECTED", "LOST_ADDRESS"})'
        /\ Queued({"DISCONNECTED", "LOST_ADDRESS"}) => Queued({"DISCONNECTED", "LOST_ADDRESS"})'
    BY <1>0, QueueAppend
  <2>2. s.ready => wanted # NoLink /\ e # "STOPPED"
    BY LinkIsNetwork DEF IInv, Rest, StateInv, ModeInv
  <2>3. QED
    BY <1>1, <2>1, <2>2 DEF IInv, Rest, ReadyInv
<1>9. QED
  BY <1>2, <1>3, <1>4, <1>5, <1>6, <1>7, <1>8 DEF IInv, Rest

\* The radio's fields after it went down, and after one field changed.
LEMMA RadioUpdates ==
    ASSUME d \in Radio, NEW m \in {"stopped", "idle", "stopping"}
    PROVE  /\ Down(m) \in Radio /\ Down(m).config = d.config /\ Down(m).mode = m
           /\ Down(m).link = NoLink /\ ~Down(m).address
BY DEF Down, Radio

\* Each thing that may happen to the radio.
LEMMA RadioSteps == ASSUME IInv, RadioStep PROVE IInv'
<1>0. d \in Radio /\ UNCHANGED <<phase, s, polling, wanted, waiting>>
  BY DEF IInv, TypeOK, RadioStep
<1>1. LinkInv
  BY DEF IInv, Rest
<1>2. CASE d.mode = "starting" /\ d' = [d EXCEPT !.mode = "idle"] /\ event_received("STARTED")
  <2>1. /\ d' \in Radio /\ d'.config = d.config /\ d'.mode = "idle" /\ d'.link = d.link
        /\ d'.address = d.address
    BY <1>0, <1>2 DEF Radio
  <2>2. QED
    BY <1>0, <1>1, <1>2, <2>1, RadioEvent DEF LinkInv, Events
<1>3. CASE d.mode = "stopping" /\ d' = Down("stopped") /\ event_received("STOPPED")
  <2>1. /\ d' \in Radio /\ d'.config = d.config /\ d'.mode = "stopped" /\ d'.link = NoLink
    BY <1>0, <1>3, RadioUpdates
  <2>2. QED
    BY <1>0, <1>3, <2>1, RadioEvent DEF Events
<1>4. CASE /\ d.mode = "connecting" /\ d' = [d EXCEPT !.mode = "associated", !.link = d.config]
           /\ event_received("ASSOCIATED")
  <2>1. d.config \in Networks /\ d.link = NoLink
    BY <1>1, <1>4 DEF LinkInv
  <2>2. /\ d' \in Radio /\ d'.config = d.config /\ d'.mode = "associated" /\ d'.link = d.config
    BY <1>0, <1>4, <2>1 DEF Radio
  <2>3. QED
    BY <1>0, <1>4, <2>1, <2>2, RadioEvent DEF Events
<1>5. CASE /\ d.mode \in {"connecting", "associated", "leaving"} /\ d' = Down("idle")
           /\ event_received("DISCONNECTED")
  <2>1. /\ d' \in Radio /\ d'.config = d.config /\ d'.mode = "idle" /\ d'.link = NoLink
    BY <1>0, <1>5, RadioUpdates
  <2>2. QED
    BY <1>0, <1>5, <2>1, RadioEvent DEF Events
<1>6. CASE d.mode = "stopping" /\ d' = Down("stopping") /\ event_received("DISCONNECTED")
  <2>1. /\ d' \in Radio /\ d'.config = d.config /\ d'.mode = "stopping" /\ d'.link = NoLink
    BY <1>0, <1>6, RadioUpdates
  <2>2. QED
    BY <1>0, <1>6, <2>1, RadioEvent DEF Events
<1>7. CASE /\ d.mode = "associated" /\ d' = [d EXCEPT !.address = TRUE, !.lease = TRUE]
           /\ event_received("GOT_ADDRESS")
  <2>1. /\ d' \in Radio /\ d'.config = d.config /\ d'.mode = d.mode /\ d'.link = d.link /\ d'.address
    BY <1>0, <1>7 DEF Radio
  <2>2. QED
    BY <1>0, <1>1, <1>7, <2>1, RadioEvent DEF LinkInv, Events
<1>8. CASE d' = [d EXCEPT !.address = FALSE, !.lease = FALSE] /\ event_received("LOST_ADDRESS")
  <2>1. /\ d' \in Radio /\ d'.config = d.config /\ d'.mode = d.mode /\ d'.link = d.link
    BY <1>0, <1>8 DEF Radio
  <2>2. QED
    BY <1>0, <1>1, <1>8, <2>1, RadioEvent DEF LinkInv, Events
<1>9. QED
  BY <1>2, <1>3, <1>4, <1>5, <1>6, <1>7, <1>8 DEF RadioStep

-----------------------------------------------------------------------------
(* The theorems *)

\* The station before its start satisfies the invariant.
LEMMA InitIInv == Init => IInv
<1> SUFFICES ASSUME Init PROVE IInv
  OBVIOUS
<1>1. TypeOK
  <2>1. s \in Owner
    BY DEF Init, Owner, States, Selections
  <2>2. d \in Radio
    BY DEF Init, Radio, Selections
  <2>3. queue \in Seq(Events) /\ Len(queue) <= QueueSize
    BY WifiAssumption DEF Init
  <2>4. QED
    BY <2>1, <2>2, <2>3 DEF Init, TypeOK, Selections
<1>2. Rest
  BY DEF Init, Rest, ModeInv, LinkInv, ConfigInv, StateInv, StoppedInv, StartedInv, RetryInv,
     ReadyInv, Queued
<1>3. QED
  BY <1>1, <1>2 DEF IInv

\* Every step of the control task and of the radio keeps it.
LEMMA WifiStep == IInv /\ [Next]_vars => IInv'
<1> SUFFICES ASSUME IInv, [Next]_vars PROVE IInv'
  OBVIOUS
<1>1. ASSUME NEW c \in Selections, Start(c) \/ Apply(c) PROVE IInv'
  BY <1>1, StartStep, ApplyStep
<1>2. CASE Poll \/ TakeEvent \/ PollEnd \/ Elapse \/ RadioStep
  BY <1>2, PollStep, TakeEventStep, PollEndStep, ElapseStep, RadioSteps
<1>3. CASE UNCHANGED vars
  BY <1>3 DEF vars, IInv, TypeOK, Rest, ModeInv, LinkInv, ConfigInv, StateInv, StoppedInv,
     StartedInv, RetryInv, ReadyInv, Queued
<1>4. QED
  BY <1>1, <1>2, <1>3 DEF Next

\* The inductive invariant holds throughout.
LEMMA WifiInvariant == Spec => []IInv
<1>1. QED
  BY InitIInv, WifiStep, PTL DEF Spec

\* esp_base_wifi.c: the owner's variables keep their types and the queue its
\* length.
THEOREM WifiTypes == Spec => []TypeOK
<1>1. IInv => TypeOK
  BY DEF IInv
<1>2. QED
  BY <1>1, WifiInvariant, PTL

\* esp_base_wifi_ready and "unconfigured" are true of the latest selection, or
\* the event that says otherwise is queued or counted as lost.
THEOREM WifiProof == Spec => []ProofIsReal
<1>1. IInv => ProofIsReal
  <2> SUFFICES ASSUME IInv PROVE ProofIsReal
    OBVIOUS
  <2>1. Queued({"DISCONNECTED", "LOST_ADDRESS"}) => Queued({"DISCONNECTED", "LOST_ADDRESS", "STOPPED"})
    BY DEF Queued
  <2>2. QED
    BY <2>1 DEF IInv, Rest, ReadyInv, ConfigInv, ModeInv, ProofIsReal, esp_base_wifi_ready
<1>2. QED
  BY <1>1, WifiInvariant, PTL

\* An idle radio of a station that has not failed is always retried.
THEOREM WifiRetries == Spec => []IdleHasRetry
<1>1. IInv => IdleHasRetry
  BY DEF IInv, Rest, RetryInv, IdleHasRetry, Queued
<1>2. QED
  BY <1>1, WifiInvariant, PTL
=============================================================================
