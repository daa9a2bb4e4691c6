---------------------------- MODULE StorageOwner ----------------------------
(***************************************************************************)
(* The short flash claim of the firmware.  The boot task, the control task *)
(* and the OTA worker share one esp_base_storage_owner_t; every access to  *)
(* flash is bracketed by a claim.  Atomic operations of the code are       *)
(* single steps here, so that every preemption point is explored:          *)
(*   - esp_base_storage_claim / esp_base_storage_release                   *)
(*     (ota_operation/esp_base_storage_owner.c);                           *)
(*   - claim_flash_io, which retries until its budget is spent, and the    *)
(*     single attempt of claim_config_flash_io;                            *)
(*   - ota_flash_acquire / ota_flash_release, which park the claim in the  *)
(*     shared variable s_ota_flash_claim between two SDK callbacks         *)
(*     (apps/esp_base/main/esp_base_main.c).                               *)
(* A claim is its token; token 0 is the empty claim.                       *)
(***************************************************************************)
EXTENDS Naturals

CONSTANTS Tasks,      \* tasks that use the flash
          Nobody,     \* the absence of a holder
          Calls,      \* <<task, kind>>: which task makes which kind of call
          MaxToken,   \* UINT_MAX, the reserved active value
          WaitTicks   \* ESP_BASE_FLASH_IO_WAIT_US in scheduler ticks

Kinds == {"ota", "retry", "once"}

ASSUME OwnerAssumption ==
    /\ Nobody \notin Tasks
    /\ Calls \subseteq Tasks \X Kinds
    /\ MaxToken \in Nat /\ MaxToken > 1
    /\ WaitTicks \in Nat

VARIABLES nextToken,    \* owner->next_token
          activeToken,  \* owner->active_token
          handoff,      \* s_ota_flash_claim
          claim,        \* the caller's local claim, per task
          pc,           \* where each task is
          kind,         \* which kind of call it is in
          waited        \* ticks spent in claim_flash_io

ownerVars == <<nextToken, activeToken, handoff, claim, pc, kind, waited>>

Token == 1 .. (MaxToken - 1)

\* A task between the publication of its token and its release.
HoldingStages == {"acquired", "held", "loaded", "releasing"}
Stages == {"idle", "trying", "reserved", "minted"} \cup HoldingStages

OwnerTypeOK ==
    /\ nextToken \in 0 .. (MaxToken - 1)
    /\ activeToken \in 0 .. MaxToken
    /\ handoff \in 0 .. (MaxToken - 1)
    /\ claim \in [Tasks -> 0 .. (MaxToken - 1)]
    /\ pc \in [Tasks -> Stages]
    /\ kind \in [Tasks -> Kinds]
    /\ waited \in [Tasks -> 0 .. WaitTicks]

OwnerInit ==
    /\ nextToken = 0
    /\ activeToken = 0
    /\ handoff = 0
    /\ claim = [t \in Tasks |-> 0]
    /\ pc = [t \in Tasks |-> "idle"]
    /\ kind = [t \in Tasks |-> "ota"]
    /\ waited = [t \in Tasks |-> 0]

Goto(t, from, to) == pc[t] = from /\ pc' = [pc EXCEPT ![t] = to]

-----------------------------------------------------------------------------
(* Acquiring *)

\* Mutant: the caller tries with the shared claim variable instead of its own,
\* which it empties first.
Call_UsesSharedClaim(t) ==
    /\ Goto(t, "idle", "trying")
    /\ \E k \in Kinds : <<t, k>> \in Calls /\ kind' = [kind EXCEPT ![t] = k]
    /\ waited' = [waited EXCEPT ![t] = 0]
    /\ handoff' = 0
    /\ UNCHANGED <<nextToken, activeToken, claim>>

\* A task enters claim_flash_io or claim_config_flash_io with an empty claim.  A
\* call that finds esp_timer_get_time below zero at its entry returns false before
\* it touches the owner: it stays idle here.
Call(t) ==
    /\ Goto(t, "idle", "trying")
    /\ \E k \in Kinds : <<t, k>> \in Calls /\ kind' = [kind EXCEPT ![t] = k]
    /\ waited' = [waited EXCEPT ![t] = 0]
    /\ UNCHANGED <<nextToken, activeToken, handoff, claim>>

\* Mutant: a reservation in progress is taken for an idle owner.
Reserve_IgnoresReservation(t) ==
    /\ Goto(t, "trying", "reserved")
    /\ activeToken \in {0, MaxToken}
    /\ activeToken' = MaxToken
    /\ UNCHANGED <<nextToken, handoff, claim, kind, waited>>

\* The compare-exchange that reserves an idle owner succeeds.
Reserve(t) ==
    /\ Goto(t, "trying", "reserved")
    /\ activeToken = 0
    /\ activeToken' = MaxToken
    /\ UNCHANGED <<nextToken, handoff, claim, kind, waited>>

\* Mutant: the retry loop has no budget.
Refused_NoBudget(t) ==
    /\ pc' = [pc EXCEPT ![t] = "trying"]
    /\ UNCHANGED waited

\* The caller returns false.
GiveUp(t) == pc' = [pc EXCEPT ![t] = "idle"] /\ UNCHANGED waited

\* claim_flash_io sleeps for at least one tick and tries again.
Retry(t) ==
    /\ kind[t] # "once" /\ waited[t] < WaitTicks
    /\ pc' = [pc EXCEPT ![t] = "trying"]
    /\ \E w \in (waited[t] + 1) .. WaitTicks : waited' = [waited EXCEPT ![t] = w]

\* esp_base_storage_claim returned false: claim_flash_io tries again while its
\* budget lasts, unless the clock ran backwards (clock_valid); then, with the
\* budget spent or in claim_config_flash_io, the call is over.
Refused(t) == GiveUp(t) \/ Retry(t)

\* The compare-exchange fails: another task holds or reserves the owner.
Busy(t) ==
    /\ pc[t] = "trying" /\ activeToken # 0
    /\ Refused(t)
    /\ UNCHANGED <<nextToken, activeToken, handoff, claim, kind>>

\* Mutant: the exhausted claim forgets to undo its reservation.
Exhausted_KeepsReservation(t) ==
    /\ pc[t] = "reserved" /\ nextToken >= MaxToken - 1
    /\ Refused(t)
    /\ UNCHANGED <<nextToken, activeToken, handoff, claim, kind>>

\* All tokens are spent: the reservation is undone and the claim fails.
Exhausted(t) ==
    /\ pc[t] = "reserved" /\ nextToken >= MaxToken - 1
    /\ activeToken' = 0
    /\ Refused(t)
    /\ UNCHANGED <<nextToken, handoff, claim, kind>>

\* The next token is stored while the reservation excludes other claimants.
Mint(t) ==
    /\ Goto(t, "reserved", "minted")
    /\ nextToken < MaxToken - 1
    /\ nextToken' = nextToken + 1
    /\ UNCHANGED <<activeToken, handoff, claim, kind, waited>>

\* The token becomes the active one and fills the caller's claim.
Publish(t) ==
    /\ Goto(t, "minted", IF kind[t] = "ota" THEN "acquired" ELSE "held")
    /\ activeToken' = nextToken
    /\ claim' = [claim EXCEPT ![t] = nextToken]
    /\ UNCHANGED <<nextToken, handoff, kind, waited>>

\* ota_flash_acquire parks the claim; its local variable goes out of scope.
Park(t) ==
    /\ Goto(t, "acquired", "held")
    /\ handoff' = claim[t]
    /\ claim' = [claim EXCEPT ![t] = 0]
    /\ UNCHANGED <<nextToken, activeToken, kind, waited>>

-----------------------------------------------------------------------------
(* Releasing *)

\* ota_flash_release copies the parked claim ...
LoadHandoff(t) ==
    /\ Goto(t, "held", "loaded")
    /\ kind[t] = "ota"
    /\ claim' = [claim EXCEPT ![t] = handoff]
    /\ UNCHANGED <<nextToken, activeToken, handoff, kind, waited>>

\* ... and clears it before the owner is published as idle.
ClearHandoff(t) ==
    /\ Goto(t, "loaded", "releasing")
    /\ handoff' = 0
    /\ UNCHANGED <<nextToken, activeToken, claim, kind, waited>>

\* A caller with a local claim releases it directly.
Finish(t) ==
    /\ Goto(t, "held", "releasing")
    /\ kind[t] # "ota"
    /\ UNCHANGED <<nextToken, activeToken, handoff, claim, kind, waited>>

\* The compare-exchange of esp_base_storage_release.  On failure the OTA path
\* restores the parked claim; the caller reports an error either way.
Free(t) ==
    /\ Goto(t, "releasing", "idle")
    /\ IF claim[t] # 0 /\ activeToken = claim[t]
          THEN activeToken' = 0 /\ UNCHANGED handoff
          ELSE /\ UNCHANGED activeToken
               /\ handoff' = IF kind[t] = "ota" THEN claim[t] ELSE handoff
    /\ claim' = [claim EXCEPT ![t] = 0]
    /\ UNCHANGED <<nextToken, kind, waited>>

Step(t) ==
    \/ Reserve(t) \/ Busy(t) \/ Exhausted(t) \/ Mint(t)
    \/ Publish(t) \/ Park(t)
    \/ LoadHandoff(t) \/ ClearHandoff(t) \/ Finish(t) \/ Free(t)

OwnerNext == \E t \in Tasks : Call(t) \/ Step(t)

\* FreeRTOS runs every ready task eventually, and flash operations return.
OwnerFairness == \A t \in Tasks : WF_ownerVars(Step(t))

OwnerSpec == OwnerInit /\ [][OwnerNext]_ownerVars
OwnerFairSpec == OwnerSpec /\ OwnerFairness
-----------------------------------------------------------------------------
(* Properties *)

\* At most one task is between the publication of its token and its release:
\* no two flash operations of different tasks overlap.
MutualExclusion ==
    \A t, u \in Tasks : pc[t] \in HoldingStages /\ pc[u] \in HoldingStages => t = u

\* A release never fails.  ota_flash_release is called with whatever claim the
\* shared s_ota_flash_claim holds at that moment; if another task could touch
\* it in between, the release would fail and the flash would stay claimed.
ReleaseSucceeds ==
    \A t \in Tasks : pc[t] = "releasing" => claim[t] # 0 /\ activeToken = claim[t]

\* The reserved active value is transient, also when the tokens run out: the
\* owner cannot be left reserved by a claimant that already returned.
ReservationEnds == (activeToken = MaxToken) ~> (activeToken # MaxToken)

\* Every call returns: it gets the flash and gives it back, or times out.
CallReturns == \A t \in Tasks : (pc[t] # "idle") ~> (pc[t] = "idle")

\* The task that the abstract owner sees as the holder.
Holder ==
    IF \E t \in Tasks : pc[t] \in HoldingStages
       THEN CHOOSE t \in Tasks : pc[t] \in HoldingStages
       ELSE Nobody

Abstract == INSTANCE ExclusiveOwner WITH holder <- Holder

\* The token algorithm with its handoff implements an exclusive owner: the
\* flash passes from nobody to one task and back, never from task to task.
ImplementsExclusiveOwner == Abstract!Spec
=============================================================================
