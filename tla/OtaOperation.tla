---------------------------- MODULE OtaOperation ----------------------------
(***************************************************************************)
(* The firmware upgrade transaction: the durable V4 receipt, the two app   *)
(* slots with their otadata, the control task that registers, polls and    *)
(* answers queries, the OTA worker that retires, writes and selects the    *)
(* inactive slot, and the boot task that reconciles, confirms or rejects   *)
(* after a reset.  Power may fail between any two steps, an NVS write that *)
(* reports an error may or may not be durable, and every SDK call may fail *)
(* part-way.                                                               *)
(*   receipt   ota_operation/esp_base_ota_receipt.c, _ota_firmware.c       *)
(*   worker, control   device_protocol/esp_base_protocol.c                 *)
(*   boot task         apps/esp_base/main/esp_base_main.c                  *)
(* The esp-ota SDK and the bootloader are not part of the repository; they *)
(* are modelled from how the code uses them.                               *)
(***************************************************************************)
EXTENDS Naturals

CONSTANTS Images,      \* complete, signed firmware images (their digests)
          Ops,         \* operation identifiers
          Base,        \* the image of the first wired assembly
          Erased,      \* a slot whose image header is erased
          Partial,     \* a slot with an incomplete image
          NoImage,     \* the zero digest
          NoOp,        \* no operation
          MaxResets    \* bound: power failures and other resets explored

ASSUME OtaAssumption ==
    /\ Base \in Images
    /\ Erased \notin Images /\ Partial \notin Images /\ NoImage \notin Images
    /\ NoOp \notin Ops
    /\ MaxResets \in Nat

Slot == {0, 1}           \* ota_0 and ota_1
Other(s) == 1 - s
SlotState == {"untracked", "new", "pending", "valid", "invalid", "aborted"}
Retired == {"untracked", "invalid", "aborted"}

\* eota_result_t as far as the worker's control flow tells it apart.
Failure == {"download", "resource"}
Result == Failure \cup {"ok", "boot_state_unknown"}

VARIABLES
  (* durable *)
  image,        \* contents of each app slot
  otaState,     \* otadata state of each app slot
  selected,     \* the slot otadata selects
  receipt,      \* the operation receipt in base_store
  (* volatile *)
  running,      \* the slot this boot runs from
  main,         \* stage of app_main
  pendingBoot,  \* app_main: this boot is a trial
  needsSuccess, \* app_main: needs_success_receipt
  otaPending,   \* control state: ota_verification_pending
  claim,        \* who holds the upgrade transaction: s_storage_owner
  control,      \* stage of the control task
  query,        \* the receipt and worker_active flag a query works with
  otaActive,    \* s_ota_active
  request,      \* s_ota_request: operation and digest
  configUncertain, bootUncertain, \* s_config_uncertain, s_ota_boot_uncertain
  worker,       \* stage of ota_task
  result,       \* s_ota_result
  stageUncertain, \* s_ota_stage_uncertain
  (* bookkeeping *)
  told,         \* terminal answers given about the receipt's operation
  started,      \* operations that were ever registered
  resets        \* resets so far

durable == <<image, otaState, selected, receipt>>
mainVars == <<main, pendingBoot, needsSuccess, otaPending>>
controlVars == <<control, query, otaActive, request, configUncertain, bootUncertain>>
workerVars == <<worker, result, stageUncertain>>
ghosts == <<told, started, resets>>
vars == <<durable, running, mainVars, claim, controlVars, workerVars, ghosts>>

Content == Images \cup {Erased, Partial}

\* receipt_t.  The decoder admits only a pair of distinct slots, so the target
\* is the other slot.  src, cand and inactive are the recorded digests.
Receipt ==
    [status : {"none", "prepared", "succeeded", "failed"}, op : Ops \cup {NoOp},
     source : Slot, cand : Images \cup {NoImage}, src : Images \cup {NoImage},
     inactive : Images \cup {NoImage}, failure : Failure \cup {"ok"}]

NoReceipt ==
    [status |-> "none", op |-> NoOp, source |-> 0, cand |-> NoImage,
     src |-> NoImage, inactive |-> NoImage, failure |-> "ok"]

NoRequest == [op |-> NoOp, cand |-> NoImage]

FlashType ==
    /\ image \in [Slot -> Content] /\ otaState \in [Slot -> SlotState]
    /\ selected \in Slot /\ running \in Slot /\ receipt \in Receipt

FlagType ==
    /\ pendingBoot \in BOOLEAN /\ needsSuccess \in BOOLEAN /\ otaPending \in BOOLEAN
    /\ otaActive \in BOOLEAN /\ configUncertain \in BOOLEAN /\ bootUncertain \in BOOLEAN
    /\ stageUncertain \in BOOLEAN

StageType ==
    /\ main \in {"inspect", "checks", "reconcile", "retire", "recordFailure", "window",
                 "readback", "recordSuccess", "release", "ungate", "done", "reject", "halted"}
    /\ claim \in {"none", "boot", "ota"}
    /\ control \in {"off", "idle", "spawn", "spawnFailed", "evaluate"}
    /\ worker \in {"off", "load", "retire", "begin", "prepare", "boundary", "select",
                   "cleanup", "done"}
    /\ result \in Result

DataType ==
    /\ query \in [receipt : Receipt, active : BOOLEAN]
    /\ request \in [op : Ops \cup {NoOp}, cand : Images \cup {NoImage}]
    /\ told \subseteq {"succeeded", "failed"} /\ started \subseteq Ops
    /\ resets \in 0 .. MaxResets

TypeOK == FlashType /\ FlagType /\ StageType /\ DataType

\* The wired assembly writes the same signed image to both slots, marks both
\* valid and selects ota_1; the first boot starts with RAM in reset state.
Init ==
    /\ image = [s \in Slot |-> Base]
    /\ otaState = [s \in Slot |-> "valid"]
    /\ selected = 1 /\ running = 1
    /\ receipt = NoReceipt
    /\ main = "inspect" /\ pendingBoot = FALSE /\ needsSuccess = FALSE /\ otaPending = FALSE
    /\ claim = "boot"
    /\ control = "off" /\ query = [receipt |-> NoReceipt, active |-> FALSE]
    /\ otaActive = FALSE /\ request = NoRequest
    /\ configUncertain = FALSE /\ bootUncertain = FALSE
    /\ worker = "off" /\ result = "ok" /\ stageUncertain = FALSE
    /\ told = {} /\ started = {} /\ resets = 0

Target == Other(running)
Fill(r) == Other(r.source)   \* the receipt's target slot

-----------------------------------------------------------------------------
(* External: the esp-ota SDK and the bootloader, as the code uses them. *)

\* Which slot the bootloader runs after a reset: a trial that was not
\* confirmed is aborted, an image that does not load is skipped.
BootChoice ==
    IF image[selected] \in Images /\ otaState[selected] \in {"new", "valid"}
       THEN selected ELSE Other(selected)

\* RAM is lost, the bootloader picks a slot and updates its otadata.
ResetTo(slot, states) ==
    /\ running' = slot /\ selected' = slot /\ otaState' = states
    /\ main' = "inspect" /\ pendingBoot' = FALSE /\ needsSuccess' = FALSE
    /\ otaPending' = FALSE /\ claim' = "boot"
    /\ control' = "off" /\ query' = [receipt |-> NoReceipt, active |-> FALSE]
    /\ otaActive' = FALSE /\ request' = NoRequest
    /\ configUncertain' = FALSE /\ bootUncertain' = FALSE
    /\ worker' = "off" /\ result' = "ok" /\ stageUncertain' = FALSE

Bootloader ==
    ResetTo(BootChoice,
            IF BootChoice = selected
               THEN [otaState EXCEPT ![selected] = IF @ = "new" THEN "pending" ELSE @]
               ELSE [otaState EXCEPT ![selected] = IF @ = "pending" THEN "aborted" ELSE @])

\* The source is running, selected, valid and has the recorded digest.
SourceProven(src) ==
    /\ running = selected /\ otaState[running] = "valid" /\ image[running] = src

\* eota_retire_inactive proves the source, then drops the inactive slot's
\* otadata and erases its header; a failure may leave either half done.
RetireInactive(src, ok) ==
    IF SourceProven(src)
       THEN \E st \in Retired, half \in SUBSET {"otadata", "header"} :
              /\ ok => half = {"otadata", "header"}
              /\ otaState' = IF "otadata" \in half
                                THEN [otaState EXCEPT ![Target] = st] ELSE otaState
              /\ image' = IF "header" \in half
                             THEN [image EXCEPT ![Target] = Erased] ELSE image
       ELSE ~ok /\ UNCHANGED <<image, otaState>>

-----------------------------------------------------------------------------
(* The receipt: esp_base_ota_receipt.c and esp_base_ota_firmware.c *)

\* store: the write is durable and read back; or the partition does not open;
\* or an error was reported after the point where it may have become durable.
Store(next, outcome) ==
    CASE outcome = "ok" -> receipt' = next
      [] outcome = "failure" -> receipt' = receipt
      [] outcome = "uncertain" -> receipt' \in {receipt, next}

StoreOutcome == {"ok", "failure", "uncertain"}

\* esp_base_ota_observe_firmware_set for CONFIRMED and PENDING_TRIAL.
HasRollback == otaState[Target] = "valid"
FirmwareSetKnown(pendingTrial) ==
    /\ running = selected
    /\ otaState[running] = IF pendingTrial THEN "pending" ELSE "valid"
    /\ image[running] \in Images
    /\ IF HasRollback
          THEN image[Target] \in Images
          ELSE ~pendingTrial /\ otaState[Target] \in Retired /\ image[Target] = Erased

\* The second bootable digest of the set; zero when there is none or when both
\* slots hold the same firmware.
SecondFirmware ==
    IF HasRollback /\ image[Target] # image[running] THEN image[Target] ELSE NoImage

\* evaluate: what a receipt and the slots prove about its operation.
Evaluate(r, workerActive) ==
    IF workerActive THEN "running"
    ELSE IF /\ r.status \in {"prepared", "succeeded"}
            /\ running = Fill(r) /\ selected = Fill(r)
    THEN IF r.status = "prepared" /\ otaState[running] = "pending" THEN "running"
         ELSE IF /\ r.status = "succeeded" /\ otaState[running] = "valid"
                 /\ image[running] = r.cand
         THEN "succeeded" ELSE "unknown"
    ELSE IF r.status = "failed" /\ running = r.source /\ SourceProven(r.src)
    THEN "failed" ELSE "unknown"

\* Mutant: an earlier operation identifier may be registered again.
RegisterCheck_NoSameId(op, cand) ==
    IF running # selected THEN "selector_mismatch"
    ELSE IF otaState[running] # "valid" THEN "source_not_valid"
    ELSE IF receipt.status \in {"prepared", "succeeded"} /\ Evaluate(receipt, FALSE) # "succeeded"
    THEN "busy"
    ELSE IF ~FirmwareSetKnown(FALSE) THEN "uncertain"
    ELSE IF cand = image[running] THEN "same_image"
    ELSE "write"

\* The checks of esp_base_ota_receipt_register before it writes; "write" is
\* the permission to store the new intent.
RegisterCheck(op, cand) ==
    IF running # selected THEN "selector_mismatch"
    ELSE IF otaState[running] # "valid" THEN "source_not_valid"
    ELSE IF otaState[Target] \in {"new", "pending"} THEN "target_not_safe"
    ELSE IF receipt.op = op THEN IF receipt.cand = cand THEN "exists" ELSE "conflict"
    ELSE IF receipt.status \in {"prepared", "succeeded"} /\ Evaluate(receipt, FALSE) # "succeeded"
    THEN "busy"
    ELSE IF ~FirmwareSetKnown(FALSE) THEN "uncertain"
    ELSE IF /\ receipt.status = "failed"
            /\ running # receipt.source \/ image[running] # receipt.src
    THEN "busy"
    ELSE IF cand = image[running] THEN "same_image"
    ELSE "write"

Intent(op, cand) ==
    [status |-> "prepared", op |-> op, source |-> running, cand |-> cand,
     src |-> image[running], inactive |-> SecondFirmware, failure |-> "ok"]

\* esp_base_ota_receipt_record_failure and _record_success: whether the slots
\* prove the terminal state.
FailureProven == running = receipt.source /\ SourceProven(receipt.src)
SuccessProven ==
    /\ running = Fill(receipt) /\ selected = running
    /\ otaState[running] = "valid" /\ image[running] = receipt.cand

\* record_failure(op, error); `saved` is whether it returned OK.
RecordFailure(op, error, saved) ==
    IF receipt.op # op \/ receipt.status \in {"none", "succeeded"}
          \/ (receipt.status = "prepared" /\ ~FailureProven)
       THEN ~saved /\ UNCHANGED receipt
    ELSE IF receipt.status = "failed"
       THEN saved = (receipt.failure = error) /\ UNCHANGED receipt
    ELSE \E out \in StoreOutcome :
           /\ Store([receipt EXCEPT !.status = "failed", !.failure = error], out)
           /\ saved = (out = "ok")

RecordSuccess(saved) ==
    IF receipt.status \in {"none", "failed"} \/ ~SuccessProven
       THEN ~saved /\ UNCHANGED receipt
    ELSE IF receipt.status = "succeeded"
       THEN saved /\ UNCHANGED receipt
    ELSE \E out \in StoreOutcome :
           /\ Store([receipt EXCEPT !.status = "succeeded"], out)
           /\ saved = (out = "ok")

-----------------------------------------------------------------------------
(* The boot task: app_main *)

\* stop_after_local_failure: a trial asks for rollback, any other boot stops
\* with the upgrade gate closed.
LocalFailure == main' = IF pendingBoot THEN "reject" ELSE "halted"

\* Mutant: a confirmed candidate without its success receipt is forgotten.
Reconciled_ForgetsSuccess(needs) ==
    /\ needsSuccess' = needs
    /\ main' = IF pendingBoot THEN "window" ELSE "release"

\* The rest of app_main once reconcile_interrupted_ota has returned true.
Reconciled(needs) ==
    /\ needsSuccess' = needs
    /\ main' = IF pendingBoot THEN "window" ELSE IF needs THEN "recordSuccess" ELSE "release"

Inspect ==
    /\ main = "inspect"
    /\ \/ /\ main' = "checks"
          /\ pendingBoot' = (otaState[running] = "pending")
          /\ otaPending' = TRUE
       \/ main' = "halted" /\ UNCHANGED <<pendingBoot, otaPending>>
    /\ UNCHANGED <<durable, running, needsSuccess, claim, controlVars, workerVars, ghosts>>

\* NVS, identity, safety, configuration and build identity; then the control
\* task starts.
Checks ==
    /\ main = "checks"
    /\ \/ main' = "reconcile" /\ control' = "idle"
       \/ LocalFailure /\ UNCHANGED control
    /\ UNCHANGED <<durable, running, pendingBoot, needsSuccess, otaPending, claim, query,
                   otaActive, request, configUncertain, bootUncertain, workerVars, ghosts>>

\* Mutant: a trial is held to the rules of a confirmed firmware.
CandidateProven_WrongMode ==
    /\ otaState[running] \in {"pending", "valid"}
    /\ receipt.status = "succeeded" => otaState[running] = "valid"
    /\ image[running] = receipt.cand
    /\ FirmwareSetKnown(FALSE)
    /\ SecondFirmware = receipt.src

\* A selected candidate: trial or confirmed, with its source as rollback.
CandidateProven ==
    /\ otaState[running] \in {"pending", "valid"}
    /\ receipt.status = "succeeded" => otaState[running] = "valid"
    /\ image[running] = receipt.cand
    /\ FirmwareSetKnown(otaState[running] = "pending")
    /\ SecondFirmware = receipt.src

\* The cases that reconcile_interrupted_ota accepts.
NoOperation == receipt.status = "none" /\ FirmwareSetKnown(FALSE)
KnownFailure == receipt.status = "failed" /\ Evaluate(receipt, FALSE) = "failed"
KnownCandidate ==
    /\ receipt.status \in {"prepared", "succeeded"}
    /\ running = selected /\ running = Fill(receipt) /\ CandidateProven
Interrupted ==
    /\ receipt.status = "prepared" /\ running = selected
    /\ running = receipt.source /\ otaState[running] = "valid"

\* Mutant: a recorded failure is cleaned up again at every boot.
Reconcile_RetiresAgain ==
    /\ main = "reconcile"
    /\ IF NoOperation THEN Reconciled(FALSE)
       ELSE IF KnownCandidate THEN Reconciled(receipt.status = "prepared")
       ELSE main' = "retire" /\ UNCHANGED needsSuccess
    /\ UNCHANGED <<durable, running, pendingBoot, otaPending, claim, controlVars,
                   workerVars, ghosts>>

\* reconcile_interrupted_ota up to the first write.
Reconcile ==
    /\ main = "reconcile"
    /\ IF NoOperation \/ KnownFailure THEN Reconciled(FALSE)
       ELSE IF KnownCandidate THEN Reconciled(receipt.status = "prepared")
       ELSE IF Interrupted THEN main' = "retire" /\ UNCHANGED needsSuccess
       ELSE LocalFailure /\ UNCHANGED needsSuccess
    /\ UNCHANGED <<durable, running, pendingBoot, otaPending, claim, controlVars,
                   workerVars, ghosts>>

\* An observation, a load or the control start fails while reconciling.
ReconcileError ==
    /\ main = "reconcile"
    /\ LocalFailure
    /\ UNCHANGED <<durable, running, pendingBoot, needsSuccess, otaPending, claim, controlVars,
                   workerVars, ghosts>>

\* The interrupted target is erased under the original intent ...
ReconcileRetire ==
    /\ main = "retire"
    /\ \E ok \in BOOLEAN :
         /\ RetireInactive(receipt.src, ok)
         /\ IF ok THEN main' = "recordFailure" ELSE LocalFailure
    /\ UNCHANGED <<selected, receipt, running, pendingBoot, needsSuccess, otaPending, claim,
                   controlVars, workerVars, ghosts>>

\* ... before its failure is recorded.
ReconcileRecord ==
    /\ main = "recordFailure"
    /\ \E saved \in BOOLEAN :
         /\ RecordFailure(receipt.op, "resource", saved)
         /\ IF saved THEN Reconciled(FALSE) ELSE LocalFailure /\ UNCHANGED needsSuccess
    /\ UNCHANGED <<image, otaState, selected, running, pendingBoot, otaPending, claim,
                   controlVars, workerVars, ghosts>>

\* The stability window and the confirmation.  A failed confirmation may have
\* been written all the same; the boot task then asks for rollback.
Window ==
    /\ main = "window"
    /\ \/ main' = "readback" /\ otaState' = [otaState EXCEPT ![running] = "valid"]
       \/ /\ LocalFailure
          /\ otaState' \in {otaState, [otaState EXCEPT ![running] = "valid"]}
    /\ UNCHANGED <<image, selected, receipt, running, pendingBoot, needsSuccess, otaPending,
                   claim, controlVars, workerVars, ghosts>>

\* The confirmation is read back; an incomplete readback stops the boot.
Readback ==
    /\ main = "readback"
    /\ \/ /\ otaState[running] = "valid"
          /\ main' = IF needsSuccess THEN "recordSuccess" ELSE "release"
       \/ main' = "halted"
    /\ UNCHANGED <<durable, running, pendingBoot, needsSuccess, otaPending, claim, controlVars,
                   workerVars, ghosts>>

SucceedReceipt ==
    /\ main = "recordSuccess"
    /\ \E saved \in BOOLEAN :
         RecordSuccess(saved) /\ main' = IF saved THEN "release" ELSE "halted"
    /\ UNCHANGED <<image, otaState, selected, running, pendingBoot, needsSuccess, otaPending,
                   claim, controlVars, workerVars, ghosts>>

ReleaseBootClaim ==
    /\ main = "release"
    /\ main' = "ungate" /\ claim' = "none"
    /\ UNCHANGED <<durable, running, pendingBoot, needsSuccess, otaPending, controlVars,
                   workerVars, ghosts>>

Ungate ==
    /\ main = "ungate"
    /\ main' = "done" /\ otaPending' = FALSE
    /\ UNCHANGED <<durable, running, pendingBoot, needsSuccess, claim, controlVars,
                   workerVars, ghosts>>

\* eota_reject_pending reboots into the other slot on success.
Reject ==
    /\ main = "reject"
    /\ \/ /\ otaState[Target] = "valid" /\ image[Target] \in Images
          /\ ResetTo(Target, [otaState EXCEPT ![running] = "invalid"])
       \/ /\ main' = "halted"
          /\ UNCHANGED <<otaState, selected, running, pendingBoot, needsSuccess, otaPending,
                         claim, controlVars, workerVars>>
    /\ UNCHANGED <<image, receipt, ghosts>>

MainStep ==
    \/ Inspect \/ Checks \/ Reconcile \/ ReconcileError \/ ReconcileRetire \/ ReconcileRecord
    \/ Window \/ Readback \/ SucceedReceipt \/ ReleaseBootClaim \/ Ungate \/ Reject

-----------------------------------------------------------------------------
(* The control task: ota.start, poll_ota and ota.result *)

\* ota.start passes the gates of handle_command_line and takes the claim.
StartAdmitted ==
    /\ control = "idle" /\ ~otaPending /\ ~otaActive
    /\ ~configUncertain /\ ~bootUncertain /\ claim = "none"

\* The registration is uncertain: claim and gate stay closed until a reset.
StartUncertain == claim' = "ota" /\ configUncertain' = TRUE

\* The intent is stored; the request, the flags and the worker follow.
\* A store that fails cleanly only gives the claim back.
Start(op, cand) ==
    /\ StartAdmitted
    /\ RegisterCheck(op, cand) = "write"
    /\ \/ /\ Store(Intent(op, cand), "ok")
          /\ claim' = "ota" /\ control' = "spawn" /\ otaActive' = TRUE
          /\ request' = [op |-> op, cand |-> cand]
          /\ stageUncertain' = FALSE
          /\ UNCHANGED configUncertain
       \/ /\ Store(Intent(op, cand), "uncertain")
          /\ StartUncertain
          /\ UNCHANGED <<control, otaActive, request, stageUncertain>>
    /\ told' = IF receipt' = receipt THEN told ELSE {}
    /\ started' = IF receipt' = receipt THEN started ELSE started \cup {op}
    /\ UNCHANGED <<image, otaState, selected, running, mainVars, query, bootUncertain,
                   worker, result, resets>>

\* The slots, the old receipt or the flash cannot be read for certain.
StartUnreadable ==
    /\ StartAdmitted
    /\ StartUncertain
    /\ UNCHANGED <<durable, running, mainVars, control, query, otaActive, request,
                   bootUncertain, workerVars, ghosts>>

\* xTaskCreate succeeds, or the request is withdrawn.
Spawn ==
    /\ control = "spawn"
    /\ \/ control' = "idle" /\ worker' = "load" /\ UNCHANGED otaActive
       \/ control' = "spawnFailed" /\ otaActive' = FALSE /\ UNCHANGED worker
    /\ UNCHANGED <<durable, running, mainVars, claim, query, request, configUncertain,
                   bootUncertain, result, stageUncertain, ghosts>>

\* Mutant: the failure is told whether or not it could be recorded.
ConcludeFailure_TellsAnyway(error) ==
    \E saved \in BOOLEAN :
      /\ RecordFailure(request.op, error, saved)
      /\ claim' = IF saved THEN "none" ELSE claim
      /\ told' = told \cup {"failed"}
      /\ configUncertain' = (configUncertain \/ ~saved)
      /\ otaActive' = FALSE /\ request' = NoRequest

\* A definite failure is recorded; then the claim is released and the outcome
\* told.  If it cannot be recorded, claim and gate stay closed.
ConcludeFailure(error) ==
    \E saved \in BOOLEAN :
      /\ RecordFailure(request.op, error, saved)
      /\ claim' = IF saved THEN "none" ELSE claim
      /\ told' = IF saved THEN told \cup {"failed"} ELSE told
      /\ configUncertain' = (configUncertain \/ ~saved)
      /\ otaActive' = FALSE /\ request' = NoRequest

SpawnFailed ==
    /\ control = "spawnFailed"
    /\ control' = "idle"
    /\ ConcludeFailure("resource")
    /\ UNCHANGED <<image, otaState, selected, running, mainVars, query, bootUncertain,
                   workerVars, started, resets>>

\* poll_ota after the worker has ended.
PollUncertain ==
    /\ control = "idle" /\ otaActive /\ worker = "done" /\ stageUncertain
    /\ configUncertain' = TRUE /\ bootUncertain' = TRUE
    /\ otaActive' = FALSE /\ request' = NoRequest /\ worker' = "off"
    /\ UNCHANGED <<durable, running, mainVars, claim, control, query, result, stageUncertain,
                   ghosts>>

PollSelected ==
    /\ control = "idle" /\ otaActive /\ worker = "done" /\ ~stageUncertain /\ result = "ok"
    /\ Bootloader
    /\ UNCHANGED <<image, receipt, ghosts>>

\* Mutant: the result of the previous worker is taken before s_ota_done.
PollFailed_NotDone ==
    /\ control = "idle" /\ otaActive /\ worker # "off" /\ ~stageUncertain
    /\ result \in Failure
    /\ UNCHANGED worker
    /\ ConcludeFailure(result)
    /\ UNCHANGED <<image, otaState, selected, running, mainVars, control, query, bootUncertain,
                   result, stageUncertain, started, resets>>

PollFailed ==
    /\ control = "idle" /\ otaActive /\ worker = "done" /\ ~stageUncertain
    /\ result \in Failure
    /\ worker' = "off"
    /\ ConcludeFailure(result)
    /\ UNCHANGED <<image, otaState, selected, running, mainVars, control, query, bootUncertain,
                   result, stageUncertain, started, resets>>

PollOta == PollUncertain \/ PollSelected \/ PollFailed

\* ota.result for an operation the live owner does not answer for: the receipt
\* is loaded first ...
QueryLoad ==
    /\ control = "idle" /\ receipt.status # "none"
    /\ LET active == otaActive /\ request.op = receipt.op
       IN  /\ ~(active /\ worker \notin {"off", "load"})
           /\ query' = [receipt |-> receipt, active |-> active]
    /\ control' = "evaluate"
    /\ UNCHANGED <<durable, running, mainVars, claim, otaActive, request, configUncertain,
                   bootUncertain, workerVars, ghosts>>

\* ... and judged against the slots afterwards.
QueryEvaluate ==
    /\ control = "evaluate"
    /\ control' = "idle"
    /\ told' = told \cup ({Evaluate(query.receipt, query.active)} \cap {"succeeded", "failed"})
    /\ query' = [receipt |-> NoReceipt, active |-> FALSE]
    /\ UNCHANGED <<durable, running, mainVars, claim, otaActive, request, configUncertain,
                   bootUncertain, workerVars, started, resets>>

-----------------------------------------------------------------------------
(* The worker: ota_task *)

WorkerUncertain == worker' = "done" /\ stageUncertain' = TRUE

WorkerLoad ==
    /\ worker = "load"
    /\ \/ /\ receipt.status = "prepared" /\ receipt.op = request.op /\ receipt.cand = request.cand
          /\ worker' = "retire" /\ UNCHANGED <<result, stageUncertain>>
       \/ WorkerUncertain /\ result' = "boot_state_unknown"
    /\ UNCHANGED <<durable, running, mainVars, claim, controlVars, ghosts>>

\* Mutant: the source slot is retired instead of the target.
WorkerRetire_Source ==
    /\ worker = "retire"
    /\ image' = [image EXCEPT ![receipt.source] = Erased]
    /\ worker' = "begin"
    /\ UNCHANGED <<otaState, result, stageUncertain>>
    /\ UNCHANGED <<selected, receipt, running, mainVars, claim, controlVars, ghosts>>

WorkerRetire ==
    /\ worker = "retire"
    /\ \E ok \in BOOLEAN :
         /\ RetireInactive(receipt.src, ok)
         /\ IF ok THEN worker' = "begin" /\ UNCHANGED <<result, stageUncertain>>
                  ELSE WorkerUncertain /\ result' \in Result \ {"ok"}
    /\ UNCHANGED <<selected, receipt, running, mainVars, claim, controlVars, ghosts>>

\* Only a stream can fail here; nothing was written since the retirement.
WorkerBegin ==
    /\ worker = "begin"
    /\ \/ worker' = "prepare" /\ UNCHANGED result
       \/ worker' = "done" /\ result' = "resource"
    /\ UNCHANGED <<durable, running, mainVars, claim, controlVars, stageUncertain, ghosts>>

\* eota_prepare or eota_prepare_stream writes the inactive slot and verifies
\* it.  A refused image may be anything that was received.
WorkerPrepare ==
    /\ worker = "prepare"
    /\ \/ /\ image' = [image EXCEPT ![Target] = request.cand]
          /\ worker' = "boundary" /\ UNCHANGED <<result, stageUncertain>>
       \/ /\ \E c \in Content : image' = [image EXCEPT ![Target] = c]
          /\ \/ worker' = "cleanup" /\ result' \in Failure /\ UNCHANGED stageUncertain
             \/ WorkerUncertain /\ result' = "boot_state_unknown"
    /\ UNCHANGED <<otaState, selected, receipt, running, mainVars, claim, controlVars, ghosts>>

\* A stream may be cancelled up to here; an HTTPS download passes.
WorkerBoundary ==
    /\ worker = "boundary"
    /\ \/ worker' = "select" /\ UNCHANGED result
       \/ worker' = "cleanup" /\ result' = "download"
    /\ UNCHANGED <<durable, running, mainVars, claim, controlVars, stageUncertain, ghosts>>

\* eota_select: the candidate is selected; or provably not; or unknown.
WorkerSelect ==
    /\ worker = "select"
    /\ LET chosen == [otaState EXCEPT ![Target] = "new"]
       IN \/ /\ SourceProven(receipt.src) /\ image[Target] = request.cand
             /\ otaState' = chosen /\ selected' = Target
             /\ worker' = "done" /\ result' = "ok" /\ UNCHANGED stageUncertain
          \/ /\ worker' = "cleanup" /\ result' \in Failure
             /\ UNCHANGED <<otaState, selected, stageUncertain>>
          \/ /\ WorkerUncertain /\ result' = "boot_state_unknown"
             /\ \/ UNCHANGED <<otaState, selected>>
                \/ otaState' = chosen /\ selected' = Target
    /\ UNCHANGED <<image, receipt, running, mainVars, claim, controlVars, ghosts>>

\* Mutant: the failed write is left where it is.
WorkerCleanup_Skipped ==
    /\ worker = "cleanup"
    /\ worker' = "done"
    /\ UNCHANGED <<durable, running, mainVars, claim, controlVars, result, stageUncertain, ghosts>>

\* A failed write is erased again before the failure may be recorded.
WorkerCleanup ==
    /\ worker = "cleanup"
    /\ \E ok \in BOOLEAN :
         /\ RetireInactive(receipt.src, ok)
         /\ IF ok THEN worker' = "done" /\ UNCHANGED stageUncertain ELSE WorkerUncertain
    /\ UNCHANGED <<selected, receipt, running, mainVars, claim, controlVars, result, ghosts>>

WorkerStep ==
    \/ WorkerLoad \/ WorkerRetire \/ WorkerBegin \/ WorkerPrepare \/ WorkerBoundary
    \/ WorkerSelect \/ WorkerCleanup

-----------------------------------------------------------------------------
\* Power failure, a crash, or a reset by hand.
Reset ==
    /\ resets < MaxResets
    /\ resets' = resets + 1
    /\ Bootloader
    /\ UNCHANGED <<image, receipt, told, started>>

Next ==
    \/ MainStep
    \/ \E op \in Ops, cand \in Images : Start(op, cand)
    \/ StartUnreadable \/ Spawn \/ SpawnFailed \/ PollOta \/ QueryLoad \/ QueryEvaluate
    \/ WorkerStep
    \/ Reset

\* Tasks run, SDK calls return, and every pass of the control loop polls the
\* worker, however many queries it also answers.
Fairness ==
    /\ WF_vars(MainStep) /\ WF_vars(WorkerStep)
    /\ WF_vars(Spawn) /\ WF_vars(SpawnFailed) /\ WF_vars(QueryEvaluate)
    /\ SF_vars(PollOta)

Spec == Init /\ [][Next]_vars
FairSpec == Spec /\ Fairness

-----------------------------------------------------------------------------
(* Properties *)

\* Whatever a reset finds, the bootloader runs a complete image; and while a
\* candidate is on trial its recorded source is the confirmed fallback.
AlwaysBoots ==
    /\ image[BootChoice] \in Images
    /\ otaState[selected] \in {"new", "pending"} =>
         /\ otaState[Other(selected)] = "valid"
         /\ image[Other(selected)] = receipt.src

\* Every boot is explained: at whatever step an upgrade, a rollback or an
\* earlier recovery was interrupted, reconciliation finds one of its known
\* cases, so that power loss alone never leaves a device that cannot finish
\* its boot.
BootExplained ==
    main = "reconcile" => NoOperation \/ KnownFailure \/ KnownCandidate \/ Interrupted

\* A terminal receipt is true of the flash: success means that the candidate
\* is selected and confirmed, failure that the source is, and that the other
\* slot holds nothing but what it held before the operation.
TerminalTruth ==
    /\ receipt.status = "succeeded" =>
         /\ selected = Fill(receipt) /\ otaState[selected] = "valid"
         /\ image[selected] = receipt.cand
    /\ receipt.status = "failed" =>
         /\ selected = receipt.source /\ otaState[selected] = "valid"
         /\ image[selected] = receipt.src
         /\ image[Fill(receipt)] \in {Erased, receipt.inactive, receipt.src}

\* A slot is erased or written only under a durable intent for exactly that
\* slot, by this boot or by an earlier one.
IntentBeforeWrite ==
    [][\A s \in Slot : image'[s] # image[s] =>
         receipt.status = "prepared" /\ s = Fill(receipt)]_vars

\* A recorded result is never changed for the same operation: whatever is
\* retried, raced or reset later, failed stays failed and succeeded succeeded.
ResultIsFinal ==
    [][receipt.status \in {"succeeded", "failed"} =>
         receipt' = receipt \/ (receipt'.op # receipt.op /\ receipt'.status = "prepared")]_vars

\* What a client was told about an operation is what the receipt says: an
\* answer that is computed while the boot task records the result, or whose
\* receipt write was uncertain, never contradicts it.
ToldIsDurable == \A answer \in told : receipt.status = answer

\* While the worker runs, the receipt is the intent of its request, the
\* upgrade claim is its own and the boot task is out of the way.
WorkerOwnsIntent ==
    worker \notin {"off", "done"} =>
        /\ claim = "ota" /\ main = "done" /\ otaActive
        /\ receipt.status = "prepared" /\ receipt.op = request.op

\* The device asks for recovery: the boot stopped or the storage is uncertain.
RecoveryRequired == main = "halted" \/ configUncertain

\* Every intent is settled, in this boot or after resets, or the device says
\* that it needs recovery.
IntentSettles ==
    (receipt.status = "prepared") ~> (receipt.status # "prepared" \/ RecoveryRequired)

\* "the same ID never starts twice" (esp_base_ota_receipt.h).
SameIdNeverStartsTwice ==
    [][\A op \in Ops : receipt'.op = op /\ receipt.op # op => op \notin started]_vars
=============================================================================
