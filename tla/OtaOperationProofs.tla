------------------------- MODULE OtaOperationProofs -------------------------
(***************************************************************************)
(* The upgrade transaction is safe for any set of images and operations    *)
(* and any number of resets: the device always boots, a terminal receipt   *)
(* is true of the flash and final, no slot is written without an intent,   *)
(* and every boot finds a state that reconciliation knows.                 *)
(***************************************************************************)
EXTENDS OtaOperation, TLAPS

-----------------------------------------------------------------------------
(* The inductive invariant *)

\* The source of the receipt is selected and confirmed.
AtSource ==
    /\ selected = receipt.source
    /\ otaState[selected] = "valid" /\ image[selected] = receipt.src

\* The candidate is selected, and the source is its confirmed rollback.
AtCandidate ==
    /\ selected = Fill(receipt) /\ image[selected] = receipt.cand
    /\ otaState[receipt.source] = "valid" /\ image[receipt.source] = receipt.src

Blank(s) == otaState[s] \in Retired /\ image[s] = Erased

\* The target holds nothing, or what it held before the operation.
TargetClean ==
    \/ Blank(Fill(receipt))
    \/ /\ otaState[Fill(receipt)] = "valid" /\ image[Fill(receipt)] \in Images
       /\ image[Fill(receipt)] \in {receipt.inactive, receipt.src}

\* A recorded operation names two different complete images.
ReceiptInv ==
    receipt.status # "none" =>
        receipt.src \in Images /\ receipt.cand \in Images /\ receipt.src # receipt.cand

\* What the flash may look like under each receipt.
SlotsInv ==
    /\ receipt.status = "none" => \A s \in Slot : otaState[s] = "valid" /\ image[s] \in Images
    /\ receipt.status = "failed" => AtSource /\ TargetClean
    /\ receipt.status = "succeeded" => AtCandidate /\ otaState[selected] = "valid"
    /\ receipt.status = "prepared" =>
         \/ AtSource /\ otaState[Fill(receipt)] \in Retired \cup {"valid"}
         \/ AtCandidate /\ otaState[selected] \in {"new", "pending", "valid"}

\* The running slot is the selected one until a worker selects the other.
RunInv ==
    /\ running # selected <=> otaState[selected] = "new"
    /\ running # selected =>
         /\ main = "done" /\ claim = "ota" /\ worker \in {"off", "done"}
         /\ control \notin {"spawn", "spawnFailed"}
         /\ worker = "done" => stageUncertain \/ result = "ok"

\* The boot task owns the upgrade until it is done, and knows a trial.
BootInv ==
    /\ main \notin {"ungate", "done"} => claim = "boot"
    /\ main = "ungate" => claim = "none"
    /\ main \notin {"inspect", "halted", "done"} => otaPending
    /\ main # "done" => worker = "off" /\ ~otaActive /\ control \notin {"spawn", "spawnFailed"}
    /\ main \in {"checks", "reconcile"} => pendingBoot = (otaState[running] = "pending")
    /\ main \in {"retire", "recordFailure"} =>
         receipt.status = "prepared" /\ AtSource /\ ~pendingBoot
    /\ main = "recordFailure" => TargetClean
    /\ main \in {"window", "reject"} => receipt.status = "prepared" /\ AtCandidate

\* The request in hand is the intent of the receipt ...
RequestInv ==
    otaActive \/ control = "spawnFailed" =>
        /\ claim = "ota" /\ main = "done" /\ running = receipt.source
        /\ receipt.status = "prepared"
        /\ receipt.op = request.op /\ receipt.cand = request.cand

\* ... and the worker has changed the target only as far as it has come.
WorkInv ==
    /\ control = "spawn" => otaActive
    /\ control = "spawnFailed" => ~otaActive
    /\ control \in {"spawn", "spawnFailed"} => worker = "off" /\ AtSource /\ TargetClean
    /\ worker # "off" => otaActive /\ control \notin {"spawn", "spawnFailed"}
    /\ worker \notin {"off", "done"} => AtSource
    /\ worker = "begin" => Blank(Target)
    /\ worker \in {"prepare", "boundary", "select", "cleanup"} => otaState[Target] \in Retired
    /\ worker \in {"boundary", "select"} => image[Target] = request.cand
    /\ worker = "done" /\ ~stageUncertain /\ result \in Failure => AtSource /\ TargetClean

\* A terminal answer is the receipt's; so is one that is being computed.
TellInv ==
    /\ ToldIsDurable
    /\ control = "evaluate" /\ query.receipt.status \in {"succeeded", "failed"} =>
         query.receipt = receipt

IInv == TypeOK /\ ReceiptInv /\ SlotsInv /\ RunInv /\ BootInv /\ RequestInv /\ WorkInv /\ TellInv

-----------------------------------------------------------------------------
(* Lemmas *)

\* There are two slots.
LEMMA SlotFacts ==
    \A s \in Slot : Other(s) \in Slot /\ Other(s) # s /\ Other(Other(s)) = s
                    /\ \A u \in Slot : u # s => u = Other(s)
BY DEF Slot, Other

\* A device without an operation has a well-formed empty record.
LEMMA NoReceiptType == NoReceipt \in Receipt /\ NoReceipt.status = "none"
BY DEF NoReceipt, Receipt, Slot

USE OtaAssumption, SlotFacts
    DEF vars, durable, mainVars, controlVars, workerVars, ghosts, Target, Fill

\* record_failure writes only the failure of the operation that is prepared,
\* and only while its source is proven.
LEMMA RecordFailureFacts ==
    ASSUME FlashType, NEW op \in Ops \cup {NoOp}, NEW error \in Failure, NEW saved \in BOOLEAN,
           RecordFailure(op, error, saved)
    PROVE  /\ receipt' \in Receipt
           /\ saved => receipt'.status = "failed"
           /\ \/ receipt' = receipt
              \/ receipt.status = "prepared" /\ FailureProven /\ receipt'.status = "failed"
           /\ receipt'.op = receipt.op /\ receipt'.source = receipt.source
           /\ receipt'.src = receipt.src /\ receipt'.cand = receipt.cand
           /\ receipt'.inactive = receipt.inactive
<1> DEFINE next == [receipt EXCEPT !.status = "failed", !.failure = error]
<1>1. /\ next \in Receipt /\ next.status = "failed"
      /\ next.op = receipt.op /\ next.source = receipt.source /\ next.src = receipt.src
      /\ next.cand = receipt.cand /\ next.inactive = receipt.inactive
  BY DEF FlashType, Receipt, Failure
<1>2. CASE receipt' = receipt /\ (saved => receipt.status = "failed")
  BY <1>2 DEF FlashType
<1>3. CASE receipt.status = "prepared" /\ FailureProven /\ receipt' = next
  BY <1>1, <1>3
<1>4. \/ receipt' = receipt /\ (saved => receipt.status = "failed")
      \/ receipt.status = "prepared" /\ FailureProven /\ receipt' = next
  BY DEF RecordFailure, Store, StoreOutcome, FlashType, Receipt
<1> QED
  BY <1>2, <1>3, <1>4

\* record_success writes only the success of the operation that is prepared,
\* and only while its candidate is proven.
LEMMA RecordSuccessFacts ==
    ASSUME FlashType, NEW saved \in BOOLEAN, RecordSuccess(saved)
    PROVE  /\ receipt' \in Receipt
           /\ \/ receipt' = receipt
              \/ /\ receipt.status = "prepared" /\ SuccessProven
                 /\ receipt' = [receipt EXCEPT !.status = "succeeded"]
<1>1. [receipt EXCEPT !.status = "succeeded"] \in Receipt
  BY DEF FlashType, Receipt
<1>2. \/ receipt' = receipt
      \/ /\ receipt.status = "prepared" /\ SuccessProven
         /\ receipt' = [receipt EXCEPT !.status = "succeeded"]
  BY DEF RecordSuccess, Store, StoreOutcome, FlashType, Receipt
<1> QED
  BY <1>1, <1>2 DEF FlashType

\* eota_retire_inactive touches nothing but the inactive slot.
LEMMA RetireFacts ==
    ASSUME FlashType, NEW src, NEW ok \in BOOLEAN, RetireInactive(src, ok)
    PROVE  /\ image' \in [Slot -> Content] /\ otaState' \in [Slot -> SlotState]
           /\ image'[running] = image[running] /\ otaState'[running] = otaState[running]
           /\ otaState'[Target] \in Retired \cup {otaState[Target]}
           /\ ok => otaState'[Target] \in Retired /\ image'[Target] = Erased
<1>1. CASE ~SourceProven(src)
  BY <1>1 DEF RetireInactive, FlashType
<1>2. CASE SourceProven(src)
  <2>1. PICK st \in Retired, half \in SUBSET {"otadata", "header"} :
          /\ ok => half = {"otadata", "header"}
          /\ otaState' = IF "otadata" \in half
                            THEN [otaState EXCEPT ![Target] = st] ELSE otaState
          /\ image' = IF "header" \in half
                         THEN [image EXCEPT ![Target] = Erased] ELSE image
    BY <1>2 DEF RetireInactive
  <2>2. st \in SlotState /\ Erased \in Content
    BY DEF Retired, SlotState, Content
  <2>3. image' \in [Slot -> Content] /\ otaState' \in [Slot -> SlotState]
    BY <2>1, <2>2 DEF FlashType
  <2>4. image'[running] = image[running] /\ otaState'[running] = otaState[running]
    BY <2>1, <2>2 DEF FlashType
  <2>5. otaState'[Target] \in Retired \cup {otaState[Target]}
    BY <2>1, <2>2 DEF FlashType
  <2>6. ok => otaState'[Target] \in Retired /\ image'[Target] = Erased
    BY <2>1, <2>2 DEF FlashType
  <2> QED
    BY <2>3, <2>4, <2>5, <2>6
<1> QED
  BY <1>1, <1>2

\* The selected slot is the running one, a candidate, or on trial; it always
\* holds a complete image.
LEMMA SelectedFacts ==
    ASSUME FlashType, ReceiptInv, SlotsInv
    PROVE  /\ otaState[selected] \in {"new", "pending", "valid"} /\ image[selected] \in Images
           /\ otaState[selected] \in {"new", "pending"} =>
                receipt.status = "prepared" /\ AtCandidate
BY DEF FlashType, Receipt, ReceiptInv, SlotsInv, AtSource, AtCandidate

\* Wherever the flash is when the device resets, the bootloader leaves it in
\* a state of the invariant.
LEMMA BootloaderStep ==
    ASSUME IInv, Bootloader, UNCHANGED <<image, receipt, told, started>>,
           resets' \in 0 .. MaxResets
    PROVE  IInv'
<1> USE SelectedFacts DEF IInv, TypeOK
<1>1. FlagType'
  BY Zenon DEF FlagType, Bootloader, ResetTo
<1>2. StageType' /\ DataType'
  BY NoReceiptType DEF StageType, DataType, Bootloader, ResetTo, NoRequest, Result
<1>3. FlashType' /\ SlotsInv' /\ RunInv'
  <2>1. CASE otaState[selected] = "pending"
    <3>1. /\ running' = Other(selected) /\ selected' = Other(selected)
          /\ otaState' = [otaState EXCEPT ![selected] = "aborted"]
      BY <2>1 DEF Bootloader, BootChoice, ResetTo, FlashType
    <3> QED
      BY <2>1, <3>1 DEF FlashType, SlotState, Receipt, SlotsInv, RunInv, AtSource, AtCandidate,
         Retired
  <2>2. CASE otaState[selected] = "new"
    <3>1. /\ running' = selected /\ selected' = selected
          /\ otaState' = [otaState EXCEPT ![selected] = "pending"]
      BY <2>2 DEF Bootloader, BootChoice, ResetTo, FlashType
    <3> QED
      BY <2>2, <3>1 DEF FlashType, SlotState, Receipt, SlotsInv, RunInv, AtSource, AtCandidate,
         Retired
  <2>3. CASE otaState[selected] = "valid"
    <3>1. running' = selected /\ selected' = selected /\ otaState' = otaState
      BY <2>3 DEF Bootloader, BootChoice, ResetTo, FlashType
    <3> QED
      BY <2>3, <3>1 DEF FlashType, Receipt, SlotsInv, RunInv, AtSource, AtCandidate, TargetClean,
         Blank, Retired
  <2> QED
    BY <2>1, <2>2, <2>3
<1>4. ReceiptInv' /\ BootInv' /\ RequestInv' /\ WorkInv' /\ TellInv'
  BY DEF ReceiptInv, BootInv, RequestInv, WorkInv, TellInv, ToldIsDurable, Bootloader, ResetTo
<1> QED
  BY <1>1, <1>2, <1>3, <1>4

-----------------------------------------------------------------------------
(* The actions that leave the slots and the receipt alone *)

\* The inspection only looks.
LEMMA InspectStep == IInv /\ Inspect => IInv'
<1> SUFFICES ASSUME IInv, Inspect PROVE IInv'
  OBVIOUS
<1> USE DEF IInv, TypeOK, Inspect
<1>1. FlagType'
  BY Zenon DEF FlagType
<1>2. FlashType' /\ StageType' /\ DataType'
  BY DEF FlashType, StageType, DataType, Receipt, Content, SlotState, Result, Failure
<1>3. ReceiptInv' /\ SlotsInv' /\ RunInv' /\ BootInv' /\ RequestInv' /\ WorkInv' /\ TellInv'
  BY DEF FlashType, StageType, ReceiptInv, SlotsInv, RunInv, BootInv, RequestInv, WorkInv,
     TellInv, ToldIsDurable, AtSource, AtCandidate, TargetClean, Blank, Retired
<1> QED
  BY <1>1, <1>2, <1>3

\* The readback only looks.
LEMMA ReadbackStep == IInv /\ Readback => IInv'
<1> SUFFICES ASSUME IInv, Readback PROVE IInv'
  OBVIOUS
<1> USE DEF IInv, TypeOK, Readback
<1>1. FlagType'
  BY Zenon DEF FlagType
<1>2. FlashType' /\ StageType' /\ DataType'
  BY DEF FlashType, StageType, DataType, Receipt, Content, SlotState, Result, Failure
<1>3. ReceiptInv' /\ SlotsInv' /\ RunInv' /\ BootInv' /\ RequestInv' /\ WorkInv' /\ TellInv'
  BY DEF FlashType, StageType, ReceiptInv, SlotsInv, RunInv, BootInv, RequestInv, WorkInv,
     TellInv, ToldIsDurable, AtSource, AtCandidate, TargetClean, Blank, Retired
<1> QED
  BY <1>1, <1>2, <1>3

\* The boot claim is given back.
LEMMA ReleaseBootClaimStep == IInv /\ ReleaseBootClaim => IInv'
<1> SUFFICES ASSUME IInv, ReleaseBootClaim PROVE IInv'
  OBVIOUS
<1> USE DEF IInv, TypeOK, ReleaseBootClaim
<1>1. FlagType'
  BY Zenon DEF FlagType
<1>2. FlashType' /\ StageType' /\ DataType'
  BY DEF FlashType, StageType, DataType, Receipt, Content, SlotState, Result, Failure
<1>3. ReceiptInv' /\ SlotsInv' /\ RunInv' /\ BootInv' /\ RequestInv' /\ WorkInv' /\ TellInv'
  BY DEF FlashType, StageType, ReceiptInv, SlotsInv, RunInv, BootInv, RequestInv, WorkInv,
     TellInv, ToldIsDurable, AtSource, AtCandidate, TargetClean, Blank, Retired
<1> QED
  BY <1>1, <1>2, <1>3

\* The gate opens after the claim is free.
LEMMA UngateStep == IInv /\ Ungate => IInv'
<1> SUFFICES ASSUME IInv, Ungate PROVE IInv'
  OBVIOUS
<1> USE DEF IInv, TypeOK, Ungate
<1>1. FlagType'
  BY Zenon DEF FlagType
<1>2. FlashType' /\ StageType' /\ DataType'
  BY DEF FlashType, StageType, DataType, Receipt, Content, SlotState, Result, Failure
<1>3. ReceiptInv' /\ SlotsInv' /\ RunInv' /\ BootInv' /\ RequestInv' /\ WorkInv' /\ TellInv'
  BY DEF FlashType, StageType, ReceiptInv, SlotsInv, RunInv, BootInv, RequestInv, WorkInv,
     TellInv, ToldIsDurable, AtSource, AtCandidate, TargetClean, Blank, Retired
<1> QED
  BY <1>1, <1>2, <1>3

\* A worker starts on the request, or none does.
LEMMA SpawnStep == IInv /\ Spawn => IInv'
<1> SUFFICES ASSUME IInv, Spawn PROVE IInv'
  OBVIOUS
<1> USE DEF IInv, TypeOK, Spawn
<1>1. FlagType'
  BY Zenon DEF FlagType
<1>2. FlashType' /\ StageType' /\ DataType'
  BY DEF FlashType, StageType, DataType, Receipt, Content, SlotState, Result, Failure
<1>3. ReceiptInv' /\ SlotsInv' /\ RunInv' /\ BootInv' /\ RequestInv' /\ WorkInv' /\ TellInv'
  BY DEF FlashType, StageType, ReceiptInv, SlotsInv, RunInv, BootInv, RequestInv, WorkInv,
     TellInv, ToldIsDurable, AtSource, AtCandidate, TargetClean, Blank, Retired
<1> QED
  BY <1>1, <1>2, <1>3

\* An unreadable start takes the claim and closes the gate.
LEMMA StartUnreadableStep == IInv /\ StartUnreadable => IInv'
<1> SUFFICES ASSUME IInv, StartUnreadable PROVE IInv'
  OBVIOUS
<1> USE DEF IInv, TypeOK, StartUnreadable, StartAdmitted, StartUncertain
<1>1. FlagType'
  BY Zenon DEF FlagType
<1>2. FlashType' /\ StageType' /\ DataType'
  BY DEF FlashType, StageType, DataType, Receipt, Content, SlotState, Result, Failure
<1>3. ReceiptInv' /\ SlotsInv' /\ RunInv' /\ BootInv' /\ RequestInv' /\ WorkInv' /\ TellInv'
  BY DEF FlashType, StageType, ReceiptInv, SlotsInv, RunInv, BootInv, RequestInv, WorkInv,
     TellInv, ToldIsDurable, AtSource, AtCandidate, TargetClean, Blank, Retired
<1> QED
  BY <1>1, <1>2, <1>3

\* An uncertain worker leaves the claim and a closed gate behind.
LEMMA PollUncertainStep == IInv /\ PollUncertain => IInv'
<1> SUFFICES ASSUME IInv, PollUncertain PROVE IInv'
  OBVIOUS
<1> USE DEF IInv, TypeOK, PollUncertain, NoRequest
<1>1. FlagType'
  BY Zenon DEF FlagType
<1>2. FlashType' /\ StageType' /\ DataType'
  BY DEF FlashType, StageType, DataType, Receipt, Content, SlotState, Result, Failure
<1>3. ReceiptInv' /\ SlotsInv' /\ RunInv' /\ BootInv' /\ RequestInv' /\ WorkInv' /\ TellInv'
  BY DEF FlashType, StageType, ReceiptInv, SlotsInv, RunInv, BootInv, RequestInv, WorkInv,
     TellInv, ToldIsDurable, AtSource, AtCandidate, TargetClean, Blank, Retired
<1> QED
  BY <1>1, <1>2, <1>3

\* A query takes a copy of the receipt.
LEMMA QueryLoadStep == IInv /\ QueryLoad => IInv'
<1> SUFFICES ASSUME IInv, QueryLoad PROVE IInv'
  OBVIOUS
<1> USE DEF IInv, TypeOK, QueryLoad
<1>1. FlagType'
  BY Zenon DEF FlagType
<1>2. FlashType' /\ StageType' /\ DataType'
  BY DEF FlashType, StageType, DataType, Receipt, Content, SlotState, Result, Failure
<1>3. ReceiptInv' /\ SlotsInv' /\ RunInv' /\ BootInv' /\ RequestInv' /\ WorkInv' /\ TellInv'
  BY DEF FlashType, StageType, ReceiptInv, SlotsInv, RunInv, BootInv, RequestInv, WorkInv,
     TellInv, ToldIsDurable, AtSource, AtCandidate, TargetClean, Blank, Retired
<1> QED
  BY <1>1, <1>2, <1>3

\* The worker finds the intent of its request.
LEMMA WorkerLoadStep == IInv /\ WorkerLoad => IInv'
<1> SUFFICES ASSUME IInv, WorkerLoad PROVE IInv'
  OBVIOUS
<1> USE DEF IInv, TypeOK, WorkerLoad, WorkerUncertain
<1>1. FlagType'
  BY Zenon DEF FlagType
<1>2. FlashType' /\ StageType' /\ DataType'
  BY DEF FlashType, StageType, DataType, Receipt, Content, SlotState, Result, Failure
<1>3. ReceiptInv' /\ SlotsInv' /\ RunInv' /\ BootInv' /\ RequestInv' /\ WorkInv' /\ TellInv'
  BY DEF FlashType, StageType, ReceiptInv, SlotsInv, RunInv, BootInv, RequestInv, WorkInv,
     TellInv, ToldIsDurable, AtSource, AtCandidate, TargetClean, Blank, Retired
<1> QED
  BY <1>1, <1>2, <1>3

\* The stream starts on a blank target.
LEMMA WorkerBeginStep == IInv /\ WorkerBegin => IInv'
<1> SUFFICES ASSUME IInv, WorkerBegin PROVE IInv'
  OBVIOUS
<1> USE DEF IInv, TypeOK, WorkerBegin
<1>1. FlagType'
  BY Zenon DEF FlagType
<1>2. FlashType' /\ StageType' /\ DataType'
  BY DEF FlashType, StageType, DataType, Receipt, Content, SlotState, Result, Failure
<1>3. ReceiptInv' /\ SlotsInv' /\ RunInv' /\ BootInv' /\ RequestInv' /\ WorkInv' /\ TellInv'
  BY DEF FlashType, StageType, ReceiptInv, SlotsInv, RunInv, BootInv, RequestInv, WorkInv,
     TellInv, ToldIsDurable, AtSource, AtCandidate, TargetClean, Blank, Retired
<1> QED
  BY <1>1, <1>2, <1>3

\* The boundary writes nothing.
LEMMA WorkerBoundaryStep == IInv /\ WorkerBoundary => IInv'
<1> SUFFICES ASSUME IInv, WorkerBoundary PROVE IInv'
  OBVIOUS
<1> USE DEF IInv, TypeOK, WorkerBoundary
<1>1. FlagType'
  BY Zenon DEF FlagType
<1>2. FlashType' /\ StageType' /\ DataType'
  BY DEF FlashType, StageType, DataType, Receipt, Content, SlotState, Result, Failure
<1>3. ReceiptInv' /\ SlotsInv' /\ RunInv' /\ BootInv' /\ RequestInv' /\ WorkInv' /\ TellInv'
  BY DEF FlashType, StageType, ReceiptInv, SlotsInv, RunInv, BootInv, RequestInv, WorkInv,
     TellInv, ToldIsDurable, AtSource, AtCandidate, TargetClean, Blank, Retired
<1> QED
  BY <1>1, <1>2, <1>3

\* The checks start the control task or stop the boot.
LEMMA ChecksStep == IInv /\ Checks => IInv'
<1> SUFFICES ASSUME IInv, Checks PROVE IInv'
  OBVIOUS
<1> USE SelectedFacts DEF IInv, TypeOK, Checks, LocalFailure
<1>1. FlagType'
  BY Zenon DEF FlagType
<1>2. FlashType' /\ StageType' /\ DataType'
  BY DEF FlashType, StageType, DataType, Receipt, Content, SlotState, Result, Failure
<1>3. ReceiptInv' /\ RequestInv' /\ TellInv'
  BY DEF FlashType, ReceiptInv, RequestInv, TellInv, ToldIsDurable
<1>4. SlotsInv'
  BY DEF FlashType, SlotsInv, BootInv, RunInv, AtSource, AtCandidate, TargetClean, Blank, Retired
<1>5. RunInv'
  BY DEF FlashType, RunInv, BootInv, SlotsInv, AtCandidate
<1>6. BootInv'
  BY DEF FlashType, StageType, FlagType, BootInv, RunInv, AtSource, AtCandidate, TargetClean, Blank
<1>7. WorkInv'
  BY DEF FlashType, StageType, WorkInv, BootInv, AtSource, TargetClean, Blank
<1> QED
  BY <1>1, <1>2, <1>3, <1>4, <1>5, <1>6, <1>7

\* A failed observation stops the boot or asks for rollback.
LEMMA ReconcileErrorStep == IInv /\ ReconcileError => IInv'
<1> SUFFICES ASSUME IInv, ReconcileError PROVE IInv'
  OBVIOUS
<1> USE SelectedFacts DEF IInv, TypeOK, ReconcileError, LocalFailure
<1>1. FlagType'
  BY Zenon DEF FlagType
<1>2. FlashType' /\ StageType' /\ DataType'
  BY DEF FlashType, StageType, DataType, Receipt, Content, SlotState, Result, Failure
<1>3. ReceiptInv' /\ RequestInv' /\ TellInv'
  BY DEF FlashType, ReceiptInv, RequestInv, TellInv, ToldIsDurable
<1>4. SlotsInv'
  BY DEF FlashType, SlotsInv, BootInv, RunInv, AtSource, AtCandidate, TargetClean, Blank, Retired
<1>5. RunInv'
  BY DEF FlashType, RunInv, BootInv, SlotsInv, AtCandidate
<1>6. BootInv'
  BY DEF FlashType, StageType, FlagType, BootInv, RunInv, AtSource, AtCandidate, TargetClean, Blank
<1>7. WorkInv'
  BY DEF FlashType, StageType, WorkInv, BootInv, AtSource, TargetClean, Blank
<1> QED
  BY <1>1, <1>2, <1>3, <1>4, <1>5, <1>6, <1>7

-----------------------------------------------------------------------------
(* The boot task *)

\* A confirmation turns the trial into a confirmed candidate.
LEMMA WindowStep == IInv /\ Window => IInv'
<1> SUFFICES ASSUME IInv, Window PROVE IInv'
  OBVIOUS
<1> USE DEF IInv, TypeOK, Window, LocalFailure
<1>1. FlagType'
  BY Zenon DEF FlagType
<1>2. FlashType' /\ StageType' /\ DataType'
  BY DEF FlashType, StageType, DataType, SlotState
<1>3. /\ receipt.status = "prepared" /\ AtCandidate /\ running = selected
      /\ otaState[selected] \in {"pending", "valid"}
  BY DEF BootInv, RunInv, SlotsInv, AtSource, AtCandidate, FlashType
<1>4. AtCandidate' /\ otaState'[selected] \in {"pending", "valid"}
  <2>1. otaState' \in {otaState, [otaState EXCEPT ![selected] = "valid"]}
    BY <1>3
  <2>2. otaState'[selected] \in {otaState[selected], "valid"}
        /\ otaState'[Other(selected)] = otaState[Other(selected)]
    BY <2>1 DEF FlashType
  <2> QED
    BY <1>3, <2>2 DEF AtCandidate, FlashType, Receipt
<1>5. ReceiptInv' /\ RequestInv' /\ TellInv'
  BY DEF FlashType, ReceiptInv, RequestInv, TellInv, ToldIsDurable
<1>6. SlotsInv' /\ RunInv'
  BY <1>3, <1>4 DEF SlotsInv, RunInv
<1>7. BootInv'
  BY <1>3, <1>4 DEF BootInv, StageType
<1>8. WorkInv'
  BY DEF WorkInv, BootInv
<1> QED
  BY <1>1, <1>2, <1>5, <1>6, <1>7, <1>8

\* Reconciliation writes nothing; a candidate goes on to its window, an
\* interrupted operation to its cleanup.
LEMMA ReconcileStep == IInv /\ Reconcile => IInv'
<1> SUFFICES ASSUME IInv, Reconcile PROVE IInv'
  OBVIOUS
<1> USE DEF IInv, TypeOK
<1>1. /\ UNCHANGED <<durable, running, pendingBoot, otaPending, claim, controlVars, workerVars,
                     ghosts>>
      /\ main = "reconcile"
  BY DEF Reconcile
<1>2. /\ running = selected /\ pendingBoot = (otaState[running] = "pending")
      /\ otaState[running] = "pending" => receipt.status = "prepared" /\ AtCandidate
  BY <1>1, SelectedFacts DEF BootInv, RunInv
<1>3. \/ main' \in {"window", "recordSuccess", "release", "reject", "halted"}
      \/ main' = "retire" /\ Interrupted
  <2>1. CASE NoOperation \/ KnownFailure
    BY <2>1 DEF Reconcile, Reconciled
  <2>2. CASE ~(NoOperation \/ KnownFailure) /\ KnownCandidate
    BY <2>2 DEF Reconcile, Reconciled
  <2>3. CASE ~(NoOperation \/ KnownFailure) /\ ~KnownCandidate /\ Interrupted
    BY <2>3 DEF Reconcile
  <2>4. CASE ~(NoOperation \/ KnownFailure) /\ ~KnownCandidate /\ ~Interrupted
    BY <2>4 DEF Reconcile, LocalFailure
  <2> QED
    BY <2>1, <2>2, <2>3, <2>4
<1>4. /\ main' \in {"window", "reject"} => pendingBoot
      /\ needsSuccess' \in {TRUE, FALSE, needsSuccess}
  BY DEF Reconcile, Reconciled, LocalFailure
<1>5. FlagType'
  BY <1>1, <1>4, Zenon DEF FlagType
<1>6. FlashType' /\ StageType' /\ DataType'
  BY <1>1, <1>3 DEF FlashType, StageType, DataType
<1>7. ReceiptInv' /\ SlotsInv' /\ RunInv' /\ RequestInv' /\ WorkInv' /\ TellInv'
  BY <1>1, <1>3 DEF ReceiptInv, SlotsInv, RunInv, RequestInv, WorkInv, TellInv, ToldIsDurable,
     AtSource, AtCandidate, TargetClean, Blank, BootInv
<1>8. CASE main' = "retire" /\ Interrupted
  <2>1. AtSource /\ ~pendingBoot
    BY <1>2, <1>8 DEF Interrupted, SlotsInv, AtSource, AtCandidate, FlashType, Receipt
  <2> QED
    BY <1>1, <1>5, <1>6, <1>7, <1>8, <2>1 DEF BootInv, Interrupted, AtSource
<1>9. CASE main' \in {"window", "recordSuccess", "release", "reject", "halted"}
  BY <1>1, <1>2, <1>4, <1>5, <1>6, <1>7, <1>9 DEF BootInv, AtCandidate
<1> QED
  BY <1>3, <1>8, <1>9

\* The interrupted target may end in any retired state, and is blank when the
\* erasure is reported as done.
LEMMA ReconcileRetireStep == IInv /\ ReconcileRetire => IInv'
<1> SUFFICES ASSUME IInv, ReconcileRetire PROVE IInv'
  OBVIOUS
<1> USE DEF IInv, TypeOK
<1>1. PICK ok \in BOOLEAN :
        RetireInactive(receipt.src, ok) /\ (IF ok THEN main' = "recordFailure" ELSE LocalFailure)
  BY DEF ReconcileRetire
<1>2. /\ UNCHANGED <<selected, receipt, running, pendingBoot, needsSuccess, otaPending, claim,
                     controlVars, workerVars, ghosts>>
      /\ main = "retire"
  BY DEF ReconcileRetire
<1>3. /\ image' \in [Slot -> Content] /\ otaState' \in [Slot -> SlotState]
      /\ image'[running] = image[running] /\ otaState'[running] = otaState[running]
      /\ otaState'[Target] \in Retired \cup {otaState[Target]}
      /\ ok => otaState'[Target] \in Retired /\ image'[Target] = Erased
  BY <1>1, RetireFacts
<1>4. /\ receipt.status = "prepared" /\ AtSource /\ ~pendingBoot /\ running = receipt.source
      /\ running = selected /\ otaState[Target] \in Retired \cup {"valid"}
  BY <1>2 DEF BootInv, RunInv, SlotsInv, AtSource, AtCandidate, FlashType
<1>5. AtSource' /\ otaState'[Fill(receipt)] \in Retired \cup {"valid"}
  BY <1>2, <1>3, <1>4 DEF AtSource
<1>6. main' \in {"recordFailure", "halted"} /\ (main' = "recordFailure" => TargetClean')
  BY <1>1, <1>2, <1>3, <1>4 DEF LocalFailure, TargetClean, Blank
<1>7. FlagType'
  BY <1>2, Zenon DEF FlagType
<1>8. FlashType' /\ StageType' /\ DataType'
  BY <1>2, <1>3, <1>6 DEF FlashType, StageType, DataType
<1>9. ReceiptInv' /\ RequestInv' /\ WorkInv' /\ TellInv'
  BY <1>2, <1>6 DEF ReceiptInv, RequestInv, WorkInv, TellInv, ToldIsDurable, BootInv
<1>10. SlotsInv' /\ RunInv'
  BY <1>2, <1>3, <1>4, <1>5 DEF SlotsInv, RunInv, AtSource
<1>11. BootInv'
  BY <1>2, <1>4, <1>5, <1>6 DEF BootInv
<1> QED
  BY <1>7, <1>8, <1>9, <1>10, <1>11

\* The failure of an interrupted operation is recorded at its source.
LEMMA ReconcileRecordStep == IInv /\ ReconcileRecord => IInv'
<1> SUFFICES ASSUME IInv, ReconcileRecord PROVE IInv'
  OBVIOUS
<1> USE DEF IInv, TypeOK
<1>1. PICK saved \in BOOLEAN :
        /\ RecordFailure(receipt.op, "resource", saved)
        /\ IF saved THEN Reconciled(FALSE) ELSE LocalFailure /\ UNCHANGED needsSuccess
  BY DEF ReconcileRecord
<1>2. /\ UNCHANGED <<image, otaState, selected, running, pendingBoot, otaPending, claim,
                     controlVars, workerVars, ghosts>>
      /\ main = "recordFailure"
  BY DEF ReconcileRecord
<1>3. /\ receipt.status = "prepared" /\ AtSource /\ TargetClean /\ ~pendingBoot
      /\ told = {} /\ control \notin {"spawn", "spawnFailed"} /\ worker = "off" /\ ~otaActive
      /\ running = selected
  BY <1>2 DEF BootInv, RunInv, TellInv, ToldIsDurable, DataType
<1>4. receipt.op \in Ops \cup {NoOp} /\ "resource" \in Failure
  BY DEF FlashType, Receipt, Failure
<1>5. /\ receipt' \in Receipt
      /\ receipt' = receipt \/ receipt'.status = "failed"
      /\ receipt'.op = receipt.op /\ receipt'.source = receipt.source
      /\ receipt'.src = receipt.src /\ receipt'.cand = receipt.cand
      /\ receipt'.inactive = receipt.inactive
  BY <1>1, <1>4, RecordFailureFacts
<1>6. receipt'.status \in {"prepared", "failed"}
  BY <1>3, <1>5
<1>7. /\ main' \in {"release", "halted"} /\ needsSuccess' \in {FALSE, needsSuccess}
  BY <1>1, <1>3 DEF Reconciled, LocalFailure
<1>8. FlagType'
  BY <1>2, <1>7, Zenon DEF FlagType
<1>9. FlashType' /\ StageType' /\ DataType'
  BY <1>2, <1>5, <1>7 DEF FlashType, StageType, DataType
<1>10. AtSource' /\ TargetClean'
  BY <1>2, <1>3, <1>5 DEF AtSource, TargetClean, Blank
<1>11. ReceiptInv' /\ SlotsInv' /\ RunInv'
  BY <1>2, <1>3, <1>5, <1>6, <1>10 DEF ReceiptInv, SlotsInv, RunInv, TargetClean, Blank
<1>12. BootInv' /\ RequestInv' /\ WorkInv'
  BY <1>2, <1>3, <1>7 DEF BootInv, RequestInv, WorkInv
<1>13. TellInv'
  BY <1>2, <1>3, <1>6 DEF TellInv, ToldIsDurable
<1> QED
  BY <1>8, <1>9, <1>11, <1>12, <1>13

\* A success is recorded only while the candidate is selected and confirmed.
LEMMA SucceedReceiptStep == IInv /\ SucceedReceipt => IInv'
<1> SUFFICES ASSUME IInv, SucceedReceipt PROVE IInv'
  OBVIOUS
<1> USE DEF IInv, TypeOK
<1>1. PICK saved \in BOOLEAN :
        RecordSuccess(saved) /\ main' = IF saved THEN "release" ELSE "halted"
  BY DEF SucceedReceipt
<1>2. /\ UNCHANGED <<image, otaState, selected, running, pendingBoot, needsSuccess, otaPending,
                     claim, controlVars, workerVars, ghosts>>
      /\ main = "recordSuccess" /\ main' \in {"release", "halted"}
  BY <1>1 DEF SucceedReceipt
<1>3. /\ receipt' \in Receipt
      /\ \/ receipt' = receipt
         \/ /\ receipt.status = "prepared" /\ SuccessProven
            /\ receipt' = [receipt EXCEPT !.status = "succeeded"]
  BY <1>1, RecordSuccessFacts
<1>4. FlagType'
  BY <1>2, Zenon DEF FlagType
<1>5. FlashType' /\ StageType' /\ DataType'
  BY <1>2, <1>3 DEF FlashType, StageType, DataType
<1>6. RunInv' /\ BootInv' /\ RequestInv' /\ WorkInv'
  BY <1>2 DEF RunInv, BootInv, RequestInv, WorkInv
<1>7. CASE receipt' = receipt
  <2>1. ReceiptInv' /\ SlotsInv' /\ TellInv'
    BY <1>2, <1>7 DEF ReceiptInv, SlotsInv, AtSource, AtCandidate, TargetClean, Blank, TellInv,
       ToldIsDurable
  <2> QED
    BY <1>4, <1>5, <1>6, <2>1
<1>8. CASE /\ receipt.status = "prepared" /\ SuccessProven
           /\ receipt' = [receipt EXCEPT !.status = "succeeded"]
  <2>1. /\ receipt'.status = "succeeded" /\ receipt'.source = receipt.source
        /\ receipt'.src = receipt.src /\ receipt'.cand = receipt.cand
    BY <1>8 DEF FlashType, Receipt
  <2>2. AtCandidate /\ otaState[selected] = "valid"
    BY <1>8 DEF SlotsInv, SuccessProven, AtSource, FlashType, Receipt
  <2>3. ReceiptInv' /\ SlotsInv'
    BY <1>2, <1>8, <2>1, <2>2 DEF ReceiptInv, SlotsInv, AtCandidate
  <2>4. told = {} /\ (control = "evaluate" => query.receipt.status \notin {"succeeded", "failed"})
    BY <1>8 DEF TellInv, ToldIsDurable, DataType
  <2>5. TellInv'
    BY <1>2, <2>4 DEF TellInv, ToldIsDurable
  <2> QED
    BY <1>4, <1>5, <1>6, <2>3, <2>5
<1> QED
  BY <1>3, <1>7, <1>8

\* A rejected candidate gives way to its confirmed source.
LEMMA RejectStep == IInv /\ Reject => IInv'
<1> SUFFICES ASSUME IInv, Reject PROVE IInv'
  OBVIOUS
<1> USE DEF IInv, TypeOK
<1>1. /\ UNCHANGED <<image, receipt, ghosts>>
      /\ main = "reject"
  BY DEF Reject
<1>2. receipt.status = "prepared" /\ AtCandidate /\ running = selected
  BY <1>1 DEF BootInv, RunInv
<1>3. CASE /\ main' = "halted"
           /\ UNCHANGED <<otaState, selected, running, pendingBoot, needsSuccess, otaPending,
                          claim, controlVars, workerVars>>
  <2>1. FlagType'
    BY <1>3, Zenon DEF FlagType
  <2>2. FlashType' /\ StageType' /\ DataType'
    BY <1>1, <1>3 DEF FlashType, StageType, DataType
  <2>3. ReceiptInv' /\ SlotsInv' /\ RunInv' /\ RequestInv' /\ WorkInv' /\ TellInv'
    BY <1>1, <1>2, <1>3 DEF ReceiptInv, SlotsInv, RunInv, RequestInv, WorkInv, TellInv,
       ToldIsDurable, AtSource, AtCandidate, TargetClean, Blank, BootInv
  <2>4. BootInv'
    BY <1>1, <1>3 DEF BootInv
  <2> QED
    BY <2>1, <2>2, <2>3, <2>4
<1>4. CASE ResetTo(Target, [otaState EXCEPT ![running] = "invalid"])
  <2>1. FlagType'
    BY <1>4, Zenon DEF FlagType, ResetTo
  <2>2. StageType' /\ DataType'
    BY <1>1, <1>4, NoReceiptType DEF StageType, DataType, ResetTo, NoRequest, Result
  <2>3. FlashType' /\ SlotsInv' /\ RunInv'
    BY <1>1, <1>2, <1>4 DEF FlashType, SlotState, Receipt, SlotsInv, RunInv, AtSource,
       AtCandidate, Retired, ResetTo
  <2>4. ReceiptInv' /\ BootInv' /\ RequestInv' /\ WorkInv' /\ TellInv'
    BY <1>1, <1>4 DEF ReceiptInv, BootInv, RequestInv, WorkInv, TellInv, ToldIsDurable, ResetTo
  <2> QED
    BY <2>1, <2>2, <2>3, <2>4
<1> QED
  BY <1>3, <1>4 DEF Reject

-----------------------------------------------------------------------------
(* The control task *)

\* A new intent is registered only over a known firmware set, and names it.
LEMMA RegisterFacts ==
    ASSUME FlashType, NEW op \in Ops, NEW cand \in Images, RegisterCheck(op, cand) = "write"
    PROVE  /\ running = selected /\ otaState[running] = "valid" /\ image[running] \in Images
           /\ receipt.op # op /\ cand # image[running]
           /\ \/ Blank(Target)
              \/ /\ otaState[Target] = "valid" /\ image[Target] \in Images
                 /\ image[Target] \in {SecondFirmware, image[running]}
           /\ Intent(op, cand) \in Receipt
<1>1. FirmwareSetKnown(FALSE) /\ receipt.op # op /\ cand # image[running]
  BY DEF RegisterCheck
<1>2. running = selected /\ otaState[running] = "valid" /\ image[running] \in Images
  BY <1>1 DEF FirmwareSetKnown
<1>3. \/ Blank(Target)
      \/ /\ otaState[Target] = "valid" /\ image[Target] \in Images
         /\ image[Target] \in {SecondFirmware, image[running]}
  BY <1>1 DEF FirmwareSetKnown, HasRollback, SecondFirmware, Blank
<1>4. SecondFirmware \in Images \cup {NoImage}
  BY <1>1 DEF FirmwareSetKnown, HasRollback, SecondFirmware
<1>5. Intent(op, cand) \in Receipt
  BY <1>2, <1>4 DEF Intent, Receipt, FlashType
<1> QED
  BY <1>1, <1>2, <1>3, <1>5

\* A registration leaves the old state, or a new intent at its source.
LEMMA StartStep ==
    ASSUME IInv, NEW op \in Ops, NEW cand \in Images, Start(op, cand)
    PROVE  IInv'
<1> USE DEF IInv, TypeOK
<1>1. /\ RegisterCheck(op, cand) = "write" /\ StartAdmitted
      /\ UNCHANGED <<image, otaState, selected, running, mainVars, query, bootUncertain,
                     worker, result, resets>>
      /\ told' = IF receipt' = receipt THEN told ELSE {}
      /\ started' = IF receipt' = receipt THEN started ELSE started \cup {op}
  BY DEF Start
<1>2. /\ running = selected /\ otaState[running] = "valid" /\ image[running] \in Images
      /\ receipt.op # op /\ cand # image[running]
      /\ \/ Blank(Target)
         \/ /\ otaState[Target] = "valid" /\ image[Target] \in Images
            /\ image[Target] \in {SecondFirmware, image[running]}
      /\ Intent(op, cand) \in Receipt
  BY <1>1, RegisterFacts
<1>3. main = "done" /\ worker = "off" /\ ~otaActive /\ control = "idle"
  BY <1>1 DEF StartAdmitted, BootInv, WorkInv
<1>4. receipt' \in {receipt, Intent(op, cand)} /\ claim' = "ota"
  BY DEF Start, Store, StartUncertain
<1>5. /\ control' \in {"idle", "spawn"}
      /\ control' = "spawn" => /\ otaActive' /\ receipt' = Intent(op, cand)
                               /\ request' = [op |-> op, cand |-> cand]
      /\ control' # "spawn" => ~otaActive' /\ request' = request
  BY <1>3 DEF Start, Store
<1>6. FlagType'
  <2>1. /\ configUncertain' \in {TRUE, configUncertain} /\ otaActive' \in {TRUE, otaActive}
        /\ stageUncertain' \in {FALSE, stageUncertain}
    BY DEF Start, StartUncertain
  <2> QED
    BY <1>1, <2>1, Zenon DEF FlagType
<1>7. FlashType' /\ StageType' /\ DataType'
  <2>1. FlashType'
    BY <1>1, <1>2, <1>4 DEF FlashType
  <2>2. StageType'
    BY <1>1, <1>4, <1>5 DEF StageType
  <2>3. told' \subseteq {"succeeded", "failed"} /\ started' \subseteq Ops
    BY <1>1 DEF DataType
  <2>4. DataType'
    BY <1>1, <1>5, <2>3 DEF DataType
  <2> QED
    BY <2>1, <2>2, <2>4
<1>8. RunInv' /\ BootInv'
  BY <1>1, <1>2, <1>3 DEF RunInv, BootInv
<1>9. CASE receipt' = receipt
  <2>1. control' # "spawn"
    BY <1>2, <1>5, <1>9 DEF Intent
  <2>2. ReceiptInv' /\ SlotsInv' /\ TellInv'
    BY <1>1, <1>3, <1>5, <1>9, <2>1 DEF ReceiptInv, SlotsInv, TellInv, ToldIsDurable, AtSource,
       AtCandidate, TargetClean, Blank
  <2>3. RequestInv' /\ WorkInv'
    BY <1>1, <1>3, <1>5, <2>1 DEF RequestInv, WorkInv
  <2> QED
    BY <1>6, <1>7, <1>8, <2>2, <2>3
<1>10. CASE receipt' = Intent(op, cand)
  <2>1. /\ receipt'.status = "prepared" /\ receipt'.op = op /\ receipt'.source = running
        /\ receipt'.cand = cand /\ receipt'.src = image[running]
        /\ receipt'.inactive = SecondFirmware
    BY <1>10 DEF Intent
  <2>2. AtSource' /\ TargetClean'
    BY <1>1, <1>2, <2>1 DEF AtSource, TargetClean, Blank
  <2>3. ReceiptInv' /\ SlotsInv'
    BY <1>1, <1>2, <2>1, <2>2 DEF ReceiptInv, SlotsInv, TargetClean, Blank
  <2>4. told' = {}
    BY <1>1, <1>2, <2>1
  <2>5. TellInv'
    BY <1>5, <2>4 DEF TellInv, ToldIsDurable
  <2>6. RequestInv' /\ WorkInv'
    BY <1>1, <1>3, <1>4, <1>5, <2>1, <2>2 DEF RequestInv, WorkInv
  <2> QED
    BY <1>6, <1>7, <1>8, <2>3, <2>5, <2>6
<1> QED
  BY <1>4, <1>9, <1>10

\* A definite failure is recorded at the proven source, or the claim stays.
LEMMA ConcludeStep ==
    ASSUME IInv, NEW error \in Failure, ConcludeFailure(error),
           receipt.status = "prepared", AtSource, TargetClean, main = "done",
           control' = "idle", worker' = "off",
           UNCHANGED <<image, otaState, selected, running, mainVars, query, bootUncertain,
                       result, stageUncertain, started, resets>>
    PROVE  IInv'
<1> USE DEF IInv, TypeOK
<1>1. PICK saved \in BOOLEAN :
        /\ RecordFailure(request.op, error, saved)
        /\ claim' = IF saved THEN "none" ELSE claim
        /\ told' = IF saved THEN told \cup {"failed"} ELSE told
        /\ configUncertain' = (configUncertain \/ ~saved)
        /\ otaActive' = FALSE /\ request' = NoRequest
  BY DEF ConcludeFailure
<1>2. request.op \in Ops \cup {NoOp}
  BY DEF DataType
<1>3. /\ receipt' \in Receipt
      /\ saved => receipt'.status = "failed"
      /\ receipt' = receipt \/ receipt'.status = "failed"
      /\ receipt'.op = receipt.op /\ receipt'.source = receipt.source
      /\ receipt'.src = receipt.src /\ receipt'.cand = receipt.cand
      /\ receipt'.inactive = receipt.inactive
  BY <1>1, <1>2, RecordFailureFacts
<1>4. told = {} /\ receipt'.status \in {"prepared", "failed"} /\ running = selected
  BY <1>3 DEF TellInv, ToldIsDurable, DataType, RunInv, AtSource
<1>5. FlagType'
  BY <1>1, Zenon DEF FlagType
<1>6. FlashType' /\ StageType' /\ DataType'
  BY <1>1, <1>3 DEF FlashType, StageType, DataType, NoRequest
<1>7. AtSource' /\ TargetClean'
  BY <1>3 DEF AtSource, TargetClean, Blank
<1>8. ReceiptInv' /\ SlotsInv' /\ RunInv'
  BY <1>3, <1>4, <1>7 DEF ReceiptInv, SlotsInv, RunInv, TargetClean, Blank
<1>9. BootInv' /\ RequestInv' /\ WorkInv'
  BY <1>1 DEF BootInv, RequestInv, WorkInv
<1>10. TellInv'
  BY <1>1, <1>3, <1>4 DEF TellInv, ToldIsDurable
<1> QED
  BY <1>5, <1>6, <1>8, <1>9, <1>10

\* A request without a worker has changed nothing but its intent.
LEMMA SpawnFailedStep == IInv /\ SpawnFailed => IInv'
<1> SUFFICES ASSUME IInv, SpawnFailed PROVE IInv'
  OBVIOUS
<1>1. /\ receipt.status = "prepared" /\ AtSource /\ TargetClean /\ main = "done"
      /\ worker = "off"
  BY DEF IInv, SpawnFailed, RequestInv, WorkInv
<1>2. "resource" \in Failure
  BY DEF Failure
<1> QED
  BY <1>1, <1>2, ConcludeStep DEF SpawnFailed

\* A worker that failed for certain has left its target clean.
LEMMA PollFailedStep == IInv /\ PollFailed => IInv'
<1> SUFFICES ASSUME IInv, PollFailed PROVE IInv'
  OBVIOUS
<1>1. receipt.status = "prepared" /\ AtSource /\ TargetClean /\ main = "done"
  BY DEF IInv, PollFailed, RequestInv, WorkInv
<1> QED
  BY <1>1, ConcludeStep DEF PollFailed

\* A reset by the control task or by a power failure.
LEMMA RestartStep == IInv /\ (PollSelected \/ Reset) => IInv'
<1>1. IInv /\ PollSelected => IInv'
  BY BootloaderStep DEF PollSelected, IInv, TypeOK, DataType
<1>2. IInv /\ Reset => IInv'
  BY BootloaderStep DEF Reset, IInv, TypeOK, DataType
<1> QED
  BY <1>1, <1>2

\* A terminal answer repeats a terminal receipt, which no step has changed
\* since it was loaded.
LEMMA QueryEvaluateStep == IInv /\ QueryEvaluate => IInv'
<1> SUFFICES ASSUME IInv, QueryEvaluate PROVE IInv'
  OBVIOUS
<1> USE DEF IInv, TypeOK, QueryEvaluate
<1>1. FlagType'
  BY Zenon DEF FlagType
<1>2. FlashType' /\ StageType' /\ DataType'
  BY NoReceiptType DEF FlashType, StageType, DataType
<1>3. ReceiptInv' /\ SlotsInv' /\ RunInv' /\ BootInv' /\ RequestInv' /\ WorkInv'
  BY DEF ReceiptInv, SlotsInv, RunInv, BootInv, RequestInv, WorkInv, AtSource, AtCandidate,
     TargetClean, Blank
<1>4. LET answer == Evaluate(query.receipt, query.active)
      IN  answer \in {"succeeded", "failed"} => query.receipt.status = answer
  BY DEF Evaluate
<1>5. TellInv'
  BY <1>4 DEF TellInv, ToldIsDurable
<1> QED
  BY <1>1, <1>2, <1>3, <1>5

-----------------------------------------------------------------------------
(* The worker *)

\* While the worker is at work the device runs the source of its intent.
LEMMA WorkingFacts ==
    ASSUME IInv, worker \notin {"off", "done"}
    PROVE  /\ otaActive /\ claim = "ota" /\ main = "done"
           /\ control \notin {"spawn", "spawnFailed"}
           /\ receipt.status = "prepared" /\ receipt.cand = request.cand
           /\ running = receipt.source /\ running = selected /\ AtSource
           /\ receipt.src \in Images /\ receipt.cand \in Images
           /\ otaState[Target] \in Retired \cup {"valid"} /\ request.cand \in Content
<1> USE DEF IInv, TypeOK
<1>1. /\ otaActive /\ claim = "ota" /\ main = "done"
      /\ control \notin {"spawn", "spawnFailed"}
      /\ receipt.status = "prepared" /\ receipt.cand = request.cand
      /\ running = receipt.source /\ AtSource
  BY DEF WorkInv, RequestInv
<1>2. running = selected /\ receipt.src \in Images /\ receipt.cand \in Images
  BY <1>1 DEF AtSource, ReceiptInv
<1>3. otaState[Target] \in Retired \cup {"valid"} /\ request.cand \in Content
  BY <1>1, <1>2 DEF SlotsInv, AtCandidate, FlashType, Content
<1> QED
  BY <1>1, <1>2, <1>3

\* What a worker step must do to the slots and to itself.
LEMMA TargetStep ==
    ASSUME IInv, worker \notin {"off", "done"},
           UNCHANGED <<selected, receipt, running, mainVars, claim, controlVars, ghosts>>,
           image' \in [Slot -> Content], otaState' \in [Slot -> SlotState],
           image'[running] = image[running], otaState'[running] = otaState[running],
           otaState'[Target] \in Retired \cup {otaState[Target]},
           worker' \in {"begin", "boundary", "cleanup", "done"},
           result' \in Result, stageUncertain' \in BOOLEAN,
           worker' # "done" => otaState'[Target] \in Retired,
           worker' = "begin" => image'[Target] = Erased,
           worker' = "boundary" => image'[Target] = request.cand,
           worker' = "done" /\ ~stageUncertain' /\ result' \in Failure =>
               otaState'[Target] \in Retired /\ image'[Target] = Erased
    PROVE  IInv'
<1> USE DEF IInv, TypeOK
<1>1. /\ otaActive /\ claim = "ota" /\ main = "done"
      /\ control \notin {"spawn", "spawnFailed"}
      /\ receipt.status = "prepared" /\ receipt.cand = request.cand
      /\ running = receipt.source /\ running = selected /\ AtSource
      /\ otaState[Target] \in Retired \cup {"valid"}
  BY WorkingFacts
<1>2. FlagType'
  BY Zenon DEF FlagType
<1>3. FlashType' /\ StageType' /\ DataType'
  BY DEF FlashType, StageType, DataType
<1>4. AtSource'
  BY <1>1 DEF AtSource
<1>5. ReceiptInv' /\ SlotsInv' /\ RunInv'
  BY <1>1, <1>4 DEF ReceiptInv, SlotsInv, RunInv, AtSource
<1>6. BootInv' /\ RequestInv' /\ TellInv'
  BY <1>1 DEF BootInv, RequestInv, TellInv, ToldIsDurable
<1>7. worker' = "done" /\ ~stageUncertain' /\ result' \in Failure => TargetClean'
  BY <1>1 DEF TargetClean, Blank
<1>8. WorkInv'
  BY <1>1, <1>4, <1>7 DEF WorkInv, Blank
<1> QED
  BY <1>2, <1>3, <1>5, <1>6, <1>8

\* Retirement leaves a blank target, or the outcome is uncertain.
LEMMA WorkerRetireStep == IInv /\ WorkerRetire => IInv'
<1> SUFFICES ASSUME IInv, WorkerRetire PROVE IInv'
  OBVIOUS
<1>1. PICK ok \in BOOLEAN :
        /\ RetireInactive(receipt.src, ok)
        /\ IF ok THEN worker' = "begin" /\ UNCHANGED <<result, stageUncertain>>
                 ELSE WorkerUncertain /\ result' \in Result \ {"ok"}
  BY DEF WorkerRetire
<1>2. /\ image' \in [Slot -> Content] /\ otaState' \in [Slot -> SlotState]
      /\ image'[running] = image[running] /\ otaState'[running] = otaState[running]
      /\ otaState'[Target] \in Retired \cup {otaState[Target]}
      /\ ok => otaState'[Target] \in Retired /\ image'[Target] = Erased
  BY <1>1, RetireFacts DEF IInv, TypeOK
<1>3. result' \in Result /\ stageUncertain' \in BOOLEAN
  <2>1. result' \in Result /\ stageUncertain' \in {stageUncertain, TRUE}
    BY <1>1 DEF IInv, TypeOK, StageType, WorkerUncertain
  <2> QED
    BY <2>1, Zenon DEF IInv, TypeOK, FlagType
<1>4. /\ worker' \in {"begin", "done"}
      /\ worker' = "begin" => ok
      /\ worker' = "done" => stageUncertain'
  BY <1>1 DEF WorkerUncertain
<1>5. worker = "retire"
      /\ UNCHANGED <<selected, receipt, running, mainVars, claim, controlVars, ghosts>>
  BY DEF WorkerRetire
<1> QED
  BY <1>2, <1>3, <1>4, <1>5, TargetStep

\* The write and its verification change the retired target only.
LEMMA WorkerPrepareStep == IInv /\ WorkerPrepare => IInv'
<1> SUFFICES ASSUME IInv, WorkerPrepare PROVE IInv'
  OBVIOUS
<1>1. worker = "prepare"
      /\ UNCHANGED <<otaState, selected, receipt, running, mainVars, claim, controlVars, ghosts>>
  BY DEF WorkerPrepare
<1>2. request.cand \in Content /\ otaState[Target] \in Retired
  BY <1>1, WorkingFacts DEF IInv, WorkInv
<1>3. PICK c \in Content :
        /\ image' = [image EXCEPT ![Target] = c]
        /\ worker' = "boundary" => c = request.cand
  BY <1>2 DEF WorkerPrepare, WorkerUncertain
<1>4. image' \in [Slot -> Content] /\ image'[running] = image[running] /\ image'[Target] = c
  BY <1>3 DEF IInv, TypeOK, FlashType
<1>5. /\ worker' \in {"boundary", "cleanup", "done"} /\ (worker' = "done" => stageUncertain')
      /\ result' \in Result /\ stageUncertain' \in {stageUncertain, TRUE}
  BY DEF WorkerPrepare, WorkerUncertain, IInv, TypeOK, StageType, Result
<1>6. stageUncertain' \in BOOLEAN
  BY <1>5, Zenon DEF IInv, TypeOK, FlagType
<1> QED
  BY <1>1, <1>2, <1>3, <1>4, <1>5, <1>6, TargetStep DEF IInv, TypeOK, FlashType

\* A cleaned-up failure leaves a blank target, or the outcome is uncertain.
LEMMA WorkerCleanupStep == IInv /\ WorkerCleanup => IInv'
<1> SUFFICES ASSUME IInv, WorkerCleanup PROVE IInv'
  OBVIOUS
<1>1. PICK ok \in BOOLEAN :
        /\ RetireInactive(receipt.src, ok)
        /\ IF ok THEN worker' = "done" /\ UNCHANGED stageUncertain ELSE WorkerUncertain
  BY DEF WorkerCleanup
<1>2. /\ image' \in [Slot -> Content] /\ otaState' \in [Slot -> SlotState]
      /\ image'[running] = image[running] /\ otaState'[running] = otaState[running]
      /\ otaState'[Target] \in Retired \cup {otaState[Target]}
      /\ ok => otaState'[Target] \in Retired /\ image'[Target] = Erased
  BY <1>1, RetireFacts DEF IInv, TypeOK
<1>3. worker' = "done" /\ stageUncertain' \in {stageUncertain, TRUE} /\ (~stageUncertain' => ok)
  BY <1>1 DEF WorkerUncertain
<1>4. stageUncertain' \in BOOLEAN
  BY <1>3, Zenon DEF IInv, TypeOK, FlagType
<1>5. /\ worker = "cleanup" /\ result' = result
      /\ UNCHANGED <<selected, receipt, running, mainVars, claim, controlVars, ghosts>>
  BY DEF WorkerCleanup
<1>6. result' \in Result
  BY <1>5 DEF IInv, TypeOK, StageType
<1> QED
  BY <1>2, <1>3, <1>4, <1>5, <1>6, TargetStep

\* A selected candidate is complete, and its source stays its rollback.
LEMMA WorkerSelectStep == IInv /\ WorkerSelect => IInv'
<1> SUFFICES ASSUME IInv, WorkerSelect PROVE IInv'
  OBVIOUS
<1>1. /\ worker = "select"
      /\ UNCHANGED <<image, receipt, running, mainVars, claim, controlVars, ghosts>>
  BY DEF WorkerSelect
<1>2. /\ otaActive /\ claim = "ota" /\ main = "done"
      /\ control \notin {"spawn", "spawnFailed"}
      /\ receipt.status = "prepared" /\ receipt.cand = request.cand
      /\ running = receipt.source /\ running = selected /\ AtSource
      /\ image[Target] = request.cand /\ otaState[Target] \in Retired
  BY <1>1, WorkingFacts DEF IInv, WorkInv
<1>3. /\ worker' \in {"cleanup", "done"} /\ result' \in Result
      /\ stageUncertain' \in {stageUncertain, TRUE}
      /\ worker' = "done" => stageUncertain' \/ result' = "ok"
  BY DEF WorkerSelect, WorkerUncertain, IInv, TypeOK, StageType, Result
<1>4. stageUncertain' \in BOOLEAN
  BY <1>3, Zenon DEF IInv, TypeOK, FlagType
<1>5. CASE UNCHANGED <<otaState, selected>>
  <2>1. result' = "ok" => result' \notin Failure
    BY DEF Failure
  <2> QED
    BY <1>1, <1>2, <1>3, <1>4, <1>5, <2>1, TargetStep DEF IInv, TypeOK, FlashType
<1>6. CASE worker' = "done" /\ otaState' = [otaState EXCEPT ![Target] = "new"] /\ selected' = Target
  <2> USE DEF IInv, TypeOK
  <2>1. /\ otaState' \in [Slot -> SlotState] /\ otaState'[Target] = "new"
        /\ otaState'[running] = otaState[running] /\ selected' # running
    BY <1>6 DEF FlashType, SlotState
  <2>2. FlagType'
    BY <1>1, <1>4, Zenon DEF FlagType
  <2>3. FlashType' /\ StageType' /\ DataType'
    BY <1>1, <1>3, <1>6, <2>1 DEF FlashType, StageType, DataType
  <2>4. AtCandidate'
    BY <1>1, <1>2, <1>6, <2>1 DEF AtCandidate, AtSource
  <2>5. ReceiptInv' /\ SlotsInv' /\ RunInv'
    BY <1>1, <1>2, <1>3, <1>6, <2>1, <2>4 DEF ReceiptInv, SlotsInv, RunInv
  <2>6. BootInv' /\ RequestInv' /\ TellInv'
    BY <1>1, <1>2 DEF BootInv, RequestInv, TellInv, ToldIsDurable
  <2>7. WorkInv'
    BY <1>1, <1>2, <1>3, <1>6 DEF WorkInv, Failure
  <2> QED
    BY <2>2, <2>3, <2>5, <2>6, <2>7
<1> QED
  BY <1>5, <1>6 DEF WorkerSelect, WorkerUncertain

-----------------------------------------------------------------------------
(* The specification *)

\* A device from the wired assembly.
LEMMA InitIInv == Init => IInv
<1> SUFFICES ASSUME Init PROVE IInv
  OBVIOUS
<1>1. FlagType
  BY Zenon DEF Init, FlagType
<1>2. FlashType /\ StageType /\ DataType
  BY NoReceiptType DEF Init, FlashType, StageType, DataType, Content, SlotState, Slot, NoRequest,
     Result
<1>3. ReceiptInv /\ SlotsInv /\ RunInv /\ BootInv /\ RequestInv /\ WorkInv /\ TellInv
  BY NoReceiptType DEF Init, ReceiptInv, SlotsInv, RunInv, BootInv, RequestInv, WorkInv, TellInv,
     ToldIsDurable, Slot
<1> QED
  BY <1>1, <1>2, <1>3 DEF IInv, TypeOK

\* Every step of every task keeps the invariant.
LEMMA NextIInv == IInv /\ [Next]_vars => IInv'
<1>1. IInv /\ MainStep => IInv'
  BY InspectStep, ChecksStep, ReconcileStep, ReconcileErrorStep, ReconcileRetireStep,
     ReconcileRecordStep, WindowStep, ReadbackStep, SucceedReceiptStep, ReleaseBootClaimStep,
     UngateStep, RejectStep DEF MainStep
<1>2. IInv /\ (StartUnreadable \/ Spawn \/ SpawnFailed \/ PollOta \/ QueryLoad \/ QueryEvaluate)
        => IInv'
  BY StartUnreadableStep, SpawnStep, SpawnFailedStep, PollUncertainStep, RestartStep,
     PollFailedStep, QueryLoadStep, QueryEvaluateStep DEF PollOta
<1>3. IInv /\ WorkerStep => IInv'
  BY WorkerLoadStep, WorkerRetireStep, WorkerBeginStep, WorkerPrepareStep, WorkerBoundaryStep,
     WorkerSelectStep, WorkerCleanupStep DEF WorkerStep
<1>4. ASSUME IInv, NEW op \in Ops, NEW cand \in Images, Start(op, cand) PROVE IInv'
  BY <1>4, StartStep
<1>5. IInv /\ UNCHANGED vars => IInv'
  <2> SUFFICES ASSUME IInv, UNCHANGED vars PROVE IInv'
    OBVIOUS
  <2> USE DEF IInv, TypeOK
  <2>1. FlagType'
    BY Zenon DEF FlagType
  <2>2. FlashType' /\ StageType' /\ DataType'
    BY DEF FlashType, StageType, DataType
  <2>3. ReceiptInv' /\ SlotsInv' /\ RunInv' /\ BootInv' /\ RequestInv' /\ WorkInv' /\ TellInv'
    BY DEF ReceiptInv, SlotsInv, RunInv, BootInv, RequestInv, WorkInv, TellInv, ToldIsDurable,
       AtSource, AtCandidate, TargetClean, Blank
  <2> QED
    BY <2>1, <2>2, <2>3
<1> QED
  BY <1>1, <1>2, <1>3, <1>4, <1>5, RestartStep DEF Next

\* The invariant holds in every state that any device can reach.
THEOREM OtaInvariant == Spec => []IInv
BY InitIInv, NextIInv, PTL DEF Spec

\* The variables keep their types: in particular a decoded receipt, a
\* request and an answer are always well formed.
THEOREM OtaTypes == Spec => []TypeOK
BY OtaInvariant, PTL DEF IInv

\* BootChoice and otadata: whatever step of an upgrade, a rollback or a
\* recovery a reset interrupts, the bootloader finds a complete image, and a
\* candidate on trial has its recorded source as confirmed fallback.
THEOREM OtaAlwaysBoots == Spec => []AlwaysBoots
<1>1. IInv => AlwaysBoots
  <2> SUFFICES ASSUME IInv PROVE AlwaysBoots
    OBVIOUS
  <2> USE DEF IInv, TypeOK
  <2>1. /\ otaState[selected] \in {"new", "pending", "valid"} /\ image[selected] \in Images
        /\ otaState[selected] \in {"new", "pending"} => receipt.status = "prepared" /\ AtCandidate
    BY SelectedFacts
  <2>2. otaState[selected] \in {"new", "pending"} =>
          /\ otaState[Other(selected)] = "valid" /\ image[Other(selected)] = receipt.src
          /\ receipt.src \in Images
    BY <2>1 DEF AtCandidate, ReceiptInv, FlashType, Receipt
  <2> QED
    BY <2>1, <2>2 DEF AlwaysBoots, BootChoice
<1> QED
  BY <1>1, OtaInvariant, PTL

\* reconcile_interrupted_ota: every boot finds one of the cases it accepts.
THEOREM OtaBootExplained == Spec => []BootExplained
<1>1. IInv => BootExplained
  <2> SUFFICES ASSUME IInv, main = "reconcile"
               PROVE  NoOperation \/ KnownFailure \/ KnownCandidate \/ Interrupted
    BY DEF BootExplained
  <2> USE DEF IInv, TypeOK
  <2>1. running = selected /\ otaState[selected] # "new"
    BY DEF RunInv
  <2>2. CASE receipt.status = "none"
    BY <2>1, <2>2 DEF SlotsInv, NoOperation, FirmwareSetKnown, HasRollback, FlashType
  <2>3. CASE receipt.status = "failed"
    BY <2>1, <2>3 DEF SlotsInv, AtSource, KnownFailure, Evaluate, SourceProven
  <2>4. CASE receipt.status \in {"prepared", "succeeded"} /\ AtCandidate
    <3>1. /\ otaState[running] \in {"pending", "valid"} /\ image[running] = receipt.cand
          /\ receipt.status = "succeeded" => otaState[running] = "valid"
          /\ running = Fill(receipt)
      BY <2>1, <2>4, SelectedFacts DEF SlotsInv, AtCandidate
    <3>2. /\ otaState[Target] = "valid" /\ image[Target] = receipt.src
          /\ receipt.src \in Images /\ receipt.cand \in Images /\ receipt.src # receipt.cand
      BY <2>4, <3>1 DEF AtCandidate, ReceiptInv, FlashType, Receipt
    <3>3. FirmwareSetKnown(otaState[running] = "pending") /\ SecondFirmware = receipt.src
      BY <2>1, <3>1, <3>2 DEF FirmwareSetKnown, SecondFirmware, HasRollback
    <3> QED
      BY <2>1, <2>4, <3>1, <3>3 DEF KnownCandidate, CandidateProven
  <2>5. CASE receipt.status = "prepared" /\ AtSource
    BY <2>1, <2>5 DEF Interrupted, AtSource
  <2> QED
    BY <2>2, <2>3, <2>4, <2>5 DEF SlotsInv, FlashType, Receipt
<1> QED
  BY <1>1, OtaInvariant, PTL

\* record_failure and record_success: a terminal receipt is true of the slots.
THEOREM OtaTerminalTruth == Spec => []TerminalTruth
<1>1. IInv => TerminalTruth
  BY DEF IInv, SlotsInv, TerminalTruth, AtSource, AtCandidate, TargetClean, Blank
<1> QED
  BY <1>1, OtaInvariant, PTL

\* ota.result and poll_ota: what was told is what is recorded.
THEOREM OtaToldIsDurable == Spec => []ToldIsDurable
BY OtaInvariant, PTL DEF IInv, TellInv

\* ota_task: a worker at work owns the upgrade and serves the recorded intent.
THEOREM OtaWorkerOwnsIntent == Spec => []WorkerOwnsIntent
<1>1. IInv => WorkerOwnsIntent
  BY DEF IInv, WorkerOwnsIntent, WorkInv, RequestInv
<1> QED
  BY <1>1, OtaInvariant, PTL

\* eota_retire_inactive and eota_prepare run only under a durable intent for
\* the slot they change.
THEOREM OtaIntentBeforeWrite == Spec => IntentBeforeWrite
<1> DEFINE Written == \A s \in Slot : image'[s] # image[s] =>
                        receipt.status = "prepared" /\ s = Fill(receipt)
<1>1. ASSUME IInv, receipt.status = "prepared", running = receipt.source,
             image'[running] = image[running]
      PROVE  Written
  BY <1>1 DEF IInv, TypeOK, FlashType
<1>2. IInv /\ ReconcileRetire => Written
  <2> SUFFICES ASSUME IInv, ReconcileRetire PROVE Written
    OBVIOUS
  <2>1. image'[running] = image[running]
    BY RetireFacts DEF ReconcileRetire, IInv, TypeOK
  <2>2. receipt.status = "prepared" /\ running = receipt.source
    BY DEF ReconcileRetire, IInv, TypeOK, BootInv, RunInv, AtSource
  <2> QED
    BY <1>1, <2>1, <2>2
<1>3. IInv /\ (WorkerRetire \/ WorkerPrepare \/ WorkerCleanup) => Written
  <2> SUFFICES ASSUME IInv, WorkerRetire \/ WorkerPrepare \/ WorkerCleanup PROVE Written
    OBVIOUS
  <2>1. receipt.status = "prepared" /\ running = receipt.source
    BY WorkingFacts DEF WorkerRetire, WorkerPrepare, WorkerCleanup
  <2>2. WorkerRetire \/ WorkerCleanup => image'[running] = image[running]
    BY RetireFacts DEF WorkerRetire, WorkerCleanup, IInv, TypeOK
  <2>3. WorkerPrepare => image'[running] = image[running]
    BY DEF WorkerPrepare, IInv, TypeOK, FlashType
  <2> QED
    BY <1>1, <2>1, <2>2, <2>3
<1>4. IInv /\ [Next]_vars => Written
  <2>1. MainStep => ReconcileRetire \/ UNCHANGED image
    BY DEF MainStep, Inspect, Checks, Reconcile, ReconcileError, ReconcileRecord, Window,
       Readback, SucceedReceipt, ReleaseBootClaim, Ungate, Reject
  <2>2. WorkerStep => WorkerRetire \/ WorkerPrepare \/ WorkerCleanup \/ UNCHANGED image
    BY DEF WorkerStep, WorkerLoad, WorkerBegin, WorkerBoundary, WorkerSelect
  <2>3. StartUnreadable \/ Spawn \/ SpawnFailed \/ PollOta \/ QueryLoad \/ QueryEvaluate \/ Reset
          => UNCHANGED image
    BY DEF StartUnreadable, Spawn, SpawnFailed, PollOta, PollUncertain, PollSelected, PollFailed,
       QueryLoad, QueryEvaluate, Reset
  <2>4. ASSUME NEW op \in Ops, NEW cand \in Images, Start(op, cand) PROVE UNCHANGED image
    BY <2>4 DEF Start
  <2> QED
    BY <1>2, <1>3, <2>1, <2>2, <2>3, <2>4 DEF Next
<1> QED
  BY <1>4, OtaInvariant, PTL DEF IntentBeforeWrite, Spec

\* record_failure, record_success and register: a recorded result gives way
\* only to the intent of another operation.
THEOREM OtaResultIsFinal == Spec => ResultIsFinal
<1> DEFINE Final == receipt.status \in {"succeeded", "failed"} =>
                      \/ receipt' = receipt
                      \/ receipt'.op # receipt.op /\ receipt'.status = "prepared"
<1>1. IInv /\ (ReconcileRecord \/ SpawnFailed \/ PollFailed) => Final
  <2>1. ASSUME IInv, NEW error \in Failure, NEW op \in Ops \cup {NoOp}, NEW saved \in BOOLEAN,
               RecordFailure(op, error, saved)
        PROVE  Final
    BY <2>1, RecordFailureFacts DEF IInv, TypeOK
  <2>2. IInv /\ ReconcileRecord => Final
    BY <2>1 DEF ReconcileRecord, IInv, TypeOK, FlashType, Receipt, Failure
  <2>3. IInv /\ (SpawnFailed \/ PollFailed) => Final
    BY <2>1 DEF SpawnFailed, PollFailed, ConcludeFailure, IInv, TypeOK, DataType, Failure
  <2> QED
    BY <2>2, <2>3
<1>2. IInv /\ SucceedReceipt => Final
  BY RecordSuccessFacts DEF SucceedReceipt, IInv, TypeOK
<1>3. ASSUME IInv, NEW op \in Ops, NEW cand \in Images, Start(op, cand) PROVE Final
  <2>1. receipt' \in {receipt, Intent(op, cand)} /\ receipt.op # op
    BY <1>3, RegisterFacts DEF Start, Store, IInv, TypeOK
  <2> QED
    BY <2>1 DEF Intent
<1>4. IInv /\ [Next]_vars => Final
  <2>1. MainStep => ReconcileRecord \/ SucceedReceipt \/ UNCHANGED receipt
    BY DEF MainStep, Inspect, Checks, Reconcile, ReconcileError, ReconcileRetire, Window,
       Readback, ReleaseBootClaim, Ungate, Reject
  <2>2. WorkerStep => UNCHANGED receipt
    BY DEF WorkerStep, WorkerLoad, WorkerRetire, WorkerBegin, WorkerPrepare, WorkerBoundary,
       WorkerSelect, WorkerCleanup
  <2>3. StartUnreadable \/ Spawn \/ PollOta \/ QueryLoad \/ QueryEvaluate \/ Reset
          => PollFailed \/ UNCHANGED receipt
    BY DEF StartUnreadable, Spawn, PollOta, PollUncertain, PollSelected, QueryLoad,
       QueryEvaluate, Reset
  <2> QED
    BY <1>1, <1>2, <1>3, <2>1, <2>2, <2>3 DEF Next
<1> QED
  BY <1>4, OtaInvariant, PTL DEF ResultIsFinal, Spec
=============================================================================
