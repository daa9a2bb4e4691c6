------------------------- MODULE ControlPlaneProofs -------------------------
(***************************************************************************)
(* The control plane keeps its promises for any requests, settings, table  *)
(* size, deadlines and number of boots: a request takes effect at most     *)
(* once, a running request has one owner, what the device runs is what it  *)
(* stores, and an answer is true of the flash and final.                   *)
(***************************************************************************)
EXTENDS ControlPlane, TLAPS

-----------------------------------------------------------------------------
(* The inductive invariant *)

FlagType == otaPending \in BOOLEAN /\ configUncertain \in BOOLEAN /\ bootUncertain \in BOOLEAN

DataType ==
    /\ stored \in Config /\ config \in Config
    /\ boot \in 0 .. MaxBoots /\ now \in 0 .. MaxNow
    /\ ota \in Ids \cup {NoId}
    /\ selection \in Settings /\ link \in {"waiting", "ready", "failed"}
    /\ business \in {"idle", "paused"}
    /\ written \subseteq Requests

TableType == table \in [Ids -> Entry \cup {Free}]
OwnerType == trial \in Trial \cup {NoTrial} /\ restart \in Restart \cup {NoRestart}
CountType == performed \in [Ids \X (0 .. MaxBoots) -> 0 .. 2]

\* The table holds requests of this boot, each under its own identifier.
KeyInv == \A i \in Ids : table[i] # Free => table[i].request.id = i /\ table[i].request.boot = boot

\* Only a request that is in the table, or one of an earlier boot, has taken
\* effect; this is what makes a second admission impossible.
CountInv ==
    \A i \in Ids, t \in 0 .. MaxBoots :
        /\ performed[<<i, t>>] <= 1
        /\ performed[<<i, t>>] = 1 => t < boot \/ (t = boot /\ table[i] # Free)

\* A stored candidate is in the table, or of an earlier boot; as long as it is
\* running it is the trial's, and its commit is not finished.
WrittenInv ==
    /\ \A r \in written : r.boot < boot \/ (table[r.id] # Free /\ table[r.id].request = r)
    /\ \A i \in Ids : table[i] # Free /\ table[i].request \in written =>
         table[i].state # "running" \/ (trial.id = i /\ trial.stage = "written")

\* The trial's candidate is selected and may get a revision of its own.
TrialInv ==
    TrialActive =>
        /\ trial.candidate.revision < MaxRevision
        /\ selection = trial.candidate.setting
        /\ trial.stage = "written" /\ stored = Advanced(trial.candidate) =>
             table[trial.id].request \in written

\* The bound on boots leaves room for a pending restart.
BootInv == RestartPending => boot < MaxBoots

IInv ==
    /\ FlagType /\ DataType /\ TableType /\ OwnerType /\ CountType
    /\ RunningIsOwned /\ ConfigIsCommitted /\ OutcomeIsTrue
    /\ KeyInv /\ CountInv /\ WrittenInv /\ TrialInv /\ BootInv

-----------------------------------------------------------------------------
(* Lemmas *)

USE ControlAssumption DEF flags, wifi, ghosts, vars

\* What the shapes of the records say.
LEMMA Shapes ==
    ASSUME OwnerType, TableType
    PROVE  /\ TrialActive <=> trial.id # NoId
           /\ TrialActive => trial \in Trial
           /\ RestartPending => restart \in Restart
           /\ NoTrial.id = NoId /\ NoTrial.stage = "off" /\ NoRestart.id = NoId
           /\ Free.state = "free" /\ Free \notin Entry
           /\ \A i \in Ids : table[i] # Free => table[i] \in Entry
           /\ \A i \in Ids : table[i].state = "running" => table[i] # Free
BY DEF OwnerType, TableType, TrialActive, RestartPending, Trial, NoTrial, Restart, NoRestart,
   Entry, Free, States

\* Admission is for a request of this boot whose identifier is unused.
LEMMA AdmitFacts ==
    ASSUME NEW r \in Requests, NEW mqtt \in BOOLEAN, Admitted(r, mqtt)
    PROVE  /\ r \in Request /\ r.id \in Ids /\ r.boot = boot /\ r.boot \in 0 .. MaxBoots
           /\ table[r.id] = Free /\ trial.stage # "written" /\ boot < MaxBoots
           /\ r.revision \in 0 .. MaxRevision /\ r.setting \in Settings
BY DEF Admitted, Admit, Request

\* save_outcome for a new request touches its own entry only.
LEMMA RecordFacts ==
    ASSUME TableType, NEW r \in Requests, r.id \in Ids, NEW state \in States, Record(r, state)
    PROVE  /\ TableType'
           /\ table'[r.id] # Free /\ table'[r.id].state = state /\ table'[r.id].request = r
           /\ \A i \in Ids : i # r.id => table'[i] = table[i]
<1>1. [state |-> state, request |-> r] \in Entry /\ [state |-> state, request |-> r] # Free
  BY DEF Entry, Free, States
<1> QED
  BY <1>1 DEF Record, TableType

\* save_outcome for a running request changes its state only.
LEMMA SettleFacts ==
    ASSUME TableType, NEW i \in Ids, table[i] # Free, NEW state \in States, Settle(i, state)
    PROVE  /\ TableType'
           /\ table'[i] # Free /\ table'[i].state = state /\ table'[i].request = table[i].request
           /\ \A j \in Ids : j # i => table'[j] = table[j]
<1>1. table[i] \in Entry
  BY DEF TableType
<1>2. [table[i] EXCEPT !.state = state] \in Entry
      /\ [table[i] EXCEPT !.state = state].state = state
      /\ [table[i] EXCEPT !.state = state].request = table[i].request
  BY <1>1 DEF Entry
<1>3. Free \notin Entry
  BY DEF Free, Entry, States
<1> QED
  BY <1>2, <1>3 DEF Settle, TableType

\* A request that takes effect is counted under its identifier and boot.
LEMMA PerformedFacts ==
    ASSUME CountType, CountInv, NEW r \in Requests, r.id \in Ids, r.boot = boot,
           r.boot \in 0 .. MaxBoots, table[r.id] = Free, Performed(r)
    PROVE  /\ CountType'
           /\ performed'[<<r.id, r.boot>>] = 1
           /\ \A i \in Ids, t \in 0 .. MaxBoots :
                i # r.id \/ t # r.boot => performed'[<<i, t>>] = performed[<<i, t>>]
<1>1. performed[<<r.id, r.boot>>] = 0
  BY DEF CountType, CountInv
<1> QED
  BY <1>1 DEF Performed, CountType

\* A restart, commanded or not, leaves only what is stored.
LEMMA RebootStep ==
    ASSUME IInv, Reboot, boot < MaxBoots, CountType',
           \A i \in Ids, t \in 0 .. MaxBoots :
               performed'[<<i, t>>] <= 1 /\ (performed'[<<i, t>>] = 1 => t <= boot)
    PROVE  IInv'
<1> USE DEF IInv
<1>1. FlagType'
  BY Zenon DEF Reboot, FlagType
<1>2. DataType' /\ TableType' /\ OwnerType'
  BY DEF Reboot, DataType, TableType, OwnerType, Config
<1>3. RunningIsOwned' /\ ConfigIsCommitted' /\ OutcomeIsTrue' /\ KeyInv' /\ TrialInv' /\ BootInv'
  BY DEF Reboot, RunningIsOwned, ConfigIsCommitted, OutcomeIsTrue, KeyInv, TrialInv, BootInv,
     NoTrial, NoRestart, Free, TrialActive, RestartPending
<1>4. CountInv'
  <2>1. boot' = boot + 1 /\ boot \in Nat
    BY DEF Reboot, DataType
  <2>2. \A t \in 0 .. MaxBoots : t <= boot => t < boot'
    BY <2>1
  <2> QED
    BY <2>2 DEF CountInv
<1>5. WrittenInv'
  <2>1. \A r \in written : r.boot < boot + 1
    BY DEF WrittenInv, KeyInv, DataType, Request
  <2> QED
    BY <2>1 DEF Reboot, WrittenInv
<1> QED
  BY <1>1, <1>2, <1>3, <1>4, <1>5

-----------------------------------------------------------------------------
(* Commands *)

\* A new entry that is not running keeps everything said about the table.
LEMMA NewOutcome ==
    ASSUME IInv, NEW r \in Requests, NEW mqtt \in BOOLEAN, Admitted(r, mqtt),
           NEW state \in States, Record(r, state), UNCHANGED <<boot, trial, restart, ota, written>>,
           state # "running", state = "succeeded" => r.command # "config",
           performed' = performed \/ Performed(r)
    PROVE  /\ TableType' /\ CountType' /\ OwnerType'
           /\ RunningIsOwned' /\ OutcomeIsTrue' /\ KeyInv' /\ CountInv' /\ WrittenInv' /\ BootInv'
<1> USE DEF IInv
<1>1. /\ r.id \in Ids /\ r.boot = boot /\ r.boot \in 0 .. MaxBoots /\ table[r.id] = Free
  BY AdmitFacts
<1>2. /\ TableType'
      /\ table'[r.id] # Free /\ table'[r.id].state = state /\ table'[r.id].request = r
      /\ \A i \in Ids : i # r.id => table'[i] = table[i]
  BY <1>1, RecordFacts
<1>3. r \notin written
  BY <1>1 DEF WrittenInv, DataType
<1>4. RunningIsOwned'
  BY <1>1, <1>2, Shapes DEF RunningIsOwned
<1>5. OutcomeIsTrue' /\ KeyInv'
  BY <1>1, <1>2, <1>3 DEF OutcomeIsTrue, KeyInv
<1>6. WrittenInv'
  <2>1. \A q \in written : q.id \in Ids
    BY DEF DataType, Request
  <2> QED
    BY <1>1, <1>2, <1>3, <2>1 DEF WrittenInv
<1>7. CountType' /\ CountInv'
  <2>1. CASE performed' = performed
    BY <1>1, <1>2, <2>1 DEF CountInv, CountType
  <2>2. CASE Performed(r)
    <3>1. /\ CountType'
          /\ performed'[<<r.id, r.boot>>] = 1
          /\ \A i \in Ids, t \in 0 .. MaxBoots :
               i # r.id \/ t # r.boot => performed'[<<i, t>>] = performed[<<i, t>>]
      BY <1>1, <2>2, PerformedFacts
    <3> QED
      BY <1>1, <1>2, <3>1 DEF CountInv
  <2> QED
    BY <2>1, <2>2
<1>8. OwnerType' /\ BootInv'
  BY DEF OwnerType, BootInv, RestartPending
<1> QED
  BY <1>2, <1>4, <1>5, <1>6, <1>7, <1>8

\* A request that starts an operation becomes its owner.
LEMMA NewOperation ==
    ASSUME IInv, NEW r \in Requests, NEW mqtt \in BOOLEAN, Admitted(r, mqtt),
           Record(r, "running"), Performed(r), UNCHANGED <<boot, written>>, OwnerType',
           trial.id = NoId, ota = NoId, restart.id = NoId,
           \/ trial'.id = r.id /\ ota' = NoId /\ restart'.id = NoId
           \/ trial'.id = NoId /\ ota' = r.id /\ restart'.id = NoId
           \/ trial'.id = NoId /\ ota' = NoId /\ restart'.id = r.id
    PROVE  /\ TableType' /\ CountType' /\ RunningIsOwned' /\ OutcomeIsTrue' /\ KeyInv'
           /\ CountInv' /\ WrittenInv' /\ BootInv'
<1> USE DEF IInv
<1>1. /\ r.id \in Ids /\ r.boot = boot /\ r.boot \in 0 .. MaxBoots /\ table[r.id] = Free
      /\ boot < MaxBoots
  BY AdmitFacts
<1>2. /\ TableType'
      /\ table'[r.id] # Free /\ table'[r.id].state = "running" /\ table'[r.id].request = r
      /\ \A i \in Ids : i # r.id => table'[i] = table[i]
  BY <1>1, RecordFacts DEF States
<1>3. r \notin written
  BY <1>1 DEF WrittenInv, DataType
<1>4. RunningIsOwned'
  <2>1. \A i \in Ids : i # r.id => table'[i].state # "running"
    BY <1>2 DEF RunningIsOwned
  <2>2. \A i \in Ids : i \in {trial'.id, ota', restart'.id} <=> i = r.id
    BY <1>1
  <2> QED
    BY <1>1, <1>2, <2>1, <2>2 DEF RunningIsOwned
<1>5. OutcomeIsTrue' /\ KeyInv'
  BY <1>1, <1>2, <1>3 DEF OutcomeIsTrue, KeyInv
<1>6. WrittenInv'
  <2>1. \A q \in written : q.id \in Ids
    BY DEF DataType, Request
  <2>2. \A i \in Ids : table[i].state # "running"
    BY DEF RunningIsOwned
  <2> QED
    BY <1>1, <1>2, <1>3, <2>1, <2>2 DEF WrittenInv
<1>7. /\ CountType'
      /\ performed'[<<r.id, r.boot>>] = 1
      /\ \A i \in Ids, t \in 0 .. MaxBoots :
           i # r.id \/ t # r.boot => performed'[<<i, t>>] = performed[<<i, t>>]
  BY <1>1, PerformedFacts
<1>8. CountInv'
  <2> SUFFICES ASSUME NEW i \in Ids, NEW t \in 0 .. MaxBoots
               PROVE  /\ performed'[<<i, t>>] <= 1
                      /\ performed'[<<i, t>>] = 1 => t < boot \/ (t = boot /\ table'[i] # Free)
    BY DEF CountInv
  <2>1. CASE i = r.id /\ t = r.boot
    BY <1>1, <1>2, <1>7, <2>1
  <2>2. CASE i # r.id \/ t # r.boot
    BY <1>1, <1>2, <1>7, <2>2 DEF CountInv
  <2> QED
    BY <2>1, <2>2
<1> QED
  BY <1>1, <1>2, <1>4, <1>5, <1>6, <1>7, <1>8 DEF BootInv

\* Pause and resume change nothing that the other operations rely on.
LEMMA BusinessStep ==
    ASSUME IInv, NEW r \in Requests, NEW mqtt \in BOOLEAN, Business(r, mqtt)
    PROVE  IInv'
<1>1. /\ Admitted(r, mqtt)
      /\ UNCHANGED <<stored, boot, now, config, trial, restart, ota, flags, wifi, written>>
      /\ business' \in {"idle", "paused", business}
  BY DEF Business
<1>2. PICK state \in {"succeeded", "failed"} :
        Record(r, state) /\ (performed' = performed \/ Performed(r))
  BY DEF Business
<1>3. r.command # "config" /\ state \in States /\ state # "running"
  BY <1>2 DEF Business, States
<1>4. /\ TableType' /\ CountType' /\ OwnerType'
      /\ RunningIsOwned' /\ OutcomeIsTrue' /\ KeyInv' /\ CountInv' /\ WrittenInv' /\ BootInv'
  BY <1>1, <1>2, <1>3, NewOutcome
<1>5. FlagType' /\ DataType'
  BY <1>1 DEF IInv, FlagType, DataType
<1>6. ConfigIsCommitted'
  BY <1>1 DEF IInv, ConfigIsCommitted, TrialActive
<1>7. TrialInv'
  BY <1>1, AdmitFacts DEF IInv, TrialInv, TrialActive
<1> QED
  BY <1>4, <1>5, <1>6, <1>7 DEF IInv

\* A refused request is recorded as failed.
LEMMA RefuseStep ==
    ASSUME IInv, NEW r \in Requests, NEW mqtt \in BOOLEAN, Refuse(r, mqtt)
    PROVE  IInv'
<1>1. /\ Admitted(r, mqtt) /\ Record(r, "failed")
      /\ UNCHANGED <<stored, boot, now, config, trial, restart, ota, flags, wifi, business,
                     performed, written>>
  BY DEF Refuse
<1>2. /\ TableType' /\ CountType' /\ OwnerType'
      /\ RunningIsOwned' /\ OutcomeIsTrue' /\ KeyInv' /\ CountInv' /\ WrittenInv' /\ BootInv'
  BY <1>1, NewOutcome DEF States
<1>3. FlagType' /\ DataType'
  BY <1>1 DEF IInv, FlagType, DataType
<1>4. ConfigIsCommitted'
  BY <1>1 DEF IInv, ConfigIsCommitted, TrialActive
<1>5. TrialInv'
  BY <1>1, AdmitFacts DEF IInv, TrialInv, TrialActive
<1> QED
  BY <1>2, <1>3, <1>4, <1>5 DEF IInv

\* An open gate means that no other operation is under way.
LEMMA OpenGate ==
    ASSUME IInv, NEW r \in Requests, NEW mqtt \in BOOLEAN, ~Blocked(r, mqtt)
    PROVE  /\ trial = NoTrial /\ restart = NoRestart /\ ota = NoId
           /\ trial.id = NoId /\ restart.id = NoId /\ ~TrialActive
           /\ ~configUncertain
           /\ r.command = "config" => r.revision = config.revision /\ r.revision # MaxRevision
BY Shapes DEF IInv, Blocked, RestartWriteError, OtaActive, RestartPending, TrialActive, OwnerType,
   Trial, Restart

\* esp_base_wifi_apply selects what it is given.
LEMMA ApplyFacts ==
    ASSUME NEW setting \in Settings, NEW ok \in BOOLEAN, WifiApply(setting, ok)
    PROVE  selection' = setting /\ link' \in {"waiting", "ready", "failed"}
BY DEF WifiApply

\* restore_committed selects the committed configuration.
LEMMA RestoreFacts ==
    ASSUME NEW committed \in Config, RestoreCommitted(committed), configUncertain \in BOOLEAN
    PROVE  /\ selection' = committed.setting /\ selection' \in Settings
           /\ link' \in {"waiting", "ready", "failed"}
           /\ configUncertain' \in BOOLEAN
           /\ ~configUncertain' => ~configUncertain
<1>1. PICK ok \in BOOLEAN :
        WifiApply(committed.setting, ok) /\ configUncertain' = (configUncertain \/ ~ok)
  BY DEF RestoreCommitted
<1>2. committed.setting \in Settings
  BY DEF Config
<1>3. configUncertain' \in BOOLEAN /\ (~configUncertain' => ~configUncertain)
  BY <1>1, Zenon
<1> QED
  BY <1>1, <1>2, <1>3, ApplyFacts

\* A candidate is on trial, or the committed configuration is back.
LEMMA ConfigSetStep ==
    ASSUME IInv, NEW r \in Requests, NEW mqtt \in BOOLEAN, ConfigSet(r, mqtt)
    PROVE  IInv'
<1>1. /\ Admitted(r, mqtt) /\ ~Blocked(r, mqtt) /\ r.command = "config" /\ Performed(r)
      /\ UNCHANGED <<stored, boot, now, config, restart, ota, otaPending, bootUncertain, business,
                     written>>
  BY DEF ConfigSet
<1>2. /\ trial = NoTrial /\ restart = NoRestart /\ ota = NoId
      /\ trial.id = NoId /\ restart.id = NoId /\ ~TrialActive
      /\ ~configUncertain /\ r.revision = config.revision /\ r.revision # MaxRevision
  BY <1>1, OpenGate
<1>3. /\ r.id \in Ids /\ r.revision \in 0 .. MaxRevision /\ r.setting \in Settings
  BY <1>1, AdmitFacts
<1>4. CASE /\ WifiApply(r.setting, TRUE)
           /\ trial' = [id |-> r.id, stage |-> "proving", deadline |-> now + TrialTime,
                        candidate |-> [revision |-> r.revision, setting |-> r.setting]]
           /\ Record(r, "running")
           /\ UNCHANGED configUncertain
  <2>1. /\ trial' \in Trial /\ trial'.id = r.id /\ trial'.stage = "proving"
        /\ trial'.candidate.revision = r.revision /\ trial'.candidate.setting = r.setting
    BY <1>3, <1>4 DEF Trial, Config, IInv, DataType
  <2>2. OwnerType'
    BY <1>1, <1>2, <2>1 DEF OwnerType
  <2>3. /\ TableType' /\ CountType' /\ RunningIsOwned' /\ OutcomeIsTrue' /\ KeyInv'
        /\ CountInv' /\ WrittenInv' /\ BootInv'
    BY <1>1, <1>2, <1>4, <2>1, <2>2, NewOperation
  <2>4. selection' = r.setting /\ link' \in {"waiting", "ready", "failed"}
    BY <1>3, <1>4, ApplyFacts
  <2>5. FlagType' /\ DataType'
    BY <1>1, <1>3, <1>4, <2>4 DEF IInv, FlagType, DataType
  <2>6. ConfigIsCommitted'
    BY <1>1, <1>2, <1>4, <2>1 DEF IInv, ConfigIsCommitted, TrialActive
  <2>7. TrialInv'
    BY <1>2, <1>3, <2>1, <2>4 DEF TrialInv, TrialActive
  <2> QED
    BY <2>2, <2>3, <2>5, <2>6, <2>7 DEF IInv
<1>5. CASE RestoreCommitted(config) /\ Record(r, "failed") /\ UNCHANGED trial
  <2>1. /\ TableType' /\ CountType' /\ OwnerType'
        /\ RunningIsOwned' /\ OutcomeIsTrue' /\ KeyInv' /\ CountInv' /\ WrittenInv' /\ BootInv'
    BY <1>1, <1>5, NewOutcome DEF States
  <2>2. /\ selection' = config.setting /\ selection' \in Settings
        /\ link' \in {"waiting", "ready", "failed"} /\ configUncertain' \in BOOLEAN
    BY <1>5, RestoreFacts DEF IInv, DataType, FlagType
  <2>3. FlagType' /\ DataType'
    BY <1>1, <2>2 DEF IInv, FlagType, DataType
  <2>4. ConfigIsCommitted' /\ TrialInv'
    BY <1>1, <1>2, <1>5, <2>2 DEF IInv, ConfigIsCommitted, TrialInv, TrialActive, NoTrial
  <2> QED
    BY <2>1, <2>3, <2>4 DEF IInv
<1> QED
  BY <1>4, <1>5 DEF ConfigSet

\* An upgrade starts, fails to start, or closes the gate.
LEMMA OtaStartStep ==
    ASSUME IInv, NEW r \in Requests, NEW mqtt \in BOOLEAN, OtaStart(r, mqtt)
    PROVE  IInv'
<1>1. /\ Admitted(r, mqtt) /\ ~Blocked(r, mqtt) /\ r.command = "ota" /\ Performed(r)
      /\ UNCHANGED <<stored, boot, now, config, trial, restart, otaPending, bootUncertain, wifi,
                     business, written>>
  BY DEF OtaStart
<1>2. /\ trial = NoTrial /\ restart = NoRestart /\ ota = NoId
      /\ trial.id = NoId /\ restart.id = NoId /\ ~TrialActive
      /\ ~configUncertain
  BY <1>1, OpenGate
<1>3. r.id \in Ids
  BY <1>1, AdmitFacts
<1>4. FlagType' /\ DataType'
  <2>1. configUncertain' \in {TRUE, configUncertain} /\ ota' \in {ota, r.id}
    BY DEF OtaStart
  <2>2. DataType'
    BY <1>1, <1>3, <2>1 DEF IInv, DataType
  <2>3. FlagType'
    BY <1>1, <2>1, Zenon DEF IInv, FlagType
  <2> QED
    BY <2>2, <2>3
<1>5. ConfigIsCommitted' /\ TrialInv' /\ OwnerType'
  BY <1>1, <1>2 DEF IInv, ConfigIsCommitted, TrialInv, TrialActive, OwnerType
<1>6. CASE Record(r, "running") /\ ota' = r.id
  <2>1. /\ TableType' /\ CountType' /\ RunningIsOwned' /\ OutcomeIsTrue' /\ KeyInv'
        /\ CountInv' /\ WrittenInv' /\ BootInv'
    BY <1>1, <1>2, <1>5, <1>6, NewOperation
  <2> QED
    BY <1>4, <1>5, <2>1 DEF IInv
<1>7. ASSUME NEW state \in {"failed", "unknown"}, Record(r, state), UNCHANGED ota
      PROVE  IInv'
  <2>1. /\ TableType' /\ CountType' /\ OwnerType'
        /\ RunningIsOwned' /\ OutcomeIsTrue' /\ KeyInv' /\ CountInv' /\ WrittenInv' /\ BootInv'
    BY <1>1, <1>7, NewOutcome DEF States
  <2> QED
    BY <1>4, <1>5, <2>1 DEF IInv
<1> QED
  BY <1>6, <1>7 DEF OtaStart

\* A restart waits for its receipt as the only operation.
LEMMA RestartMqttStep ==
    ASSUME IInv, NEW r \in Requests, RestartMqtt(r)
    PROVE  IInv'
<1>1. /\ Admitted(r, TRUE) /\ ~Blocked(r, TRUE) /\ Performed(r) /\ Record(r, "running")
      /\ restart' = [id |-> r.id, since |-> now, receipt |-> "queued"]
      /\ UNCHANGED <<stored, boot, now, config, trial, ota, flags, wifi, business, written>>
  BY DEF RestartMqtt
<1>2. /\ trial = NoTrial /\ restart = NoRestart /\ ota = NoId
      /\ trial.id = NoId /\ restart.id = NoId /\ ~TrialActive
  BY <1>1, OpenGate
<1>3. r.id \in Ids
  BY <1>1, AdmitFacts
<1>4. restart' \in Restart /\ restart'.id = r.id
  BY <1>1, <1>3 DEF Restart, IInv, DataType
<1>5. OwnerType'
  BY <1>1, <1>4 DEF IInv, OwnerType
<1>6. /\ TableType' /\ CountType' /\ RunningIsOwned' /\ OutcomeIsTrue' /\ KeyInv'
      /\ CountInv' /\ WrittenInv' /\ BootInv'
  BY <1>1, <1>2, <1>4, <1>5, NewOperation
<1>7. FlagType' /\ DataType'
  BY <1>1 DEF IInv, FlagType, DataType
<1>8. ConfigIsCommitted' /\ TrialInv'
  BY <1>1, <1>2 DEF IInv, ConfigIsCommitted, TrialInv, TrialActive
<1> QED
  BY <1>5, <1>6, <1>7, <1>8 DEF IInv

\* A restart over USB is counted before the memory is lost.
LEMMA RestartUsbStep ==
    ASSUME IInv, NEW r \in Requests, RestartUsb(r)
    PROVE  IInv'
<1>1. Admitted(r, FALSE) /\ Performed(r) /\ Reboot
  BY DEF RestartUsb
<1>2. /\ r.id \in Ids /\ r.boot = boot /\ r.boot \in 0 .. MaxBoots /\ table[r.id] = Free
      /\ boot < MaxBoots
  BY <1>1, AdmitFacts
<1>3. /\ CountType'
      /\ performed'[<<r.id, r.boot>>] = 1
      /\ \A i \in Ids, t \in 0 .. MaxBoots :
           i # r.id \/ t # r.boot => performed'[<<i, t>>] = performed[<<i, t>>]
  BY <1>1, <1>2, PerformedFacts DEF IInv
<1>4. \A i \in Ids, t \in 0 .. MaxBoots :
        performed'[<<i, t>>] <= 1 /\ (performed'[<<i, t>>] = 1 => t <= boot)
  <2> SUFFICES ASSUME NEW i \in Ids, NEW t \in 0 .. MaxBoots
               PROVE  performed'[<<i, t>>] <= 1 /\ (performed'[<<i, t>>] = 1 => t <= boot)
    OBVIOUS
  <2>1. CASE i = r.id /\ t = r.boot
    BY <1>2, <1>3, <2>1
  <2>2. CASE i # r.id \/ t # r.boot
    BY <1>2, <1>3, <2>2 DEF IInv, CountInv, DataType
  <2> QED
    BY <2>1, <2>2
<1> QED
  BY <1>1, <1>2, <1>3, <1>4, RebootStep

-----------------------------------------------------------------------------
(* Polling *)

\* The end of a trial or of an upgrade settles the request that owns it.
LEMMA EndOperation ==
    ASSUME IInv, NEW i \in Ids, i \in {trial.id, ota}, NEW state \in States, Settle(i, state),
           state # "running", UNCHANGED <<boot, restart, ghosts>>, trial' = NoTrial, ota' = NoId,
           state = "failed" => table[i].request \notin written,
           state = "succeeded" => table[i].request \in written
    PROVE  /\ TableType' /\ CountType' /\ OwnerType' /\ RunningIsOwned' /\ OutcomeIsTrue'
           /\ KeyInv' /\ CountInv' /\ WrittenInv' /\ TrialInv' /\ BootInv'
<1> USE DEF IInv
<1>1. table[i].state = "running" /\ table[i] # Free
  BY Shapes DEF RunningIsOwned
<1>2. /\ TableType'
      /\ table'[i] # Free /\ table'[i].state = state /\ table'[i].request = table[i].request
      /\ \A j \in Ids : j # i => table'[j] = table[j]
  BY <1>1, SettleFacts
<1>3. restart.id = NoId /\ trial.id \in {i, NoId} /\ ota \in {i, NoId}
  BY DEF RunningIsOwned
<1>4. RunningIsOwned'
  <2>1. trial'.id = NoId /\ ota' = NoId /\ restart'.id = NoId
    BY <1>3 DEF NoTrial
  <2>2. \A j \in Ids : table'[j].state # "running"
    BY <1>2, <1>3 DEF RunningIsOwned
  <2> QED
    BY <2>1, <2>2 DEF RunningIsOwned
<1>5. OutcomeIsTrue' /\ KeyInv' /\ CountInv'
  BY <1>1, <1>2 DEF OutcomeIsTrue, KeyInv, CountInv
<1>6. WrittenInv'
  <2>1. \A q \in written : q.id \in Ids
    BY DEF DataType, Request
  <2>2. \A j \in Ids : table'[j].state # "running"
    BY <1>2, <1>3 DEF RunningIsOwned
  <2> QED
    BY <1>1, <1>2, <2>1, <2>2 DEF WrittenInv
<1>7. CountType' /\ OwnerType' /\ TrialInv' /\ BootInv'
  BY DEF CountType, OwnerType, TrialInv, BootInv, TrialActive, RestartPending, NoTrial
<1> QED
  BY <1>2, <1>4, <1>5, <1>6, <1>7

\* What an active trial looks like.
LEMMA TrialFacts ==
    ASSUME IInv, TrialActive
    PROVE  /\ trial \in Trial /\ trial.id \in Ids /\ trial.candidate \in Config
           /\ ota = NoId /\ restart.id = NoId
           /\ table[trial.id] # Free /\ table[trial.id].state = "running"
           /\ table[trial.id].request \in Requests
           /\ Advanced(trial.candidate) \in Config
           /\ Advanced(trial.candidate).setting = trial.candidate.setting
           /\ Advanced(trial.candidate).revision = trial.candidate.revision + 1
           /\ trial.stage # "written" => table[trial.id].request \notin written
<1> USE DEF IInv
<1>1. trial \in Trial /\ trial.id \in Ids /\ trial.candidate \in Config
  BY Shapes DEF Trial
<1>2. ota = NoId /\ restart.id = NoId /\ table[trial.id].state = "running"
  BY <1>1 DEF RunningIsOwned
<1>3. table[trial.id] # Free /\ table[trial.id].request \in Requests
  BY <1>1, <1>2, Shapes DEF Entry
<1>4. /\ Advanced(trial.candidate) \in Config
      /\ Advanced(trial.candidate).setting = trial.candidate.setting
      /\ Advanced(trial.candidate).revision = trial.candidate.revision + 1
  BY <1>1 DEF TrialInv, Advanced, Config
<1>5. trial.stage # "written" => table[trial.id].request \notin written
  BY <1>1, <1>2, <1>3 DEF WrittenInv
<1> QED
  BY <1>1, <1>2, <1>3, <1>4, <1>5

\* The candidate becomes durable, or not; the trial knows that it may.
LEMMA WriteCandidateStep == IInv /\ WriteCandidate => IInv'
<1> SUFFICES ASSUME IInv, WriteCandidate PROVE IInv'
  OBVIOUS
<1>1. /\ trial.stage = "proving" /\ TrialActive
      /\ stored.revision = trial.candidate.revision
      /\ trial' = [trial EXCEPT !.stage = "written"]
      /\ UNCHANGED <<boot, now, config, table, restart, ota, flags, wifi, business, performed>>
  BY DEF WriteCandidate, CommitReady, TrialActive
<1>2. /\ trial \in Trial /\ trial.id \in Ids /\ trial.candidate \in Config
      /\ ota = NoId /\ restart.id = NoId
      /\ table[trial.id] # Free /\ table[trial.id].state = "running"
      /\ table[trial.id].request \in Requests
      /\ Advanced(trial.candidate) \in Config
      /\ Advanced(trial.candidate).revision = trial.candidate.revision + 1
      /\ table[trial.id].request \notin written
  BY <1>1, TrialFacts
<1>3. /\ trial' \in Trial /\ trial'.stage = "written" /\ trial'.id = trial.id
      /\ trial'.candidate = trial.candidate
  BY <1>1, <1>2 DEF Trial
<1>4. \/ stored' = Advanced(trial.candidate) /\ written' = written \cup {table[trial.id].request}
      \/ stored' = stored /\ written' = written
  BY DEF WriteCandidate
<1>5. stored # Advanced(trial.candidate)
  BY <1>1, <1>2 DEF Config
<1> USE DEF IInv
<1>6. FlagType' /\ TableType' /\ CountType'
  BY <1>1 DEF FlagType, TableType, CountType
<1>7. DataType' /\ OwnerType'
  BY <1>1, <1>2, <1>3, <1>4 DEF DataType, OwnerType
<1>8. RunningIsOwned' /\ KeyInv' /\ CountInv' /\ BootInv'
  BY <1>1, <1>3 DEF RunningIsOwned, KeyInv, CountInv, BootInv, RestartPending
<1>9. ConfigIsCommitted'
  BY <1>1, <1>3 DEF ConfigIsCommitted, TrialActive
<1>10. \A i \in Ids : table[i] # Free /\ table[i].request = table[trial.id].request => i = trial.id
  BY <1>2 DEF KeyInv
<1>11. OutcomeIsTrue'
  BY <1>1, <1>2, <1>4, <1>10 DEF OutcomeIsTrue
<1>12. WrittenInv'
  <2>1. table[trial.id].request.id = trial.id
    BY <1>2 DEF KeyInv
  <2>2. \A q \in written' : q.boot < boot \/ (table[q.id] # Free /\ table[q.id].request = q)
    BY <1>2, <1>4, <2>1 DEF WrittenInv
  <2>3. \A i \in Ids : table[i] # Free /\ table[i].request \in written' =>
          table[i].state # "running" \/ trial.id = i
    BY <1>4, <1>10 DEF WrittenInv
  <2> QED
    BY <1>1, <1>3, <2>2, <2>3 DEF WrittenInv
<1>13. TrialInv'
  BY <1>1, <1>2, <1>3, <1>4, <1>5 DEF TrialInv, TrialActive
<1> QED
  BY <1>6, <1>7, <1>8, <1>9, <1>11, <1>12, <1>13

\* An uncertain end closes the gate.
LEMMA CommitUncertainStep == IInv /\ CommitUncertain => IInv'
<1> SUFFICES ASSUME IInv, CommitUncertain PROVE IInv'
  OBVIOUS
<1>1. /\ TrialActive /\ trial' = NoTrial /\ configUncertain' = TRUE
      /\ Settle(trial.id, "unknown")
      /\ UNCHANGED <<stored, boot, now, restart, ota, otaPending, bootUncertain, business, ghosts>>
  BY DEF CommitUncertain, CommitReady, TrialActive
<1>2. trial.id \in Ids /\ ota = NoId
  BY <1>1, TrialFacts
<1>3. /\ TableType' /\ CountType' /\ OwnerType' /\ RunningIsOwned' /\ OutcomeIsTrue'
      /\ KeyInv' /\ CountInv' /\ WrittenInv' /\ TrialInv' /\ BootInv'
  BY <1>1, <1>2, EndOperation DEF States
<1>4. /\ config' \in {config, stored} /\ selection' \in Settings
      /\ link' \in {"waiting", "ready", "failed"}
  <2>1. PICK setting \in Settings, ok \in BOOLEAN : WifiApply(setting, ok)
    BY DEF CommitUncertain, IInv, DataType, Config
  <2> QED
    BY <2>1, ApplyFacts DEF CommitUncertain
<1>5. FlagType' /\ DataType' /\ ConfigIsCommitted'
  BY <1>1, <1>4 DEF IInv, FlagType, DataType, ConfigIsCommitted
<1> QED
  BY <1>3, <1>5 DEF IInv

\* A verified commit publishes what is stored.
LEMMA CommitVerifiedStep == IInv /\ CommitVerified => IInv'
<1> SUFFICES ASSUME IInv, CommitVerified PROVE IInv'
  OBVIOUS
<1>1. /\ TrialActive /\ trial.stage = "written" /\ stored = Advanced(trial.candidate)
      /\ config' = stored /\ trial' = NoTrial
      /\ Settle(trial.id, "succeeded")
      /\ UNCHANGED <<stored, boot, now, restart, ota, flags, wifi, business, ghosts>>
  BY DEF CommitVerified, TrialActive
<1>2. /\ trial.id \in Ids /\ ota = NoId
      /\ Advanced(trial.candidate).setting = trial.candidate.setting
  BY <1>1, TrialFacts
<1>3. table[trial.id].request \in written /\ selection = trial.candidate.setting
  BY <1>1 DEF IInv, TrialInv
<1>4. /\ TableType' /\ CountType' /\ OwnerType' /\ RunningIsOwned' /\ OutcomeIsTrue'
      /\ KeyInv' /\ CountInv' /\ WrittenInv' /\ TrialInv' /\ BootInv'
  BY <1>1, <1>2, <1>3, EndOperation DEF States
<1>5. FlagType' /\ DataType'
  BY <1>1 DEF IInv, FlagType, DataType
<1>6. ConfigIsCommitted'
  BY <1>1, <1>2, <1>3 DEF ConfigIsCommitted
<1> QED
  BY <1>4, <1>5, <1>6 DEF IInv

\* A trial that fails before the write leaves the committed configuration.
LEMMA TrialFailedStep == IInv /\ (CommitFailed \/ ProofFailed) => IInv'
<1> SUFFICES ASSUME IInv, CommitFailed \/ ProofFailed PROVE IInv'
  OBVIOUS
<1>1. /\ TrialActive /\ trial.stage = "proving" /\ trial' = NoTrial
      /\ Settle(trial.id, "failed") /\ RestoreCommitted(config)
      /\ UNCHANGED <<stored, boot, now, config, restart, ota, otaPending, bootUncertain, business,
                     ghosts>>
  BY DEF CommitFailed, ProofFailed, CommitReady, TrialActive
<1>2. trial.id \in Ids /\ ota = NoId /\ table[trial.id].request \notin written
  BY <1>1, TrialFacts
<1>3. /\ TableType' /\ CountType' /\ OwnerType' /\ RunningIsOwned' /\ OutcomeIsTrue'
      /\ KeyInv' /\ CountInv' /\ WrittenInv' /\ TrialInv' /\ BootInv'
  BY <1>1, <1>2, EndOperation DEF States
<1>4. /\ selection' = config.setting /\ selection' \in Settings
      /\ link' \in {"waiting", "ready", "failed"} /\ configUncertain' \in BOOLEAN
      /\ ~configUncertain' => ~configUncertain
  BY <1>1, RestoreFacts DEF IInv, DataType, FlagType
<1>5. FlagType' /\ DataType'
  BY <1>1, <1>4 DEF IInv, FlagType, DataType
<1>6. ConfigIsCommitted'
  BY <1>1, <1>4 DEF IInv, ConfigIsCommitted
<1> QED
  BY <1>3, <1>5, <1>6 DEF IInv

\* The end of an upgrade is recorded, or the gates are closed.
LEMMA PollOtaStep == IInv /\ PollOta => IInv'
<1> SUFFICES ASSUME IInv, PollOta PROVE IInv'
  OBVIOUS
<1>1. /\ ota # NoId /\ ota' = NoId
      /\ UNCHANGED <<stored, boot, now, config, trial, restart, otaPending, wifi, business, ghosts>>
      /\ configUncertain' \in {configUncertain, TRUE}
      /\ bootUncertain' \in {bootUncertain, TRUE}
  BY DEF PollOta, OtaActive
<1>2. PICK state \in {"failed", "unknown"} : Settle(ota, state)
  BY DEF PollOta
<1>3. ota \in Ids /\ trial.id = NoId /\ trial = NoTrial
  BY <1>1, Shapes DEF IInv, DataType, RunningIsOwned, OwnerType, TrialActive, Trial
<1>4. table[ota].request \notin written
  BY <1>1, <1>3, Shapes DEF IInv, WrittenInv, RunningIsOwned
<1>5. /\ TableType' /\ CountType' /\ OwnerType' /\ RunningIsOwned' /\ OutcomeIsTrue'
      /\ KeyInv' /\ CountInv' /\ WrittenInv' /\ TrialInv' /\ BootInv'
  BY <1>1, <1>2, <1>3, <1>4, EndOperation DEF States
<1>6. FlagType'
  BY <1>1, Zenon DEF IInv, FlagType
<1>7. DataType'
  BY <1>1, <1>3 DEF IInv, DataType
<1>8. ~configUncertain' => ~configUncertain
  BY <1>1, Zenon DEF IInv, FlagType
<1>9. ConfigIsCommitted'
  BY <1>1, <1>8 DEF IInv, ConfigIsCommitted, TrialActive
<1> QED
  BY <1>5, <1>6, <1>7, <1>9 DEF IInv

\* Every restart that nobody counts.
LEMMA RestartStep == IInv /\ (PollOtaSelected \/ PollRestart \/ PowerFailure) => IInv'
<1> SUFFICES ASSUME IInv, PollOtaSelected \/ PollRestart \/ PowerFailure PROVE IInv'
  OBVIOUS
<1>1. Reboot /\ UNCHANGED performed /\ boot < MaxBoots
  BY DEF PollOtaSelected, PollRestart, PowerFailure, IInv, BootInv
<1>2. CountType'
  BY <1>1 DEF IInv, CountType
<1>3. \A i \in Ids, t \in 0 .. MaxBoots :
        performed'[<<i, t>>] <= 1 /\ (performed'[<<i, t>>] = 1 => t <= boot)
  <2> SUFFICES ASSUME NEW i \in Ids, NEW t \in 0 .. MaxBoots
               PROVE  performed'[<<i, t>>] <= 1 /\ (performed'[<<i, t>>] = 1 => t <= boot)
    OBVIOUS
  <2>1. performed'[<<i, t>>] = performed[<<i, t>>]
    BY <1>1
  <2>2. performed[<<i, t>>] <= 1
        /\ (performed[<<i, t>>] = 1 => t < boot \/ (t = boot /\ table[i] # Free))
    BY DEF IInv, CountInv
  <2> QED
    BY <2>1, <2>2 DEF IInv, DataType
<1> QED
  BY <1>1, <1>2, <1>3, RebootStep

\* The PUBACK, the radio, the boot task and the clock.
LEMMA SurroundingsStep ==
    IInv /\ (Acknowledge \/ ReceiptLost \/ LinkChange \/ BootVerified \/ Tick) => IInv'
<1> SUFFICES ASSUME IInv, Acknowledge \/ ReceiptLost \/ LinkChange \/ BootVerified \/ Tick
             PROVE  IInv'
  OBVIOUS
<1> USE DEF IInv
<1>1. /\ UNCHANGED <<stored, boot, config, table, trial, ota, configUncertain, bootUncertain,
                     selection, business, ghosts>>
      /\ otaPending' \in {otaPending, FALSE} /\ now' \in {now, now + 1} /\ now' \in 0 .. MaxNow
      /\ link' \in {"waiting", "ready", "failed"}
  <2>1. CASE Acknowledge \/ ReceiptLost
    BY <2>1 DEF Acknowledge, ReceiptLost, DataType
  <2>2. CASE LinkChange
    BY <2>2 DEF LinkChange, DataType
  <2>3. CASE BootVerified
    BY <2>3 DEF BootVerified, DataType
  <2>4. CASE Tick
    BY <2>4 DEF Tick, DataType
  <2> QED
    BY <2>1, <2>2, <2>3, <2>4
<1>2. restart'.id = restart.id /\ restart' \in Restart \cup {NoRestart}
  <2>1. CASE UNCHANGED restart
    BY <2>1 DEF OwnerType
  <2>2. CASE Acknowledge \/ ReceiptLost
    BY <2>2, Shapes DEF Acknowledge, ReceiptLost, Restart
  <2> QED
    BY <2>1, <2>2 DEF LinkChange, BootVerified, Tick
<1>3. FlagType'
  BY <1>1, Zenon DEF FlagType
<1>4. DataType' /\ TableType' /\ OwnerType' /\ CountType'
  BY <1>1, <1>2 DEF DataType, TableType, OwnerType, CountType
<1>5. RunningIsOwned' /\ ConfigIsCommitted' /\ OutcomeIsTrue' /\ KeyInv' /\ CountInv'
      /\ WrittenInv' /\ TrialInv' /\ BootInv'
  BY <1>1, <1>2 DEF RunningIsOwned, ConfigIsCommitted, OutcomeIsTrue, KeyInv, CountInv,
     WrittenInv, TrialInv, BootInv, TrialActive, RestartPending
<1> QED
  BY <1>3, <1>4, <1>5

-----------------------------------------------------------------------------
(* The specification *)

\* A fresh device.
LEMMA InitIInv == Init => IInv
<1> SUFFICES ASSUME Init PROVE IInv
  OBVIOUS
<1>1. FlagType
  BY Zenon DEF Init, FlagType
<1>2. DataType /\ TableType /\ OwnerType /\ CountType
  BY DEF Init, DataType, TableType, OwnerType, CountType, Config
<1>3. RunningIsOwned /\ ConfigIsCommitted /\ OutcomeIsTrue /\ KeyInv /\ CountInv
      /\ WrittenInv /\ TrialInv /\ BootInv
  BY DEF Init, RunningIsOwned, ConfigIsCommitted, OutcomeIsTrue, KeyInv, CountInv, WrittenInv,
     TrialInv, BootInv, TrialActive, RestartPending, NoTrial, NoRestart, Free
<1> QED
  BY <1>1, <1>2, <1>3 DEF IInv

\* Every step keeps the invariant.
LEMMA NextIInv == IInv /\ [Next]_vars => IInv'
<1>1. ASSUME IInv, NEW r \in Requests, NEW mqtt \in BOOLEAN, Command(r, mqtt) PROVE IInv'
  BY <1>1, BusinessStep, RefuseStep, ConfigSetStep, OtaStartStep DEF Command
<1>2. ASSUME IInv, NEW r \in Requests, RestartMqtt(r) \/ RestartUsb(r) PROVE IInv'
  BY <1>2, RestartMqttStep, RestartUsbStep
<1>3. IInv /\ PollConfiguration => IInv'
  BY WriteCandidateStep, CommitUncertainStep, CommitVerifiedStep, TrialFailedStep
     DEF PollConfiguration
<1>4. IInv /\ UNCHANGED vars => IInv'
  <2> SUFFICES ASSUME IInv, UNCHANGED vars PROVE IInv'
    OBVIOUS
  <2> USE DEF IInv
  <2>1. FlagType' /\ DataType' /\ TableType' /\ OwnerType' /\ CountType'
    BY DEF FlagType, DataType, TableType, OwnerType, CountType
  <2>2. RunningIsOwned' /\ ConfigIsCommitted' /\ OutcomeIsTrue' /\ KeyInv' /\ CountInv'
        /\ WrittenInv' /\ TrialInv' /\ BootInv'
    BY DEF RunningIsOwned, ConfigIsCommitted, OutcomeIsTrue, KeyInv, CountInv, WrittenInv,
       TrialInv, BootInv, TrialActive, RestartPending
  <2> QED
    BY <2>1, <2>2
<1> QED
  BY <1>1, <1>2, <1>3, <1>4, PollOtaStep, RestartStep, SurroundingsStep DEF Next

\* The invariant holds in every reachable state.
THEOREM ControlInvariant == Spec => []IInv
BY InitIInv, NextIInv, PTL DEF Spec

\* Tables, operations and flags keep their types, and no revision exceeds the
\* last one.
THEOREM ControlTypes == Spec => []TypeOK
<1>1. IInv => TypeOK
  BY DEF IInv, TypeOK, FlagType, DataType, TableType, OwnerType, CountType
<1> QED
  BY <1>1, ControlInvariant, PTL

\* ebase_admit: however often, late or on whichever channel a request is
\* delivered, and however often the device restarts, it takes effect once.
THEOREM ControlAtMostOnce == Spec => []AtMostOnce
<1>1. IInv => AtMostOnce
  BY DEF IInv, CountInv, AtMostOnce
<1> QED
  BY <1>1, ControlInvariant, PTL

\* handle_command_line and the polls: a running request has its operation and
\* operations exclude each other.
THEOREM ControlRunningIsOwned == Spec => []RunningIsOwned
BY ControlInvariant, PTL DEF IInv

\* poll_configuration and restore_committed: the device runs what it stores.
THEOREM ControlConfigIsCommitted == Spec => []ConfigIsCommitted
BY ControlInvariant, PTL DEF IInv

\* poll_configuration: the answer to config.set is true of the flash.
THEOREM ControlOutcomeIsTrue == Spec => []OutcomeIsTrue
BY ControlInvariant, PTL DEF IInv

\* save_outcome: a terminal answer is repeated for the rest of the boot.
THEOREM ControlOutcomeIsFinal == Spec => OutcomeIsFinal
<1> DEFINE Kept == \A i \in Ids :
      /\ table[i] # Free => table'[i] # Free /\ table'[i].request = table[i].request
      /\ table[i].state \in {"succeeded", "failed", "unknown"} => table'[i] = table[i]
<1>1. UNCHANGED table => Kept
  OBVIOUS
<1>2. ASSUME IInv, NEW r \in Requests, NEW mqtt \in BOOLEAN, Admitted(r, mqtt),
             NEW state \in States, Record(r, state)
      PROVE  Kept
  <2>1. r.id \in Ids /\ table[r.id] = Free
    BY <1>2, AdmitFacts
  <2>2. \A i \in Ids : i # r.id => table'[i] = table[i]
    BY <1>2, <2>1, RecordFacts DEF IInv
  <2> QED
    BY <2>1, <2>2 DEF Free
<1>3. ASSUME IInv, NEW i \in Ids, table[i].state = "running", NEW state \in States,
             Settle(i, state)
      PROVE  Kept
  <2>1. table[i] # Free
    BY <1>3, Shapes DEF IInv
  <2>2. /\ table'[i] # Free /\ table'[i].request = table[i].request
        /\ \A j \in Ids : j # i => table'[j] = table[j]
    BY <1>3, <2>1, SettleFacts DEF IInv
  <2> QED
    BY <1>3, <2>2
<1>4. ASSUME IInv, NEW r \in Requests, NEW mqtt \in BOOLEAN,
             Command(r, mqtt) \/ RestartMqtt(r)
      PROVE  Kept
  <2>1. PICK state \in States, m \in BOOLEAN : Record(r, state) /\ Admitted(r, m)
    BY <1>4 DEF Command, Business, Refuse, ConfigSet, OtaStart, RestartMqtt, States
  <2> QED
    BY <1>4, <2>1, <1>2
<1>5. IInv /\ PollConfiguration => Kept
  <2> SUFFICES ASSUME IInv, PollConfiguration PROVE Kept
    OBVIOUS
  <2>1. TrialActive /\ (UNCHANGED table \/ \E state \in States : Settle(trial.id, state))
    BY DEF PollConfiguration, WriteCandidate, CommitUncertain, CommitVerified, CommitFailed,
       ProofFailed, CommitReady, TrialActive, States
  <2>2. trial.id \in Ids /\ table[trial.id].state = "running"
    BY <2>1, TrialFacts
  <2> QED
    BY <1>1, <1>3, <2>1, <2>2
<1>6. IInv /\ PollOta => Kept
  <2> SUFFICES ASSUME IInv, PollOta PROVE Kept
    OBVIOUS
  <2>1. \E state \in States : Settle(ota, state)
    BY DEF PollOta, States
  <2>2. ota \in Ids /\ table[ota].state = "running"
    BY DEF PollOta, OtaActive, IInv, DataType, RunningIsOwned
  <2> QED
    BY <1>3, <2>1, <2>2
<1>7. IInv /\ [Next]_vars => (boot' = boot => Kept)
  <2>1. DataType /\ Reboot => boot' # boot
    BY DEF Reboot, DataType
  <2>2. Acknowledge \/ ReceiptLost \/ LinkChange \/ BootVerified \/ Tick => UNCHANGED table
    BY DEF Acknowledge, ReceiptLost, LinkChange, BootVerified, Tick
  <2>3. \A r \in Requests : RestartUsb(r) => Reboot
    BY DEF RestartUsb
  <2>4. PollOtaSelected \/ PollRestart \/ PowerFailure => Reboot
    BY DEF PollOtaSelected, PollRestart, PowerFailure
  <2>5. IInv => DataType
    BY DEF IInv
  <2>6. \A r \in Requests : IInv /\ RestartMqtt(r) => Kept
    BY <1>4
  <2>7. \A r \in Requests, mqtt \in BOOLEAN : IInv /\ Command(r, mqtt) => Kept
    BY <1>4
  <2> QED
    BY <1>1, <1>5, <1>6, <2>1, <2>2, <2>3, <2>4, <2>5, <2>6, <2>7 DEF Next
<1> QED
  BY <1>7, ControlInvariant, PTL DEF OutcomeIsFinal, Spec
=============================================================================
