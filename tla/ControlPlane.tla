---------------------------- MODULE ControlPlane ----------------------------
(***************************************************************************)
(* The control task as the one owner of every state-changing command: the  *)
(* request guard of the current boot, the outcomes that replays return,    *)
(* the configuration trial with its connection proof and verified commit,  *)
(* the commanded restart that waits for its receipt, and the gates between *)
(* them and the upgrade.                                                   *)
(*   device_protocol/command_guard.c, control_state.c, esp_base_protocol.c *)
(*   remote_config/esp_base_remote_config.c                                *)
(* Requests may be delivered at any time, on either channel, late,         *)
(* repeatedly, and after the device has restarted.  The upgrade and the    *)
(* Wi-Fi owner appear as the control task sees them.                       *)
(***************************************************************************)
EXTENDS Naturals, FiniteSets

CONSTANTS Ids,           \* request identifiers
          NoId,          \* no request
          Settings,      \* contents of a configuration
          Unconfigured,  \* a configuration without Wi-Fi
          Requests,      \* the requests that clients send
          Slots,         \* EBASE_REQUEST_SLOTS
          Window,        \* EBASE_REQUEST_WINDOW_MS
          TrialTime,     \* 20000 ms to prove a candidate
          MinWait,       \* 100 ms before a commanded restart
          MaxWait,       \* 2000 ms at most for its receipt
          MaxRevision,   \* UINT32_MAX
          MaxNow,        \* bound: the uptime explored in a boot
          MaxBoots       \* bound: boots explored

Kinds == {"pause", "resume", "config", "ota", "restart"}

\* A write request; its fingerprint stands for command, revision and setting.
Request ==
    [id : Ids, boot : 0 .. MaxBoots, expires : Nat, command : Kinds,
     revision : 0 .. MaxRevision, setting : Settings]

ASSUME ControlAssumption ==
    /\ NoId \notin Ids /\ IsFiniteSet(Ids)
    /\ Unconfigured \in Settings
    /\ Requests \subseteq Request
    /\ Slots \in Nat /\ Window \in Nat /\ TrialTime \in Nat
    /\ MinWait \in Nat /\ MaxWait \in Nat /\ MinWait <= MaxWait
    /\ MaxRevision \in Nat /\ MaxNow \in Nat /\ MaxBoots \in Nat

VARIABLES
  (* durable *)
  stored,       \* the configuration record
  (* volatile *)
  boot,         \* s_boot_id
  now,          \* uptime
  config,       \* s_context.config
  table,        \* s_guard and s_outcomes: what each identifier was used for
  trial,        \* s_candidate, s_trial_slot, s_trial_deadline; the commit in progress
  restart,      \* s_mqtt_restart_pending, s_mqtt_restart_since_ms, s_restart_result_id
  ota,          \* s_ota_slot while s_ota_active
  otaPending,   \* ota_verification_pending
  configUncertain, bootUncertain, \* s_config_uncertain, s_ota_boot_uncertain
  selection,    \* the Wi-Fi configuration that was applied last
  link,         \* the state of its connection
  business,     \* s_business.state, as far as pause and resume change it
  (* bookkeeping *)
  performed,    \* how often a request of an identifier and boot took effect
  written       \* requests whose configuration became durable

flags == <<otaPending, configUncertain, bootUncertain>>
wifi == <<selection, link>>
ghosts == <<performed, written>>
vars == <<stored, boot, now, config, table, trial, restart, ota, flags, wifi, business, ghosts>>

Config == [revision : 0 .. MaxRevision, setting : Settings]
Free == [state |-> "free"]
States == {"running", "succeeded", "failed", "unknown"}
Entry == [state : States, request : Requests]
NoTrial == [id |-> NoId, stage |-> "off"]
Trial ==
    [id : Ids, stage : {"proving", "written"}, deadline : Nat, candidate : Config]
NoRestart == [id |-> NoId]
Restart == [id : Ids, since : Nat, receipt : {"queued", "acked", "lost"}]

TypeOK ==
    /\ stored \in Config /\ config \in Config
    /\ boot \in 0 .. MaxBoots /\ now \in 0 .. MaxNow
    /\ table \in [Ids -> Entry \cup {Free}]
    /\ trial \in Trial \cup {NoTrial}
    /\ restart \in Restart \cup {NoRestart}
    /\ ota \in Ids \cup {NoId}
    /\ otaPending \in BOOLEAN /\ configUncertain \in BOOLEAN /\ bootUncertain \in BOOLEAN
    /\ selection \in Settings /\ link \in {"waiting", "ready", "failed"}
    /\ business \in {"idle", "paused"}
    /\ performed \in [Ids \X (0 .. MaxBoots) -> 0 .. 2] /\ written \subseteq Requests

Init ==
    /\ stored = [revision |-> 0, setting |-> Unconfigured] /\ config = stored
    /\ boot = 0 /\ now = 0
    /\ table = [i \in Ids |-> Free]
    /\ trial = NoTrial /\ restart = NoRestart /\ ota = NoId
    /\ otaPending = TRUE /\ configUncertain = FALSE /\ bootUncertain = FALSE
    /\ selection = Unconfigured /\ link = "ready"
    /\ business = "idle"
    /\ performed = [k \in Ids \X (0 .. MaxBoots) |-> 0] /\ written = {}

-----------------------------------------------------------------------------
(* Admission: ebase_admit *)

\* Mutant: the table does not belong to a boot.
Admit_AnyBoot(r) ==
    IF table[r.id] # Free THEN IF table[r.id].request = r THEN "replay" ELSE "conflict"
    ELSE IF r.expires <= now THEN "expired"
    ELSE IF r.expires - now > Window THEN "bad_window"
    ELSE IF Cardinality({i \in Ids : table[i] # Free}) = Slots THEN "full"
    ELSE "accept"

\* Mutant: an identifier that was used for something else counts as new.
Admit_NoConflict(r) ==
    IF r.boot # boot THEN "wrong_boot"
    ELSE IF table[r.id] # Free /\ table[r.id].request = r THEN "replay"
    ELSE IF r.expires <= now THEN "expired"
    ELSE IF r.expires - now > Window THEN "bad_window"
    ELSE IF Cardinality({i \in Ids : table[i] # Free}) = Slots THEN "full"
    ELSE "accept"

\* A known identifier is a replay or a conflict whatever its deadline; only a
\* new one needs a deadline inside the window and a free slot.
Admit(r) ==
    IF r.boot # boot THEN "wrong_boot"
    ELSE IF table[r.id] # Free THEN IF table[r.id].request = r THEN "replay" ELSE "conflict"
    ELSE IF r.expires <= now THEN "expired"
    ELSE IF r.expires - now > Window THEN "bad_window"
    ELSE IF Cardinality({i \in Ids : table[i] # Free}) = Slots THEN "full"
    ELSE "accept"

\* save_outcome for a new request, and for one that is running.
Record(r, state) == table' = [table EXCEPT ![r.id] = [state |-> state, request |-> r]]
Settle(i, state) == table' = [table EXCEPT ![i].state = state]

\* Bookkeeping: the request takes effect.
Performed(r) ==
    performed' = [performed EXCEPT ![<<r.id, r.boot>>] = IF @ = 2 THEN 2 ELSE @ + 1]

TrialActive == trial.stage # "off"
OtaActive == ota # NoId
RestartPending == restart.id # NoId

\* Mutant: a restart does not ask whether a trial is running.
RestartWriteError_NoTrial ==
    OtaActive \/ RestartPending \/ bootUncertain \/ configUncertain

\* restart_write_error
RestartWriteError ==
    OtaActive \/ RestartPending \/ bootUncertain \/ TrialActive \/ configUncertain

\* Mutant: the last revision is not refused.
Blocked_NoLimit(r, mqtt) ==
    \/ RestartPending
    \/ r.command = "config" /\ (mqtt \/ otaPending \/ OtaActive)
    \/ r.command = "ota" /\ (otaPending \/ OtaActive \/ TrialActive \/ configUncertain
                                \/ bootUncertain)
    \/ r.command # "ota" /\ RestartWriteError
    \/ r.command = "config" /\ r.revision # config.revision

\* The gates of handle_command_line before a command does anything.
Blocked(r, mqtt) ==
    \/ RestartPending
    \/ r.command = "config" /\ (mqtt \/ otaPending \/ OtaActive)
    \/ r.command = "ota" /\ (otaPending \/ OtaActive \/ TrialActive \/ configUncertain
                                \/ bootUncertain)
    \/ r.command # "ota" /\ RestartWriteError
    \/ r.command = "config" /\ (r.revision # config.revision \/ r.revision = MaxRevision)

-----------------------------------------------------------------------------
(* The Wi-Fi owner as the control task uses it *)

\* esp_base_wifi_apply: an unchanged selection keeps its connection, a new one
\* starts from nothing; a driver that does not stop or start is "failed".
\* "ready" is the proof poll_configuration asks for: a connection or, for a
\* configuration without Wi-Fi, a radio that is off.
WifiApply(setting, ok) ==
    /\ selection' = setting
    /\ link' \in IF ok THEN {"waiting", "failed"} \cup
                            (IF setting = Unconfigured \/ (setting = selection /\ link = "ready")
                                THEN {"ready"} ELSE {})
                 ELSE {"failed"}

\* Mutant: the candidate stays selected.
RestoreCommitted_Forgotten(committed) == UNCHANGED <<selection, link, configUncertain>>

\* restore_committed
RestoreCommitted(committed) ==
    \E ok \in BOOLEAN :
      /\ WifiApply(committed.setting, ok)
      /\ configUncertain' = (configUncertain \/ ~ok)

\* The radio's events, as esp_base_wifi_poll reports them.
LinkChange ==
    /\ link # "failed" /\ trial.stage # "written"
    /\ link' \in {"waiting", "ready", "failed"} \ {link}
    /\ UNCHANGED <<stored, boot, now, config, table, trial, restart, ota, flags, selection,
                   business, ghosts>>

-----------------------------------------------------------------------------
(* Commands: handle_command_line *)

\* RAM is lost; the next boot loads the record and selects its Wi-Fi.
Reboot ==
    /\ boot' = boot + 1 /\ now' = 0
    /\ config' = stored
    /\ table' = [i \in Ids |-> Free]
    /\ trial' = NoTrial /\ restart' = NoRestart /\ ota' = NoId
    /\ otaPending' = TRUE /\ configUncertain' = FALSE /\ bootUncertain' = FALSE
    /\ selection' = stored.setting
    /\ link' \in {"waiting", "failed"} \cup
                 (IF stored.setting = Unconfigured THEN {"ready"} ELSE {})
    /\ business' = "idle"
    /\ UNCHANGED <<stored, written>>

\* A request is admitted.  MQTT is not polled before the boot is verified, and
\* no line is read while a commit is under way.  The last two conjuncts bound
\* the model: every request has the time and the boot it may need.
Admitted(r, mqtt) ==
    /\ Admit(r) = "accept"
    /\ mqtt => ~otaPending
    /\ trial.stage # "written"
    /\ boot < MaxBoots /\ now + TrialTime <= MaxNow /\ now + MaxWait <= MaxNow

\* business.pause and business.resume are executed before every gate.
Business(r, mqtt) ==
    /\ Admitted(r, mqtt) /\ r.command \in {"pause", "resume"}
    /\ IF r.command = "resume" /\ business # "paused"
          THEN Record(r, "failed") /\ UNCHANGED <<business, performed>>
          ELSE /\ Record(r, "succeeded") /\ Performed(r)
               /\ business' = IF r.command = "pause" THEN "paused" ELSE "idle"
    /\ UNCHANGED <<stored, boot, now, config, trial, restart, ota, flags, wifi, written>>

\* A gate is closed.  An upgrade may also be refused by the network, the
\* trusted time, the upgrade claim or its registration, and a restart over
\* MQTT when its receipt cannot be queued.
Refuse(r, mqtt) ==
    /\ Admitted(r, mqtt) /\ r.command \in {"config", "ota", "restart"}
    /\ Blocked(r, mqtt) \/ r.command = "ota" \/ (r.command = "restart" /\ mqtt)
    /\ Record(r, "failed")
    /\ UNCHANGED <<stored, boot, now, config, trial, restart, ota, flags, wifi, business, ghosts>>

\* config.set starts the trial of a candidate; one whose Wi-Fi cannot even be
\* applied fails at once.
ConfigSet(r, mqtt) ==
    /\ Admitted(r, mqtt) /\ r.command = "config" /\ ~Blocked(r, mqtt)
    /\ Performed(r)
    /\ \/ /\ WifiApply(r.setting, TRUE)
          /\ trial' = [id |-> r.id, stage |-> "proving", deadline |-> now + TrialTime,
                       candidate |-> [revision |-> r.revision, setting |-> r.setting]]
          /\ Record(r, "running")
          /\ UNCHANGED configUncertain
       \/ /\ RestoreCommitted(config)
          /\ Record(r, "failed")
          /\ UNCHANGED trial
    /\ UNCHANGED <<stored, boot, now, config, restart, ota, otaPending, bootUncertain, business,
                   written>>

\* ota.start with a network and a registered intent: the worker runs (its
\* state is "accepted" for a stream), or could not be created; or the
\* registration or its withdrawal is uncertain.
OtaStart(r, mqtt) ==
    /\ Admitted(r, mqtt) /\ r.command = "ota" /\ ~Blocked(r, mqtt)
    /\ selection # Unconfigured /\ link = "ready"
    /\ Performed(r)
    /\ \/ Record(r, "running") /\ ota' = r.id /\ UNCHANGED configUncertain
       \/ Record(r, "failed") /\ UNCHANGED <<ota, configUncertain>>
       \/ Record(r, "unknown") /\ configUncertain' = TRUE /\ UNCHANGED ota
    /\ UNCHANGED <<stored, boot, now, config, trial, restart, otaPending, bootUncertain, wifi,
                   business, written>>

\* restart over MQTT waits for the delivery of its receipt.
RestartMqtt(r) ==
    /\ Admitted(r, TRUE) /\ r.command = "restart" /\ ~Blocked(r, TRUE)
    /\ Performed(r) /\ Record(r, "running")
    /\ restart' = [id |-> r.id, since |-> now, receipt |-> "queued"]
    /\ UNCHANGED <<stored, boot, now, config, trial, ota, flags, wifi, business, written>>

\* restart over USB answers and restarts.
RestartUsb(r) ==
    /\ Admitted(r, FALSE) /\ r.command = "restart" /\ ~Blocked(r, FALSE)
    /\ Performed(r)
    /\ Reboot

Command(r, mqtt) ==
    \/ Business(r, mqtt) \/ Refuse(r, mqtt) \/ ConfigSet(r, mqtt) \/ OtaStart(r, mqtt)

-----------------------------------------------------------------------------
(* Polling: poll_configuration, poll_ota, poll_mqtt_restart *)

Advanced(c) == [c EXCEPT !.revision = @ + 1]

\* The candidate is proven in time.
CommitReady == trial.stage = "proving" /\ link = "ready" /\ now < trial.deadline

\* The proven candidate is written.  A write that reports an error may or may
\* not be durable.  A flash that is busy leaves everything for a later pass.
WriteCandidate ==
    /\ CommitReady
    /\ stored.revision = trial.candidate.revision
    /\ \/ stored' = Advanced(trial.candidate) /\ written' = written \cup {table[trial.id].request}
       \/ UNCHANGED <<stored, written>>
    /\ trial' = [trial EXCEPT !.stage = "written"]
    /\ UNCHANGED <<boot, now, config, table, restart, ota, flags, wifi, business, performed>>

\* Mutant: an error after the write counts as a failure of the request.
CommitUncertain_Failed ==
    /\ trial.stage = "written"
    /\ trial' = NoTrial /\ configUncertain' = TRUE
    /\ Settle(trial.id, "failed")
    /\ \/ config' = stored /\ \E ok \in BOOLEAN : WifiApply(stored.setting, ok)
       \/ config' \in {config, stored} /\ \E ok \in BOOLEAN : WifiApply(Unconfigured, ok)
    /\ UNCHANGED <<stored, boot, now, restart, ota, otaPending, bootUncertain, business, ghosts>>

\* The write was reported, but not proven, or the flash could not be given
\* back: the record is loaded again, or the radio is switched off.
CommitUncertain ==
    /\ trial.stage = "written" \/ CommitReady
    /\ trial' = NoTrial /\ configUncertain' = TRUE
    /\ Settle(trial.id, "unknown")
    /\ \/ config' = stored /\ \E ok \in BOOLEAN : WifiApply(stored.setting, ok)
       \/ config' \in {config, stored} /\ \E ok \in BOOLEAN : WifiApply(Unconfigured, ok)
    /\ UNCHANGED <<stored, boot, now, restart, ota, otaPending, bootUncertain, business, ghosts>>

\* The record was read back as the candidate.
CommitVerified ==
    /\ trial.stage = "written" /\ stored = Advanced(trial.candidate)
    /\ config' = stored /\ trial' = NoTrial
    /\ Settle(trial.id, "succeeded")
    /\ UNCHANGED <<stored, boot, now, restart, ota, flags, wifi, business, ghosts>>

\* Before the write: no memory, or the record cannot be read or opened.
CommitFailed ==
    /\ CommitReady
    /\ trial' = NoTrial
    /\ Settle(trial.id, "failed")
    /\ RestoreCommitted(config)
    /\ UNCHANGED <<stored, boot, now, config, restart, ota, otaPending, bootUncertain, business,
                   ghosts>>

\* The proof did not come in time or cannot come any more.
ProofFailed ==
    /\ trial.stage = "proving"
    /\ now >= trial.deadline \/ link = "failed"
    /\ trial' = NoTrial
    /\ Settle(trial.id, "failed")
    /\ RestoreCommitted(config)
    /\ UNCHANGED <<stored, boot, now, config, restart, ota, otaPending, bootUncertain, business,
                   ghosts>>

PollConfiguration ==
    WriteCandidate \/ CommitUncertain \/ CommitVerified \/ CommitFailed \/ ProofFailed

\* The worker has ended without a selected candidate: a recorded failure, or
\* an uncertain end that closes the gates until the device restarts.
PollOta ==
    /\ OtaActive /\ trial.stage # "written"
    /\ ota' = NoId
    /\ \/ Settle(ota, "failed") /\ UNCHANGED <<configUncertain, bootUncertain>>
       \/ /\ Settle(ota, "unknown")
          /\ configUncertain' \in {configUncertain, TRUE}
          /\ bootUncertain' \in {bootUncertain, TRUE}
          /\ configUncertain' \/ bootUncertain'
    /\ UNCHANGED <<stored, boot, now, config, trial, restart, otaPending, wifi, business, ghosts>>

\* The worker has selected the candidate.
PollOtaSelected ==
    /\ OtaActive /\ boot < MaxBoots
    /\ Reboot
    /\ UNCHANGED performed

\* Mutant: the restart waits for its receipt without a limit.
PollRestart_Unbounded ==
    /\ RestartPending /\ now - restart.since >= MinWait
    /\ restart.receipt = "acked"
    /\ Reboot
    /\ UNCHANGED performed

\* poll_mqtt_restart
PollRestart ==
    /\ RestartPending /\ now - restart.since >= MinWait
    /\ restart.receipt = "acked" \/ now - restart.since >= MaxWait
    /\ Reboot
    /\ UNCHANGED performed

\* The MQTT owner sees the PUBACK of the receipt.
Acknowledge ==
    /\ RestartPending /\ restart.receipt = "queued"
    /\ restart' = [restart EXCEPT !.receipt = "acked"]
    /\ UNCHANGED <<stored, boot, now, config, table, trial, ota, flags, wifi, business, ghosts>>

\* The session ends, and with it the evidence; a later PUBACK does not count.
ReceiptLost ==
    /\ RestartPending /\ restart.receipt # "lost"
    /\ restart' = [restart EXCEPT !.receipt = "lost"]
    /\ UNCHANGED <<stored, boot, now, config, table, trial, ota, flags, wifi, business, ghosts>>

-----------------------------------------------------------------------------
\* The boot task opens the gates once the firmware is verified.
BootVerified ==
    /\ otaPending /\ otaPending' = FALSE
    /\ UNCHANGED <<stored, boot, now, config, table, trial, restart, ota, configUncertain,
                   bootUncertain, wifi, business, ghosts>>

Tick ==
    /\ now < MaxNow /\ now' = now + 1
    /\ UNCHANGED <<stored, boot, config, table, trial, restart, ota, flags, wifi, business, ghosts>>

PowerFailure ==
    /\ boot < MaxBoots
    /\ Reboot
    /\ UNCHANGED performed

Next ==
    \/ \E r \in Requests :
         RestartMqtt(r) \/ RestartUsb(r) \/ \E mqtt \in BOOLEAN : Command(r, mqtt)
    \/ PollConfiguration \/ PollOta \/ PollOtaSelected \/ PollRestart \/ Acknowledge
    \/ ReceiptLost \/ LinkChange \/ BootVerified \/ Tick \/ PowerFailure

\* The control loop runs and the clock advances; nothing is assumed of the
\* network, the upgrade, the radio or the clients.
Fairness == WF_vars(PollConfiguration) /\ WF_vars(PollRestart) /\ WF_vars(Tick)

Spec == Init /\ [][Next]_vars
FairSpec == Spec /\ Fairness

-----------------------------------------------------------------------------
(* Properties *)

\* A request takes effect at most once: copies that arrive later, on the
\* other channel, when the table is full or after a restart change nothing.
AtMostOnce == \A k \in Ids \X (0 .. MaxBoots) : performed[k] <= 1

\* One operation at a time: a request is answered as running exactly as long
\* as the trial, the upgrade or the pending restart is its own, and no two of
\* them overlap; so no request is left running without an owner, and no
\* restart is pending over a trial or an upgrade.
RunningIsOwned ==
    /\ \A i \in Ids : table[i].state = "running" <=> i \in {trial.id, ota, restart.id}
    /\ trial.id # NoId => ota = NoId /\ restart.id = NoId
    /\ ota # NoId => restart.id = NoId

\* Between operations the device runs what it has stored: unless it reports
\* storage_uncertain, the configuration in RAM is the durable record and the
\* selected Wi-Fi is the committed one, however a trial ended.
ConfigIsCommitted ==
    /\ ~configUncertain /\ trial.stage # "written" => config = stored
    /\ ~configUncertain /\ ~TrialActive => selection = config.setting

\* The answer to config.set is true of the flash: succeeded means that the
\* candidate was stored, failed that it never was.
OutcomeIsTrue ==
    \A i \in Ids : table[i] # Free =>
        /\ table[i].state = "succeeded" /\ table[i].request.command = "config" =>
             table[i].request \in written
        /\ table[i].state = "failed" => table[i].request \notin written

\* Within a boot no used identifier is forgotten and no terminal outcome
\* changes, so that every replay returns the same answer.
OutcomeIsFinal ==
    [][boot' = boot => \A i \in Ids :
         /\ table[i] # Free => table'[i] # Free /\ table'[i].request = table[i].request
         /\ table[i].state \in {"succeeded", "failed", "unknown"} => table'[i] = table[i]]_vars

\* A configuration trial ends and a commanded restart happens, whether or not
\* the network ever answers.
RunningSettles ==
    \A i \in Ids :
        (i \in {trial.id, restart.id}) ~> (i \notin {trial.id, restart.id})

\* "while it waits ... a new MQTT or USB write command returns busy"
\* (docs/issues/mqtt-restart-receipt-delivery.md).
PendingRestartIsBusy ==
    [][RestartPending /\ boot' = boot => \A i \in Ids :
         table[i] = Free /\ table'[i] # Free => table'[i].state = "failed"]_vars
=============================================================================
