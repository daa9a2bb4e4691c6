# ESP Base: a TLA+ verification project

ESP Base is firmware for ESP32 and ESP32-C3 devices (`src/firmware`, C on
FreeRTOS) with host tools (`src/tools`, Python). A device is controlled over USB
and MQTT, keeps its configuration in NVS, and upgrades its own firmware between
two application slots. The host tools control a board over USB, publish events to
it, prepare its flash for a new layout, and build and package firmware. This
project models the parts in which concurrency, power failure, unreliable delivery,
changing inputs and deadlines meet, checks them with TLC and proves their safety
with TLAPS.

Short names used below: `PROTO` is
`src/firmware/components/device_protocol/esp_base_protocol.c`, `MAIN` is
`src/firmware/apps/esp_base/main/esp_base_main.c`; other files are named without
their path. `PROJECT.json` gives the source lines of every definition.

## 1. Inventory

### The tasks and what they share

| Task | Runs | Touches |
|---|---|---|
| boot task (`app_main`) | inspects the slots, checks, reconciles an interrupted upgrade, waits 30 s, confirms, records success | otadata, receipt, both storage owners, `ota_verification_pending` |
| control task (`control_task`) | every command of both channels, the polls of Wi-Fi, configuration, upgrade, MQTT and restart | everything in `PROTO`, the configuration record, the receipt |
| OTA worker (`ota_task`) | one upgrade: retire, download, write, select | the inactive slot, the receipt, the stream, `s_ota_*` atomics |
| SDK tasks | Wi-Fi events, MQTT transport | the Wi-Fi event queue, the MQTT event queue |

The tasks interact through atomics (`s_ota_done`, `s_ota_result`, the control
state), two token owners (the short flash claim and the long upgrade claim), a
critical section around the MQTT stream mailbox, and the flash itself.

### Components

| Component | State | Operations | What is hard | What makes it correct |
|---|---|---|---|---|
| flash and upgrade owner (`esp_base_storage_owner.c`, `claim_flash_io`) | active token, next token, the parked claim | claim, release, bounded retry, handoff between two SDK callbacks | preemption between atomics; token exhaustion; a claim parked in a global | one holder at a time, each release succeeds, no lasting reservation |
| upgrade receipt (`esp_base_ota_receipt.c`, `esp_base_ota_firmware.c`) | one durable record: operation, source, candidate, status | register, query, record failure, record success | uncertain writes; a record that must match two slots | a terminal record is true of the flash and final |
| boot task (`MAIN`) | stage, trial flag, gates | inspect, reconcile, confirm, reject, open gates | power failure at every step, also during recovery | a bootable image always; every state it finds is explained; each intent is settled |
| OTA worker and its control (`PROTO`) | request, worker result, uncertainty flags | ota.start, ota.result, `poll_ota`, `ota_task` | worker and poller race; partial SDK failures | only the intent's slot is written; a client is never told what is not recorded |
| MQTT firmware stream (`mqtt_ota_stream.c`, `mqtt_ota_transfer.c`, `mqtt_ota.c`) | block buffer, offsets, deadlines, request | request, offer, read, written, select, close | loss, repetition, reordering, stale frames, timeouts racing progress | the image arrives once and in order; selection only when complete |
| control plane (`PROTO`, `command_guard.c`, `control_state.c`) | request table, outcomes, trial, pending restart, flags | business.pause/resume, config.set, ota.start, restart, the polls | repeated and late requests on two channels, restarts, operations that exclude each other | at most once; one operation; true and final answers |
| remote configuration (`esp_base_remote_config.c`) | the NVS record | load, verified commit, legacy retirement | a write error after a durable write; power failure | RAM, flash and radio agree, or the device says it does not know |
| MQTT owner (`mqtt_owner.c`) | session, retry time, tracked message ids, event sequence | configure, revoke, poll, publish, bind | late events of an old session, stale message ids | only the receipt's own PUBACK counts; events are applied in sequence |
| Wi-Fi runtime (`esp_base_wifi.c`) | selection, stop/connect state, event queue | apply, poll, event | queued events that outlive a selection; queue overflow | "ready" is a proof for the current selection; no dead end |
| native business (`esp_base_business.c`) | count, state, window | event, poll, pause, resume | order of events and commands | pause holds until resume |
| trusted time, identity, safety, observations | flags, read-only data | queries | - | - |
| codecs (`command_decoder.c`, `config_codec.c`, `mqtt_command.c`, `mqtt_event.c`) | none | parse, encode, authenticate | bytes | rejection of anything malformed |
| serial control client (`device_control.py`) | the open port, the first status, a deadline | one command per run, with one or two status exchanges before it | lost lines, a board replaced or restarted between two exchanges, a receipt that comes after the deadline | success is real, a refusal is inert, silence is called neither |
| event publisher (`business_event.py`, `business_event_publish.py`) | frame file, callback queue, MQTT session | sign, connect, subscribe, compare, publish once, judge reports | callbacks against the main thread, a full queue, rival publishers, late reports | a printed result is the event's own; "unpublished" is inert |
| layout migration tools (`prepare_native_layout.py`, `preflight_v3_migration.py`, `archive_esp32_at.py`) | output files | inspect, refuse, build, write in order | a run killed between two files; input files read twice; unsettled operations in the source | a candidate never exists without its backup, and boots what its receipt says |
| build and package tools (`build_package.py`, `build_identity.py`, `package_entry.py`) | frozen inputs, binding, receipt, manifest, package, a lock | freeze, build, manifest, package, verify | edits while a build runs, killed builds, several processes | a receipt stands for the frozen inputs only; a package is of one piece |
| SDK preparation, analysis tools | none kept | git commands; reports over logs | - | - |

`PROJECT.json` lists each with its status, and the hazards with the line at which
each bites.

## 2. Plan

In order of importance; a module is written so that it can be proved about
(parameters as constants with named assumptions, no recursive operators).

1. `StorageOwner`, implementing `ExclusiveOwner` - done, proved.
2. `OtaOperation`: receipt, slots, boot task, worker, control - done, proved.
3. `MqttOtaStream`: the mailbox against an arbitrary network - done, proved.
4. `ControlPlane`: guard, trial, commit, restart, gates - done, proved.
5. `WifiRuntime`: event queue, stop deadline, retry, connection proof - done,
   proved. It justifies the `selection`/`link` part of `ControlPlane`.
6. `HostControl`: the serial client against the board - done, proved.
7. `EventPublish`: the event publisher against broker and device - done, proved.
8. `NativeLayout`: the three migration tools and their files - done, proved.
9. `BuildPackage`: freeze, build and package - done, proved.
10. Every safety property of 1 to 9 as a theorem - done (section 6).
11. `MqttOwner`: session, restart receipt, event sequence, upgrade binding. It
    refines the `receipt` field of a pending restart (`queued`, `acked`, `lost`).
12. `RemoteConfig`: loading, legacy retirement and the commit, write by write;
    `BootWindow`: the 30 s window, the heartbeat of `control_state.c` and its
    wrapping counters.

## 3. Modules and how they correspond to the code

### StorageOwner (abstract: ExclusiveOwner)

One process per task, one action per atomic operation of
`esp_base_storage_claim` and `esp_base_storage_release`; `Park`, `LoadHandoff`
and `ClearHandoff` are the accesses of `ota_flash_acquire`/`_release` to
`s_ota_flash_claim`. `Calls` says which task makes which kind of call ("once",
"retry", "ota"). The upgrade claim is the same algorithm without retry or
handoff; `OtaOperation` uses it as the variable `claim`. `ExclusiveOwner` is the
promise: a holder that passes from nobody to one task and back.

A refused call may always give up (`GiveUp`): `claim_flash_io` returns at once when
`esp_timer_get_time` runs backwards. It may try again (`Retry`) only while its
budget lasts, and `claim_config_flash_io` never does.

### OtaOperation

Durable: `image`, `otaState`, `selected`, `receipt`. Volatile: the stages `main`,
`control` and `worker`, the request, the gates and the uncertainty flags; `Reset`
keeps the durable part only. Each action is one durable write or one read whose
result is used later, so that a power failure or another task can come in
between. The NVS outcome of `Store` is three-valued: written, not written,
reported as an error with either effect. The esp-ota SDK and the bootloader are
not in the repository; `BootChoice`, `Bootloader`, `RetireInactive` and
`SourceProven` are modelled from their use and marked external. Digests are the
images themselves; signatures are assumed to be right.

Some defensive branches of the code are never taken by any behaviour of the model:
the last branch of `reconcile_interrupted_ota` (that is what `BootExplained` says),
and `poll_ota`'s branch for an unknown boot state without an uncertain stage, since
the worker sets both together.

### MqttOtaStream

The fields of `ebase_mqtt_ota_stream_t` one to one, with the worker's position
and the flash it has filled. The network may offer any frame that was ever made,
of any operation, at any time, any number of times; a tag makes two frames for the
same request differ. The critical section makes each call one action, and the
clock is read inside it (a mutant reads it before and makes timeouts false).

### ControlPlane

`table` is `s_guard` with `s_outcomes`; `trial`, `restart` and `ota` are the
operations that may run; `config` is RAM, `stored` is flash; `selection` and
`link` are the Wi-Fi owner as the control task sees it. `Admit` is `ebase_admit`,
`Blocked` are the gates of `handle_command_line` in one predicate (each of them
has the same effect, a failed outcome), `Business`, `Refuse`, `ConfigSet`,
`OtaStart`, `RestartMqtt` and `RestartUsb` are the commands, the rest are the
polls. Every request of `Requests` may arrive in every state on either channel;
replays and rejections change nothing and are stuttering steps.

- A setting stands for a whole configuration. One that changes only MQTT fields
  keeps its connection in the code; in the model it becomes "waiting" and may be
  "ready" in the next step.
- The commit is split at the write (`WriteCandidate`), since power may fail there;
  no command is handled until it is finished, as in the code.
- A pending restart's receipt is `queued`, `acked` or `lost`: the end of a session
  clears the message id, and a later PUBACK does not count.
- `performed` and `written` are bookkeeping and are read by no action.

### WifiRuntime

`s` is the record of the static variables, `d` the radio, `queue` and `overflow`
what `event_received` leaves. `Applied`, `start_selected`, `failed`,
`schedule_retry` are the functions of the file; those that call the SDK return the
set of their possible results, because every call may fail. The poll is three
actions (`Poll`, `TakeEvent`, `PollEnd`), between which the radio may post more
events; `Apply` is called by the same task and never falls inside a poll.

- The radio is external: modes, one association, an address, and an address lease
  that may expire even after the association is gone. A call that fails has no
  effect.
- Times are "later" or "due", and pass between polls, as the poll reads the clock
  once. The retry delay may be anything.
- When a `STOPPED` event is itself lost in an overflow, `s_stopping` stays set: the
  state is `failed`, selections are accepted and none is started until the device
  restarts. The component's README promises no more than `failed`, and no property
  here says more.

### HostControl

Each run of `device_control.py` is a process: `Open` (arguments, configuration
file, exclusive port), `Ready` (`wait_ready` and the first request), `Current` (the
first status and all that is decided on it), `Fresh` (the second status of
`ota_start` and `business_action`), then one action per kind of receipt, or
`Timeout`. `pc` is the exchange a run is in, `cur` its `current`, `outcome` how it
ended: "notsent", "rejected", "succeeded", "running", "unknown" or "timeout", which
are the texts and exit codes of `main` sorted by what they claim.

The board is what a client sees of the control plane: boot, revision, trial,
upgrade; it is written from `PROTO` and not refined by `ControlPlane`. Lines in
both directions may be lost or delayed, the board may lose power and be replaced.

- Queries are modelled with `--device-id` given. Without it the tool accepts the
  board it meets, and there is nothing to relate.
- Receipts are a set; a run forgets its own when it leaves an exchange.
- A write that is cut off may have reached the board or not.
- `--operation-id` is what the operator types: two runs may name the same one. The
  board refuses an identifier it has stored as its last; success of ota.result
  belongs to the identifier, not to the run that first used it.
- `HostAssumption` says `ConfigWait >= Window + TrialTime`. In the code that is
  30 s, 10 s and 20 s, the last being a constant of the firmware: `NoLateCommit` is
  exactly the reason for the 30 s.

### EventPublish

`MakeFrame` is `business_event.py`; the rest of a publisher is
`business_event_publish.py` in two threads: the callbacks post into `queue`
(`queue.Queue(maxsize=32)`) and set `overflow`, and the main thread goes through
connect, subscribe, before, puback, after. `wait_reported` tests `overflow` before
it waits for an item, so `Poll` and the use of the item are separate actions and a
callback may overflow the queue in between. `HandleEvent`, `Reported` and `Restart`
are the event part of `mqtt_owner.c` and `esp_base_business.c`.

- The broker delivers any frame and any report at any time, any number of times.
- A publish that paho refuses sends nothing; the client never connects again
  (`reconnect_on_failure=False`).
- The frame's signature is right exactly if the file was made for the same
  arguments; forged frames are not modelled.

### NativeLayout

A flash is the record of the regions that the tools decide on: identity, slots,
the two otadata copies, configuration, upgrade receipt, package record, product
ledger, AT pages, bootloader. `inspect_source`, `build_candidate`, `ota_selection`
and `audit` have the code's names; `V3Settled`, `V4Settled`, `EcsIsSettled` and
`LedgerIsSettled` are its record checks. Each file is written in two steps
(`CreateFile`, `WriteFile`), because a run may be killed in between, and several
runs compete for the same output names.

- A digest is the value it is taken of. A slot holds a complete image,
  the first byte of one and no more ("header"), or nothing ("erased"); contents that
  do not begin as an image are refused as nothing is. `audit_otadata_and_slots` looks at that byte only (`HasHeader`), and
  its report says that this proves no bootable image; `SelectionAgrees` promises no
  more for preflight.
- The two backups are equal and do not change (both are compared at the start and
  one copy is used); every other input may change at each read, so that a read
  returns any of its possible contents.
- `WellFormed` is what `check_old_layout` has established of a backup by its
  partition table: a layout without a Base store or otadata yields no record from
  them. `FlashAssumption` says it of the flashes the model starts from.
- `Boots` is the bootloader, external, from how otadata is written in the code.

### BuildPackage

Files are `<<>>` or `<<contents>>`. `Validate`, `Lock`, `Adopt`, `Configure`,
`Compile`, `Facts`, `WriteReceipt` are `build`; `Check`, `ReadFiles`,
`WriteManifest`, `Countersign`, `Recheck`, `Publish`, `VerifyPackage` are
`package` (and `manifest`, which ends earlier). What idf.py compiles is the set of
trees it has read: objects of an earlier attempt in the same directory stay.
Edits, touched products and signatures happen at any time and take no lock.

- Edits and touches may be taken back (`Undo`). The tools compare contents, so a
  change that is undone between two checks is invisible to them; `undone` counts
  this, and what the properties say of compiled trees and packaged products is said
  for `undone = 0`.
- The signed image is a path of the operator's. `Sign` puts there a signature of the
  products as they are, or any image of `Elsewhere`: at any time, also between
  `verify_signed` and the second reading (`build_package.py:461` and `:470`).
  Section 7 says what follows from that.
- A package becomes `accepted` with `VerifyPackage`; a run that is killed before
  leaves one that nobody has accepted.
- A kill inside `write_once` leaves a temporary directory behind. If the build
  directory was not bound yet it is refused from then on (`stray`): the build does
  not continue, which is safe.

## 4. Runs

| Run | Module | Bounds | What it shows |
|---|---|---|---|
| StorageOwner | MCStorageOwner | 3 tasks, tokens 1-3, 2 retries | every interleaving of the calls that the tasks really make, past the last token: releases, no lasting reservation, return of each call, refinement |
| OtaOperation | MCOtaOperation | 3 images, 2 operations, 2 resets | all safety properties of the upgrade; an intent is settled or recovery is asked for |
| OtaSameId | MCOtaOperation | 2 images, 2 operations | a divergence, see section 7 |
| MqttOtaStream | MCMqttOtaStream | 2 transfers, 2 blocks with and without tail, clock to 6 | order, completeness, real timeouts, no stall, live requests; a transfer ends |
| ControlPlane | MCControlPlane | 10 requests, 4 identifiers, 3 slots, 2 boots with requests and one after them | the safety of the control plane; a trial ends and a restart happens |
| ControlRestartBusy | MCControlPlane | the same | a divergence, see section 7 |
| WifiRuntime | MCWifiRuntime | 3 networks, two with one SSID, and none; a queue of 4 | what the owner reports is true of the latest selection; no idle station without a retry |
| WifiStopStarts | MCWifiRuntime | the same | a divergence, see section 7 |
| HostControl | MCHostControl | 2 runs, 2 boards, 3 boots each, clock to 6 | what a run reports is what happened; one effect; no commit after config.set gave up |
| EventPublish | MCEventPublish | 2 publishers, 2 events, queue of 2, 2 boots | a result is the event's own; "unpublished" is inert; events apply once and in order |
| NativeLayout | MCNativeLayout | 2 runs, 7 layouts, every pair of otadata copies with sequences to 3 | the candidate is backed and boots what the receipt says; nothing is lost; the tools look at the slot the bootloader starts |
| BuildPackage | MCBuildPackage | 2 processes, 2 Core runs, 1 edit, 1 touch, 1 of them taken back, 1 foreign signed image | a receipt is of the frozen inputs; an accepted package is of one piece |

Why the bounds are enough for the interesting cases:

- `StorageOwner`: three tasks are all there are; token 4 is the reserved value, so
  that the counter is exhausted within the run.
- `OtaOperation`: two resets let a recovery be interrupted itself. Three images
  give an upgrade, a further upgrade and a return to an earlier image; two
  operations let one replace the receipt of the other.
- `MqttOtaStream`: block size 2 with sizes 3 and 4 has a full last block and a
  tail; a one-byte flash buffer makes the acknowledgement lag; the clock ends just
  where a deadline would pass its maximum.
- `ControlPlane`: four identifiers do not fit the table of three; one identifier
  is used for two requests; the last revision is reached by one commit; deadlines
  (2), the window (3) and the uptime (6) let every deadline be met and missed; a
  request is only accepted while its deadline still fits below `MaxNow` and one
  boot is left for the restart it may command.

- `WifiRuntime`: nothing is bounded but the queue, and four events are one more
  than a whole connection posts; a change of the password alone, of the network and
  to no network at all can follow each other at any time.
- `HostControl`: the first run may be any command, the second a configuration or
  an upgrade, so that runs meet on one board and a late
  request of the first is handled while the second waits. Waits of 1, 2 and 3 units
  keep the order of 5, 10 and 30 s and the equation 2 + 1 = 3; both runs may start an
  upgrade under one identifier; two boards allow a
  replacement, two further boots a restart and a power failure.
- `EventPublish`: the second publisher competes for the same sequence with the same
  or another event, or follows with the next one; a queue of two overflows; the
  last sequence is reached; the reports of one boot are seen in the next.
- `NativeLayout`: each layout has the regions that its own checks read, in every
  combination of a few values, while the others are fixed. Two runs are enough for
  one to find what another has left. Sequences 1 to 3 have every order and parity
  of two copies, ties included.
- `BuildPackage`: one edit and one touch can fall between any two steps; one
  of them can be taken back again; two Core runs give the right and the wrong
  identity. The signed image may change at every step without a bound, between the
  signatures of the products at different times and one image of an older tree that
  carries the identity of one Core run: the right one for that run, where nothing
  after `verify_signed` can tell it apart, and a wrong one for the other.

`CHECK_DEADLOCK FALSE` is set where a bound ends the run (clock, boots) or where
the system may stop: a boot that halts after a local failure, host tools that have
all ended, a Wi-Fi driver that could not be initialised. The type invariants and the
plain mutual exclusion of `StorageOwner`, which its refinement includes, are proved
and, except for `ControlPlane`'s, not checked again.

Each property has a mutant of the code (a definition named `<Definition>_<Change>`
just before the definition it changes) under which TLC finds it violated.

## 5. Fairness

- `StorageOwner`: weak fairness of each task's step; FreeRTOS schedules every
  ready task, and `claim_flash_io` sleeps between its tries.
- `OtaOperation`: weak fairness of the boot task, the worker and the control task's
  own continuation; strong fairness of `PollOta`, because `control_task` calls
  `poll_ota` in every pass while commands and queries may disable it in between.
- `MqttOtaStream`: weak fairness of the worker's steps and the clock. Nothing is
  assumed of the network, the sender or the control task.
- `ControlPlane`: weak fairness of `poll_configuration`, `poll_mqtt_restart` and
  the clock, which the endless loop of `control_task` gives. Nothing is assumed of
  the radio, the broker, the upgrade or the clients.
- `WifiRuntime` states its progress as an invariant (`IdleHasRetry`): what the poll
  needs in order to go on is there. That it is called is the loop of `control_task`.
- The host modules state safety only. Their progress is a deadline on every wait
  (`Timeout`), or a straight run to the end.

## 6. Proofs

All theorems hold for every value of the constants allowed by the named
assumptions (`OwnerAssumption`, `OtaAssumption`, `StreamAssumption`,
`FrameAssumption`, `ControlAssumption`, `WifiAssumption`, `HostAssumption`,
`PublishAssumption`, `LayoutAssumption`, `FlashAssumption`, `BuildAssumption`,
`ElsewhereAssumption`).
They say that the sets and numbers are what their names say, with two exceptions
that have a reason in the code: `FlashAssumption` (see `NativeLayout`), and in
`HostAssumption` the inequality of the three waiting times. TLC evaluates them in
every run.

Every proof has one inductive invariant (`OwnerInv` for the flash owner, else
`IInv`), a lemma per action (or group of similar actions) that preserves it, and one
temporal step per theorem. TLC has checked each of these invariants on the
instances of the runs before it was proved.

**OwnerProofs**, the owners of the flash and of the radio. For `StorageOwner`:
`TypeCorrect`, `Exclusion`, `ReleaseCorrect`, `Refinement`.
Exclusion is not inductive: the invariant extends it to the tasks that are still
reserving (`ExclusiveInv`), and adds that the owner's word is the reserved value
while they do (`ReservedInv`), that a fresh token is a legal one (`MintedInv`), and
that afterwards the word is the holder's token, wherever that is kept: in its own
claim or in the shared handoff variable (`HeldInv`).

For `WifiRuntime`: `WifiTypes`, `WifiProof`, `WifiRetries`. What the radio does
follows from the owner's fields and the events still queued: the owner knows whether
it runs (`ModeInv`), a link is one to the configured network (`LinkInv`,
`ConfigInv`), a stop is reported once and only while it is awaited (`StoppedInv`),
a start likewise (`StartedInv`). An owner without a link then waits for an event
that is queued or counted as lost, or has a retry set (`RetryInv`), and one that is
ready has a link or the news of its loss ahead (`ReadyInv`).

**OtaOperationProofs.** `OtaTypes`, `OtaAlwaysBoots`, `OtaBootExplained`,
`OtaTerminalTruth`, `OtaToldIsDurable`, `OtaWorkerOwnsIntent`,
`OtaIntentBeforeWrite`, `OtaResultIsFinal`. The heart is `SlotsInv`: under a
prepared receipt the flash is either at the source, with a target that cannot be
selected unless it is whole, or at the candidate with the source as confirmed
fallback. `RunInv`, `BootInv`, `RequestInv` and `WorkInv` tie the three tasks to
it: how far the worker has come says how dirty the target may be, and who holds the
upgrade claim says which task may write.

**MqttOtaStreamProofs.** `StreamTypeCorrect`, `ReceivedInOrder`,
`SelectedComplete`, `TimeoutReal`, `DataRequestAnswerable`, `NeverStalls`. The
invariant relates the offsets (`PosInv`), the buffered block (`BlockInv`: it is this
operation's, at the read offset), the outstanding request (`RequestInv`) and the
deadlines (`ClockInv`). That the stream never stalls needs a second one on top: a
block begins at a multiple of the block size and is full unless it ends the image
(`AlignInv`), so that a reader who has used up a block is at the next one to be
requested (`RoundInv`).

**ControlPlaneProofs.** `ControlTypes`, `ControlAtMostOnce`,
`ControlRunningIsOwned`, `ControlConfigIsCommitted`, `ControlOutcomeIsTrue`,
`ControlOutcomeIsFinal`. At most once needs `CountInv`: what has taken effect is in
the table or belongs to an earlier boot, and `KeyInv`: the table is of this boot.
The truth of an answer needs `WrittenInv`: as long as the answer is "running", a
stored candidate is the trial's and its commit is not finished.

**HostControlProofs.** `HostTypes`, `HostSuccess`, `HostRefusal`, `HostOneEffect`,
`HostNoLateCommit`. A run's write is in one place at a time: on the line
(`WriteInv`), in a trial (`TrialInv`), in an upgrade (`OtaInv`) or done
(`EffectInv`). While it is not done the run has promised nothing (`Pending`); before
it is sent, and after a refusal, it is nowhere (`Inert`), and nothing brings it
back. A receipt of a write says where it is (`WriteReceipt`). Uniqueness over the
boards follows because a write names its board and boot. `InTime` bounds what is on
the line by the deadline of the wait, which is where
`ConfigWait >= Window + TrialTime` is used. `MoveStep` covers every step of a
client, `BoardStep` every step of a board or of the environment.

**EventPublishProofs.** `PublishTypes`, `PublishedResult`, `UnpublishedInert`,
`AppliedOnce`. A report stays true for ever, since what was applied stays applied
(`ReportInv`, `Shown`); so what is in a publisher's queue (`QueueInv`) and what it
prints (`MainInv`) is true however late it is read. A frame on the wire is its
publisher's, who knows of it (`WireInv`). The device has completed what it accepted
and counts it (`DeviceInv`), and what was applied is not beyond that count
(`AppliedInv`), hence in order and once.

**NativeLayoutProofs.** `LayoutTypes`, `CandidateBacked`, `SelectionCorrect`,
`ReceiptTrue`, `NothingLost`. The files a run has written stand whole behind it
(`WroteInv`), a file under way belongs to one run (`OpenInv`), what a run has read it
remembers (`KnowsInv`), and every finished file holds what its writer knew
(`HoldsInv`). The statements about the flash then follow from the conditions of
`inspect_source` and `audit`; that the slot is the bootloader's is arithmetic on the
two sequence numbers.

**BuildPackageProofs.** `BuildTypes`, `BuildFrozen`, `PackageBuilt`. Binding,
snapshot, receipt, manifest and signature are written once. As long as nothing was
taken back (`undone = 0`) the tree and the products only move forward (`AtMost`,
`Later`): what equals the frozen value at the last check equalled it at every
compilation since the first, and products read between two equal readings are the
same (`ProductsOf`). What is published carries the manifest its writer knew
(`PublishedInv`). Of the signed image no assumption is made: it is any of
`Elsewhere`, and the proof uses only that the verified one was a signature of the
recorded products. The lock excludes a second build meanwhile.

Only model-checked: the liveness properties (`ReservationEnds`, `CallReturns`,
`IntentSettles`, `TransferEnds`, `RunningSettles`), since fairness and `ENABLED` are
beyond the prover. Every other property of a passing run is a theorem.

## 7. Divergences between text and code

- **OtaSameId.** `esp_base_ota_receipt.h:61` says "the same ID never starts twice".
  `esp_base_ota_receipt_register` compares with the one stored receipt; after
  another operation has replaced it, the first identifier can be registered again.
- **ControlRestartBusy.** `docs/issues/mqtt-restart-receipt-delivery.md:21` says
  that a new write command gets "busy" while a restart waits for its receipt.
  `handle_command_line` executes business.pause and business.resume before that
  gate.
- **WifiStopStarts.** A comment in `esp_base_wifi_apply` (`esp_base_wifi.c:84`) says
  "Latest explicit selection starts after STOP". When a stop takes longer than 2 s
  the state becomes `failed` while the stop is still under way.
  `poll_configuration` then ends the trial and applies the committed configuration,
  which is accepted with `ESP_OK`; but the `STOPPED` event starts nothing in the
  state `failed`. The device stays offline, and reports `failed`, until another
  selection is applied.

Two more gaps are within the models without a run of their own:

- **The signed image is read twice.** `src/tools/README.md:69-70` says that every
  signature has to cover the original bytes of this build, and an old signature or
  an approximate rebuild cannot stand in; `verify_signed` (`build_package.py:424`)
  enforces it for the file it reads at `:461`. The package takes the file as it is
  at `:470`, and from there on only identity, target, size and signature key are
  looked at (`:522`, `:591`). If the operator's file is replaced in between by
  another image with the same identity and a valid signature, the package is
  accepted with an image that is not the recorded build. `PackageIsBuilt` therefore
  says `a.firmware = a.seen => ...`: dropping that condition makes TLC show a behaviour
  of 22 states that ends in such a package.
- **Edit and restore.** A change of the tree that is taken back before the second
  validation (`build_package.py:417`) may be compiled in. Contents are compared, not
  times, so the receipt does not show it; `BuildIsFrozen` says so with `undone = 0`.

## 8. Not modelled

- The components that are still planned (section 2, items 11 and 12): the MQTT owner
  beyond its event sequence, the loading of legacy
  configurations, the heartbeat of the stability window, the throughput window of
  the native business, trusted time.
- Byte formats, JSON, cryptography: data without control. The models take
  authentication and decoding as right; a frame carries the operation it was made
  for, a request its fingerprint.
- The serial line reader, periodic reports and diagnostic counters.
- The heartbeat inside the stability window: one step of `OtaOperation` that
  succeeds or fails.
- SDK preparation and the analysis tools (`analyze_capacity.py`,
  `prepare_capacity_observer.py` and the like): straight-line programs over a
  checkout or recorded logs, without state of their own. The verdict on the SDK is
  part of the frozen inputs of `BuildPackage`.
- Inside the modelled host tools: JSON and field formats, partition tables, the NVS
  page parser, the ELF and image parsers. Each is represented by its verdict.
- Weak memory: the atomics are used with acquire and release order, and the models
  interleave them sequentially.
