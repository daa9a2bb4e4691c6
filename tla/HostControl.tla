---------------------------- MODULE HostControl ----------------------------
(***************************************************************************)
(* tools/device_control.py: the serial client of the control protocol, run *)
(* by an operator against the board on a serial endpoint.  Each run opens  *)
(* the port for itself, waits for a boot report, asks for the status and   *)
(* then sends its one command.  The board may lose power, be replaced by   *)
(* another one, answer late or not at all; a line may be lost either way.  *)
(*                                                                         *)
(* The board is what a client sees of device_protocol/esp_base_protocol.c  *)
(* (ControlPlane has the detail).  Requests on the line are a set: each is *)
(* handled at most once, perhaps never.  Receipts are a set too: a client  *)
(* that may miss any line and stops at the first decisive one sees no more *)
(* of their order.  Time counts from one clock; uptimes are times since.   *)
(***************************************************************************)
EXTENDS Naturals

CONSTANTS Runs,         \* invocations of the tool
          NoRun,
          Boards,       \* device identities
          NoBoot,       \* a boot that was not observed
          Invocations,  \* the arguments operators may give each run
          ReadyWait,    \* 8 s for the boot report
          ReceiptWait,  \* 5 s for a receipt
          ConfigWait,   \* 30 s for the receipt of a configuration
          Window,       \* 10 s until a write request expires
          TrialTime,    \* 20 s to prove a configuration (firmware)
          MaxRevision,  \* UINT32_MAX
          MaxBoots,     \* bound: boots of a board
          MaxClock      \* bound: time explored

Writes == {"config.set", "ota.start", "business", "restart"}
Reads == {"status", "query", "ota.result"}
Commands == Writes \cup Reads

\* The exchanges of a run; each has a fresh request_id, here its name.
Phases == {"status", "fresh", "reply", "observe"}
Ids == Runs \X Phases
Outcomes == {"none", "notsent", "rejected", "succeeded", "running", "unknown", "timeout"}

Config == [schema : {3, 4}, business : {"null", "set"}, wifi : {"null", "good", "bad"},
           mqtt : {"null", "good", "bad"}]

\* What the operator asks for: --device-id, --operation-id, --config-file.
Args == [command : Commands, board : Boards, op : Runs, config : Config]

ASSUME HostAssumption ==
    /\ NoRun \notin Runs /\ NoBoot \notin Nat
    /\ Invocations \in [Runs -> SUBSET Args]
    /\ ReadyWait \in Nat /\ ReceiptWait \in Nat /\ ConfigWait \in Nat
    /\ Window \in Nat /\ TrialTime \in Nat
    /\ ConfigWait >= Window + TrialTime
    /\ MaxRevision \in Nat /\ MaxBoots \in Nat /\ MaxClock \in Nat

\* The facts of a status receipt that later steps use.
Status == [board : Boards, boot : Nat \cup {NoBoot}, revision : Nat]

Request ==
    [id : Ids, command : Commands, board : Boards, boot : Nat \cup {NoBoot},
     revision : Nat, expires : Nat, op : Runs]

States == {"running", "succeeded", "failed", "expired", "unknown"}
Receipt ==
    [id : Ids, board : Boards, boot : Nat, state : States, revision : Nat, at : Nat,
     ota : BOOLEAN]

NoTrial == [run |-> NoRun]
Trial == [run : Runs, deadline : Nat, boot : Nat]
NoOta == [run |-> NoRun, op |-> NoRun, state |-> "none"]
Ota == [run : Runs, op : Runs, state : {"running", "succeeded", "failed"}]

VARIABLES
  (* the client *)
  owner,      \* the run that holds the port
  pc,         \* where each run is
  args,       \* its arguments
  cur,        \* current: its first status
  deadline,   \* of the wait it is in
  outcome,    \* how it ended
  (* the line *)
  requests,   \* written and not yet handled
  receipts,   \* ever emitted by a board
  (* the board *)
  attached,   \* the board on the endpoint
  boot, revision, trial, ota,
  clock,
  (* bookkeeping *)
  effects     \* requests that took effect: run, board, boot and revision

client == <<owner, pc, args, cur, deadline, outcome>>
board == <<attached, boot, revision, trial, ota>>
vars == <<client, requests, receipts, board, clock, effects>>

Effect == [run : Runs, board : Boards, boot : Nat, revision : Nat]

TypeOK ==
    /\ owner \in Runs \cup {NoRun}
    /\ pc \in [Runs -> {"idle", "ready", "done"} \cup Phases]
    /\ args \in [Runs -> Args] /\ cur \in [Runs -> Status]
    /\ deadline \in [Runs -> Nat] /\ outcome \in [Runs -> Outcomes]
    /\ requests \subseteq Request /\ receipts \subseteq Receipt
    /\ attached \in Boards /\ boot \in [Boards -> Nat] /\ revision \in [Boards -> Nat]
    /\ trial \in [Boards -> Trial \cup {NoTrial}] /\ ota \in [Boards -> Ota \cup {NoOta}]
    /\ clock \in Nat /\ effects \subseteq Effect

Init ==
    /\ owner = NoRun
    /\ pc = [r \in Runs |-> "idle"]
    /\ args \in [Runs -> UNION {Invocations[r] : r \in Runs}] /\ \A r \in Runs : args[r] \in Invocations[r]
    /\ cur = [r \in Runs |-> [board |-> args[r].board, boot |-> NoBoot, revision |-> 0]]
    /\ deadline = [r \in Runs |-> 0] /\ outcome = [r \in Runs |-> "none"]
    /\ requests = {} /\ receipts = {}
    /\ attached \in Boards
    /\ boot = [b \in Boards |-> 0] /\ revision = [b \in Boards |-> 0]
    /\ trial = [b \in Boards |-> NoTrial] /\ ota = [b \in Boards |-> NoOta]
    /\ clock = 0 /\ effects = {}

-----------------------------------------------------------------------------
(* The port and the waits *)

\* Mutant: every receipt is waited for equally long.
WaitFor_Short(r, phase) == ReceiptWait

\* How long a run waits for an answer.
WaitFor(r, phase) ==
    IF phase = "reply" /\ args[r].command = "config.set" THEN ConfigWait ELSE ReceiptWait

\* A run that moves on has read its lines, and no one else looks at what is left
\* of them or answers to a read nobody waits for.  A write stays on the line.
Leave(r) ==
    /\ receipts' = {a \in receipts : a.id[1] # r}
    /\ UNCHANGED <<args, board, clock, effects>>
Line(r) == {q \in requests : q.id[1] # r \/ q.command \in Writes}

\* An exception or the end of main: the port is closed whatever happened.
Finish(r, how) ==
    /\ pc' = [pc EXCEPT ![r] = "done"] /\ outcome' = [outcome EXCEPT ![r] = how]
    /\ owner' = NoRun /\ deadline' = [deadline EXCEPT ![r] = 0]
    /\ Leave(r)

End(r, how) == Finish(r, how) /\ requests' = Line(r)

\* send: the line is written and the wait for its receipt begins; or the write
\* is cut off, and then the board may have the line (the next client's leading
\* newline ends it) or not.
Send(r, phase, request) ==
    \/ /\ requests' = Line(r) \cup {request}
       /\ pc' = [pc EXCEPT ![r] = phase]
       /\ deadline' = [deadline EXCEPT ![r] = clock + WaitFor(r, phase)]
       /\ Leave(r)
       /\ UNCHANGED <<owner, outcome>>
    \/ /\ \/ requests' = Line(r)
          \/ request.command \in Writes /\ requests' = Line(r) \cup {request}
       /\ Finish(r, IF phase \in {"reply", "observe"} /\ args[r].command \in Writes
                       THEN "unknown" ELSE "notsent")

\* A read names no board, boot or deadline.
ReadRequest(r, phase, command) ==
    [id |-> <<r, phase>>, command |-> command, board |-> args[r].board, boot |-> NoBoot,
     revision |-> 0, expires |-> 0, op |-> args[r].op]

\* A write is bound to the board and boot of the first status; at is the uptime
\* its deadline is counted from.
WriteRequest(r, status, at) ==
    [id |-> <<r, "reply">>, command |-> args[r].command, board |-> status.board,
     boot |-> status.boot, revision |-> status.revision, expires |-> at + Window,
     op |-> args[r].op]

\* read_result: any line with this request_id that the format check lets pass.
Answers(r) == {a \in receipts : a.id = <<r, pc[r]>>}
StatusOf(a) == [board |-> a.board, boot |-> a.boot, revision |-> a.revision]

\* canonical_id and validate_configuration.
validate_configuration(config) ==
    /\ config.schema = 4 /\ config.business = "null"
    /\ config.wifi \in {"null", "good"} /\ config.mqtt \in {"null", "good"}

-----------------------------------------------------------------------------
(* main *)

\* Arguments and the private configuration file are checked before the port is
\* opened for this run alone; a port in use or a bad file ends the run.
Open(r) ==
    /\ pc[r] = "idle" /\ clock + ReadyWait + ReceiptWait + ReceiptWait + ConfigWait <= MaxClock
    /\ \/ /\ owner = NoRun /\ owner' = r
          /\ pc' = [pc EXCEPT ![r] = "ready"]
          /\ deadline' = [deadline EXCEPT ![r] = clock + ReadyWait]
          /\ UNCHANGED outcome
       \/ /\ pc' = [pc EXCEPT ![r] = "done"]
          /\ outcome' = [outcome EXCEPT ![r] = "notsent"]
          /\ UNCHANGED <<owner, deadline>>
    /\ UNCHANGED <<args, cur, requests, receipts, board, clock, effects>>

\* wait_ready: a boot report, perhaps an old one still in the buffer, and the
\* status request that follows it.
Ready(r) ==
    /\ pc[r] = "ready"
    /\ Send(r, "status", ReadRequest(r, "status", "status"))
    /\ UNCHANGED cur

\* Checks between the first status and the command that can still end the run:
\* the configuration, the last revision, the local firmware file.
Prepared(r, status) ==
    /\ args[r].command = "config.set" =>
          validate_configuration(args[r].config) /\ status.revision < MaxRevision

\* The first status.  A refused request, the wrong board or a failed check end
\* the run; restart and config.set are sent at once, ota.start and a business
\* action look at the board again first.
Current(r) ==
    /\ pc[r] = "status"
    /\ \E a \in Answers(r) :
         LET status == StatusOf(a)
             command == args[r].command IN
         /\ cur' = [cur EXCEPT ![r] = status]
         /\ \/ /\ \/ a.state # "succeeded" \/ a.board # args[r].board \/ ~Prepared(r, status)
                  \/ command = "ota.start"
               /\ End(r, "notsent")
            \/ /\ a.state = "succeeded" /\ a.board = args[r].board /\ Prepared(r, status)
               /\ \/ command = "status" /\ End(r, "succeeded")
                  \/ /\ command \in {"query", "ota.result"}
                     /\ Send(r, "reply", ReadRequest(r, "reply", command))
                  \/ /\ command \in {"restart", "config.set"}
                     /\ Send(r, "reply", WriteRequest(r, status, a.at))
                  \/ /\ command \in {"ota.start", "business"}
                     /\ Send(r, "fresh", ReadRequest(r, "fresh", "status"))

\* Mutant: the write goes to the boot that answered last.
Fresh_AnyBoot(r) ==
    /\ pc[r] = "fresh"
    /\ \E a \in Answers(r) :
         /\ a.state = "succeeded"
         /\ Send(r, "reply", WriteRequest(r, StatusOf(a), a.at))
    /\ UNCHANGED cur

\* The second status of ota_start and business_action: another board or boot,
\* or an upgrade that is not ready, and nothing is sent.
Fresh(r) ==
    /\ pc[r] = "fresh"
    /\ \E a \in Answers(r) :
         LET same == a.state = "succeeded" /\ a.board = cur[r].board /\ a.boot = cur[r].boot
                        /\ (args[r].command = "ota.start" => a.ota) IN
         \/ ~same /\ End(r, "notsent")
         \/ same /\ Send(r, "reply", WriteRequest(r, cur[r], a.at))
    /\ UNCHANGED cur

-----------------------------------------------------------------------------
(* The receipt of the command *)

FromCurrent(r, a) == a.board = cur[r].board /\ a.boot = cur[r].boot

\* How a receipt that is neither progress nor success ends a run.
Rejected(a) == IF a.state = "unknown" THEN "unknown" ELSE "rejected"

\* Mutant: the progress report of a configuration counts as its success.
ConfigReply_Early(r) ==
    /\ pc[r] = "reply" /\ args[r].command = "config.set"
    /\ \E a \in Answers(r) :
         /\ FromCurrent(r, a)
         /\ \/ a.state \in {"failed", "expired", "unknown"} /\ End(r, Rejected(a))
            \/ a.state \in {"succeeded", "running"} /\ End(r, "succeeded")
    /\ UNCHANGED cur

\* apply_configuration: receipts of another board or boot are skipped, success
\* needs the next revision.
ConfigReply(r) ==
    /\ pc[r] = "reply" /\ args[r].command = "config.set"
    /\ \E a \in Answers(r) :
         /\ FromCurrent(r, a)
         /\ \/ a.state \in {"failed", "expired", "unknown"} /\ End(r, Rejected(a))
            \/ /\ a.state = "succeeded"
               /\ End(r, IF a.revision = cur[r].revision + 1 THEN "succeeded" ELSE "unknown")
    /\ UNCHANGED cur

\* restart: after the receipt, half a second, then a status of the new boot.
RestartReply(r) ==
    /\ pc[r] = "reply" /\ args[r].command = "restart"
    /\ \E a \in Answers(r) :
         /\ FromCurrent(r, a)
         /\ \/ /\ a.state \in {"failed", "expired", "unknown"}
               /\ End(r, Rejected(a))
            \/ /\ a.state = "running"
               /\ Send(r, "observe", ReadRequest(r, "observe", "status"))
    /\ UNCHANGED cur

\* The status after a restart.
Observed(r) ==
    /\ pc[r] = "observe"
    /\ \E a \in Answers(r) :
         End(r, IF a.state = "succeeded" /\ a.board = cur[r].board /\ a.boot # cur[r].boot
                      THEN "succeeded" ELSE "unknown")
    /\ UNCHANGED cur

\* ota_start: the receipt is passed on; one of another board or boot, or one
\* that claims a result, proves nothing.
OtaStartReply(r) ==
    /\ pc[r] = "reply" /\ args[r].command = "ota.start"
    /\ \E a \in Answers(r) :
         End(r, IF ~FromCurrent(r, a) \/ a.state = "succeeded" THEN "unknown"
                   ELSE IF a.state = "running" THEN "running" ELSE Rejected(a))
    /\ UNCHANGED cur

\* query_capability and business_action pass the first receipt of this boot on.
\* A board has no running state for these.
AnswerReply(r) ==
    /\ pc[r] = "reply" /\ args[r].command \in {"business", "query"}
    /\ \E a \in Answers(r) :
         End(r, IF ~FromCurrent(r, a) THEN "unknown"
                   ELSE IF a.state = "succeeded" THEN "succeeded" ELSE Rejected(a))
    /\ UNCHANGED cur

\* ota_result passes the durable result on, also from a later boot of the board.
OtaResultReply(r) ==
    /\ pc[r] = "reply" /\ args[r].command = "ota.result"
    /\ \E a \in Answers(r) :
         End(r, IF a.board # cur[r].board THEN "unknown"
                   ELSE IF a.state \in {"succeeded", "running"} THEN a.state ELSE Rejected(a))
    /\ UNCHANGED cur

\* Mutant: silence counts as a refusal.
Timeout_Rejected(r) ==
    /\ pc[r] \notin {"idle", "done"} /\ clock >= deadline[r]
    /\ End(r, IF pc[r] = "reply" THEN "rejected" ELSE "notsent")
    /\ UNCHANGED cur

\* No decisive line before the deadline.  Nothing is ever sent again.
Timeout(r) ==
    /\ pc[r] \notin {"idle", "done"} /\ clock >= deadline[r]
    /\ End(r, IF pc[r] \in {"reply", "observe"} THEN "timeout" ELSE "notsent")
    /\ UNCHANGED cur

Client(r) ==
    \/ Open(r) \/ Ready(r) \/ Current(r) \/ Fresh(r) \/ ConfigReply(r) \/ RestartReply(r)
    \/ Observed(r) \/ OtaStartReply(r) \/ AnswerReply(r) \/ OtaResultReply(r) \/ Timeout(r)

-----------------------------------------------------------------------------
(* The board: handle_command_line and the polls, as a serial client sees them *)

Reply(q, b, state, facts) ==
    [id |-> q.id, board |-> b, boot |-> boot[b], state |-> state, revision |-> facts.revision,
     at |-> facts.at, ota |-> facts.ota]
NoFacts == [revision |-> 0, at |-> 0, ota |-> FALSE]
Took(r, b, new) == [run |-> r, board |-> b, boot |-> boot[b], revision |-> new]
Emit(a) == receipts' = receipts \cup {a}
OtaRunning(b) == ota[b].state = "running"

\* status, firmware.status, business.status and ota.result.  A board may fail
\* to answer for want of memory; ota.result is the durable operation's state.
HandleRead(q) ==
    /\ q \in requests /\ q.command \in Reads
    /\ requests' = requests \ {q}
    /\ \E facts \in {[revision |-> revision[attached], at |-> clock,
                      ota |-> ~OtaRunning(attached)]} :
         \/ q.command = "status" /\ Emit(Reply(q, attached, "succeeded", facts))
         \/ q.command = "query" /\ Emit(Reply(q, attached, "succeeded", NoFacts))
         \/ q.command = "ota.result" /\ ota[attached].op = q.op
               /\ Emit(Reply(q, attached, ota[attached].state, NoFacts))
         \/ q.command = "ota.result" /\ Emit(Reply(q, attached, "unknown", NoFacts))
         \/ Emit(Reply(q, attached, "failed", NoFacts))
    /\ UNCHANGED <<client, board, clock, effects>>

\* ebase_admit: bound to this board, this boot and inside its window.
Admitted(q) ==
    q.board = attached /\ q.boot = boot[attached] /\ clock < q.expires

\* A write that is not admitted, or for which a gate is closed.
HandleRefused(q) ==
    /\ q \in requests /\ q.command \in Writes
    /\ requests' = requests \ {q}
    /\ \/ Emit(Reply(q, attached, "failed", NoFacts))
       \/ q.board = attached /\ q.boot = boot[attached] /\ clock >= q.expires
             /\ Emit(Reply(q, attached, "expired", NoFacts))
    /\ UNCHANGED <<client, board, clock, effects>>

\* business.pause and business.resume.
HandleBusiness(q) ==
    /\ q \in requests /\ q.command = "business" /\ Admitted(q)
    /\ requests' = requests \ {q}
    /\ Emit(Reply(q, attached, "succeeded", NoFacts))
    /\ effects' = effects \cup {Took(q.id[1], attached, revision[attached])}
    /\ UNCHANGED <<client, board, clock>>

\* config.set starts a trial.
HandleConfig(q) ==
    /\ q \in requests /\ q.command = "config.set" /\ Admitted(q)
    /\ trial[attached] = NoTrial /\ ~OtaRunning(attached)
    /\ q.revision = revision[attached] /\ q.revision < MaxRevision
    /\ requests' = requests \ {q}
    /\ Emit(Reply(q, attached, "running", NoFacts))
    /\ trial' = [trial EXCEPT ![attached] =
                    [run |-> q.id[1], deadline |-> clock + TrialTime, boot |-> boot[attached]]]
    /\ UNCHANGED <<client, attached, boot, revision, ota, clock, effects>>

\* A receipt of a request that was handled earlier.
Outcome(r, b, state, new) ==
    [id |-> <<r, "reply">>, board |-> b, boot |-> boot[b], state |-> state, revision |-> new,
     at |-> 0, ota |-> FALSE]

\* poll_configuration: a proven candidate is committed and read back, or the
\* write is uncertain, or there was no proof in time.
TrialEnds(b) ==
    /\ trial[b] # NoTrial
    /\ trial' = [trial EXCEPT ![b] = NoTrial]
    /\ LET r == trial[b].run IN
       \/ /\ clock < trial[b].deadline
          /\ revision' = [revision EXCEPT ![b] = @ + 1]
          /\ effects' = effects \cup {Took(r, b, revision[b] + 1)}
          /\ \/ Emit(Outcome(r, b, "succeeded", revision[b] + 1))
             \/ Emit(Outcome(r, b, "unknown", 0))
       \/ /\ clock < trial[b].deadline
          /\ Emit(Outcome(r, b, "unknown", 0)) /\ UNCHANGED <<revision, effects>>
       \/ /\ Emit(Outcome(r, b, "failed", 0)) /\ UNCHANGED <<revision, effects>>
    /\ UNCHANGED <<client, requests, attached, boot, ota, clock>>

\* The next boot: volatile state is lost, and an upgrade that was running is
\* found to have failed.
NewBoot(b) ==
    /\ boot' = [boot EXCEPT ![b] = @ + 1]
    /\ trial' = [trial EXCEPT ![b] = NoTrial]
    /\ ota' = [ota EXCEPT ![b].state = IF @ = "running" THEN "failed" ELSE @]

\* restart over the serial port: the receipt, and then the restart.
HandleRestart(q) ==
    /\ q \in requests /\ q.command = "restart" /\ Admitted(q)
    /\ trial[attached] = NoTrial /\ ~OtaRunning(attached) /\ boot[attached] < MaxBoots
    /\ requests' = requests \ {q}
    /\ Emit(Reply(q, attached, "running", NoFacts))
    /\ effects' = effects \cup {Took(q.id[1], attached, revision[attached])}
    /\ NewBoot(attached)
    /\ UNCHANGED <<client, attached, revision, clock>>

\* ota.start registers the operation and starts the worker, unless the stored
\* receipt is of an operation with the same --operation-id.
HandleOta(q) ==
    /\ q \in requests /\ q.command = "ota.start" /\ Admitted(q)
    /\ trial[attached] = NoTrial /\ ~OtaRunning(attached) /\ ota[attached].op # q.op
    /\ requests' = requests \ {q}
    /\ Emit(Reply(q, attached, "running", NoFacts))
    /\ ota' = [ota EXCEPT ![attached] = [run |-> q.id[1], op |-> q.op, state |-> "running"]]
    /\ UNCHANGED <<client, attached, boot, revision, trial, clock, effects>>

\* poll_ota: the worker ends without a candidate, or the candidate is selected
\* and boots (OtaOperation has the boots in between).
OtaEnds(b) ==
    /\ OtaRunning(b)
    /\ \/ /\ ota' = [ota EXCEPT ![b].state = "failed"]
          /\ \E state \in {"failed", "unknown"} : Emit(Outcome(ota[b].run, b, state, 0))
          /\ UNCHANGED <<boot, effects>>
       \/ /\ boot[b] < MaxBoots
          /\ boot' = [boot EXCEPT ![b] = @ + 1]
          /\ ota' = [ota EXCEPT ![b].state = "succeeded"]
          /\ effects' = effects \cup {Took(ota[b].run, b, revision[b])}
          /\ UNCHANGED receipts
    /\ UNCHANGED <<client, requests, attached, revision, trial, clock>>

PowerFailure ==
    /\ boot[attached] < MaxBoots
    /\ NewBoot(attached)
    /\ UNCHANGED <<client, requests, receipts, attached, revision, clock, effects>>

\* Another board is connected to the endpoint; what was on the line reaches it.
Replace ==
    /\ attached' \in Boards \ {attached}
    /\ UNCHANGED <<client, requests, receipts, boot, revision, trial, ota, clock, effects>>

\* Time passes; a client's clock check comes within the same unit.
Tick ==
    /\ clock < MaxClock
    /\ \A r \in Runs : pc[r] \in {"idle", "done"} \/ clock < deadline[r]
    /\ clock' = clock + 1
    /\ UNCHANGED <<client, requests, receipts, board, effects>>

Handle(q) ==
    \/ HandleRead(q) \/ HandleRefused(q) \/ HandleBusiness(q) \/ HandleConfig(q)
    \/ HandleRestart(q) \/ HandleOta(q)

Next ==
    \/ \E r \in Runs : Client(r)
    \/ \E q \in requests : Handle(q)
    \/ \E b \in Boards : TrialEnds(b) \/ OtaEnds(b)
    \/ PowerFailure \/ Replace \/ Tick

Spec == Init /\ [][Next]_vars

-----------------------------------------------------------------------------
(* Properties *)

EffectsOf(r) == {e \in effects : e.run = r}

\* A run that reports success tells the truth: a configuration was committed as
\* the next revision on the named board, a business action was carried out, a
\* restart was carried out and left the boot it was sent to.  For ota.result: the
\* candidate of a run with that --operation-id was selected on that board.
SuccessIsReal ==
    \A r \in Runs : outcome[r] = "succeeded" =>
        /\ args[r].command \in Writes =>
              \E e \in EffectsOf(r) :
                 /\ e.board = args[r].board
                 /\ args[r].command = "config.set" => e.revision = cur[r].revision + 1
                 /\ args[r].command = "restart" => boot[e.board] > e.boot
        /\ args[r].command = "ota.result" =>
              \E e \in effects :
                 /\ args[e.run].command = "ota.start" /\ args[e.run].op = args[r].op
                 /\ e.board = args[r].board

\* A run that ended before its command was sent, or with a refusal by the
\* board, has changed nothing and never will.
RefusalIsInert ==
    \A r \in Runs : outcome[r] \in {"notsent", "rejected"} => EffectsOf(r) = {}

\* A run takes effect at most once, whatever was lost, and only on the board the
\* operator named and in the boot whose status was shown to be current.
OneEffect ==
    \A r \in Runs : \A e, f \in EffectsOf(r) :
        e = f /\ e.board = args[r].board /\ e.boot = cur[r].boot

\* When config.set gives up waiting its configuration can no longer be committed:
\* the request has expired and a trial of it has ended (10 s + 20 s <= 30 s).
NoLateCommit ==
    [][\A r \in Runs : outcome[r] = "timeout" /\ args[r].command = "config.set" =>
          EffectsOf(r)' = EffectsOf(r)]_vars
=============================================================================
