---------------------------- MODULE WifiRuntime ----------------------------
(***************************************************************************)
(* wifi_runtime/esp_base_wifi.c: the station owner.  The control task      *)
(* applies selections and polls; the SDK's event task posts what happened  *)
(* to the radio into a bounded queue, which the poll drains later.  So an  *)
(* event may outlive the selection it belongs to, and a report of loss may *)
(* still be queued or be lost itself.                                      *)
(*                                                                         *)
(* The radio (esp_wifi, esp_netif) is external: d is what its functions    *)
(* and events show.  Every call of it may fail, and then has no effect.    *)
(* Times are abstracted to "not yet" and "due": the poll reads the clock   *)
(* once, so time passes between polls only.  The growth of the retry delay *)
(* is left out.                                                            *)
(***************************************************************************)
EXTENDS Naturals, Sequences

CONSTANTS Networks,   \* configured selections: SSID and password
          Ssid,       \* the SSID of a network
          Off,        \* the selection without Wi-Fi
          NoLink,     \* no association
          QueueSize   \* 16

Selections == Networks \cup {Off}

ASSUME WifiAssumption ==
    /\ Off \notin Networks /\ NoLink \notin Networks
    /\ DOMAIN Ssid = Networks
    /\ QueueSize \in Nat \ {0}

Events == {"STARTED", "STOPPED", "ASSOCIATED", "DISCONNECTED", "GOT_ADDRESS", "LOST_ADDRESS"}
States == {"unconfigured", "connecting", "connected", "disconnected", "failed"}

\* The static variables s_*: retry is s_retry_at (0, ahead, reached), late says
\* whether s_stop_deadline has passed.
Owner ==
    [config : Selections, active : BOOLEAN, stopping : BOOLEAN, late : BOOLEAN,
     associated : BOOLEAN, ready : BOOLEAN, connecting : BOOLEAN,
     retry : {"none", "later", "due"}, state : States]

\* The radio: its station configuration, what it is doing, the network it is
\* associated with, whether its address is valid, whether one may still expire.
Radio ==
    [config : Selections,
     mode : {"stopped", "starting", "idle", "connecting", "associated", "leaving", "stopping"},
     link : Networks \cup {NoLink}, address : BOOLEAN, lease : BOOLEAN]

VARIABLES
    phase,     \* s_initialized: "boot", "up", or "broken" after a failed start
    s, d,
    queue, overflow,
    polling,   \* the control task is inside the loop of esp_base_wifi_poll
    wanted,    \* bookkeeping: the latest selection that was applied
    waiting    \* bookkeeping: it was accepted during a stop and has neither been
               \* started nor met a failure since

vars == <<phase, s, d, queue, overflow, polling, wanted, waiting>>

TypeOK ==
    /\ phase \in {"boot", "up", "broken"}
    /\ s \in Owner /\ d \in Radio
    /\ queue \in Seq(Events) /\ Len(queue) <= QueueSize /\ overflow \in BOOLEAN
    /\ polling \in BOOLEAN /\ wanted \in Selections /\ waiting \in BOOLEAN

Init ==
    /\ phase = "boot"
    /\ s = [config |-> Off, active |-> FALSE, stopping |-> FALSE, late |-> FALSE,
            associated |-> FALSE, ready |-> FALSE, connecting |-> FALSE, retry |-> "none",
            state |-> "unconfigured"]
    /\ d = [config |-> Off, mode |-> "stopped", link |-> NoLink, address |-> FALSE, lease |-> FALSE]
    /\ queue = <<>> /\ overflow = FALSE /\ polling = FALSE
    /\ wanted = Off /\ waiting = FALSE

-----------------------------------------------------------------------------
(* Functions of the owner.  Those that call the radio return the set of      *)
(* possible results: the owner, the radio, whether the selection waits.      *)

Result(o, r, w) == [s |-> o, d |-> r, waiting |-> w]

Unproven(o) == [o EXCEPT !.ready = FALSE, !.associated = FALSE, !.connecting = FALSE]

failed(o) == [Unproven(o) EXCEPT !.state = "failed", !.retry = "none"]

schedule_retry(o) == [Unproven(o) EXCEPT !.state = "disconnected", !.retry = "later"]

\* esp_wifi_set_config and esp_wifi_start, or nothing for an empty selection.
start_selected(o) ==
    LET q == [Unproven(o) EXCEPT !.retry = "none"]
        r == [d EXCEPT !.config = o.config]
    IN IF o.config = Off
          THEN {Result([q EXCEPT !.state = "unconfigured"], d, FALSE)}
          ELSE {Result(failed(q), d, FALSE), Result(failed(q), r, FALSE),
                Result([q EXCEPT !.active = TRUE, !.state = "connecting"],
                       [r EXCEPT !.mode = IF @ = "stopped" THEN "starting" ELSE @], FALSE)}

\* Mutant: a change of the password alone is not a change.
Unchanged_SsidOnly(c) ==
    /\ c = s.config \/ (c # Off /\ s.config # Off /\ Ssid[c] = Ssid[s.config])
    /\ ~s.stopping /\ s.state # "failed"
    /\ IF s.config # Off THEN s.active ELSE ~s.active /\ s.state = "unconfigured"

\* The selection is in force already: connection, proof and retry are kept.
Unchanged(c) ==
    /\ c = s.config /\ ~s.stopping /\ s.state # "failed"
    /\ IF s.config # Off THEN s.active ELSE ~s.active /\ s.state = "unconfigured"

\* esp_base_wifi_apply for a valid selection.  During a stop it is only noted.
Applied(c) ==
    LET q == [Unproven(s) EXCEPT !.config = c, !.retry = "none"]
        stop == [q EXCEPT !.stopping = TRUE, !.late = FALSE, !.state = "connecting"]
    IN IF Unchanged(c) THEN {Result(s, d, waiting)}
       ELSE IF s.stopping THEN {Result(q, d, TRUE)}
       ELSE IF ~s.active THEN start_selected(q)
       ELSE {Result(failed([stop EXCEPT !.stopping = FALSE]), d, FALSE)}
              \cup IF d.mode = "stopped"
                   THEN start_selected([stop EXCEPT !.stopping = FALSE, !.active = FALSE])
                   ELSE {Result(stop, [d EXCEPT !.mode = "stopping"], FALSE)}

Becomes(result) ==
    /\ s' = result.s /\ d' = result.d /\ waiting' = result.waiting

\* esp_base_wifi_start: a failed initialisation takes everything back.
Start(c) ==
    /\ phase = "boot"
    /\ \/ /\ phase' = "broken" /\ s' = failed(s)
          /\ UNCHANGED <<d, wanted, waiting>>
       \/ /\ phase' = "up" /\ wanted' = c
          /\ \E result \in Applied(c) : Becomes(result)
    /\ UNCHANGED <<queue, overflow, polling>>

Apply(c) ==
    /\ phase = "up" /\ ~polling
    /\ wanted' = c
    /\ \E result \in Applied(c) : Becomes(result)
    /\ UNCHANGED <<phase, queue, overflow, polling>>

-----------------------------------------------------------------------------
(* esp_base_wifi_poll *)

\* The station fails, and with it a selection that has been waiting.
Fails == s' = failed(s) /\ waiting' = (waiting /\ s.state = "failed")

\* A lost event is a failure; the rest of the queue stays for the next poll.
Poll ==
    /\ phase = "up" /\ ~polling
    /\ overflow' = FALSE
    /\ IF overflow THEN Fails /\ UNCHANGED polling
                   ELSE polling' = TRUE /\ UNCHANGED <<s, waiting>>
    /\ UNCHANGED <<phase, d, queue, wanted>>

\* What the radio says now, when an address event is handled.  Its functions
\* may fail.
AddressIsProven ==
    d.link # NoLink /\ d.address /\ s.config # Off /\ Ssid[d.link] = Ssid[s.config]

Connected(o) ==
    [o EXCEPT !.ready = TRUE, !.connecting = FALSE, !.retry = "none", !.state = "connected"]

\* Events of a station that is stopping, stopped or has failed.
Ignored == ~s.active \/ s.stopping \/ s.state = "failed"

\* esp_wifi_disconnect: without a connection there is nothing to leave.
Left == [d EXCEPT !.mode = IF @ \in {"connecting", "associated"} THEN "leaving" ELSE @]

\* One event of the loop.
Handled(event) ==
    IF event = "STOPPED" THEN
        LET o == [Unproven(s) EXCEPT !.active = FALSE, !.stopping = FALSE]
        IN IF s.state = "failed" THEN {Result(o, d, waiting)} ELSE start_selected(o)
    ELSE IF Ignored THEN {Result(s, d, waiting)}
    ELSE IF event = "LOST_ADDRESS" THEN
        LET o == [s EXCEPT !.ready = FALSE]
        IN {Result(o, Left, waiting), Result(schedule_retry(o), d, waiting)}
    ELSE {Result(o, d, waiting) : o \in
            IF event = "STARTED" THEN {[s EXCEPT !.retry = "due"]}
            ELSE IF event = "ASSOCIATED" THEN {[s EXCEPT !.associated = TRUE]}
            ELSE IF event = "DISCONNECTED" THEN {schedule_retry(s)}
            ELSE {s} \cup (IF s.associated /\ AddressIsProven THEN {Connected(s)} ELSE {})}

TakeEvent ==
    /\ polling /\ queue # <<>>
    /\ queue' = Tail(queue)
    /\ \E result \in Handled(Head(queue)) : Becomes(result)
    /\ UNCHANGED <<phase, overflow, polling, wanted>>

\* Mutant: a connect that fails is not tried again.
Retried_Once ==
    LET o == [s EXCEPT !.retry = "none"]
    IN {Result(o, d, waiting)}
         \cup IF d.mode = "idle"
              THEN {Result([o EXCEPT !.connecting = TRUE, !.state = "connecting"],
                           [d EXCEPT !.mode = "connecting"], waiting)}
              ELSE {}

\* esp_wifi_connect
Retried ==
    LET o == [s EXCEPT !.retry = "none"]
    IN {Result(schedule_retry(o), d, waiting)}
         \cup IF d.mode = "idle"
              THEN {Result([o EXCEPT !.connecting = TRUE, !.state = "connecting"],
                           [d EXCEPT !.mode = "connecting"], waiting)}
              ELSE {}

\* The queue is empty: the stop deadline, then the retry.
PollEnd ==
    /\ polling /\ queue = <<>>
    /\ polling' = FALSE
    /\ IF s.stopping /\ s.late THEN Fails /\ UNCHANGED d
       ELSE IF s.active /\ ~s.stopping /\ s.retry = "due" /\ ~s.connecting
            THEN \E result \in Retried : Becomes(result)
            ELSE UNCHANGED <<s, d, waiting>>
    /\ UNCHANGED <<phase, queue, overflow, wanted>>

\* A retry time or the stop deadline is reached.
Elapse ==
    /\ ~polling
    /\ \/ s.retry = "later" /\ s' = [s EXCEPT !.retry = "due"]
       \/ s.stopping /\ ~s.late /\ s' = [s EXCEPT !.late = TRUE]
    /\ UNCHANGED <<phase, d, queue, overflow, polling, wanted, waiting>>

-----------------------------------------------------------------------------
(* The radio (external) and event_received *)

event_received(event) ==
    IF Len(queue) < QueueSize
       THEN queue' = Append(queue, event) /\ UNCHANGED overflow
       ELSE overflow' = TRUE /\ UNCHANGED queue

Down(mode) == [d EXCEPT !.mode = mode, !.link = NoLink, !.address = FALSE]

RadioStep ==
    /\ \/ /\ d.mode = "starting" /\ d' = [d EXCEPT !.mode = "idle"]
          /\ event_received("STARTED")
       \/ /\ d.mode = "stopping" /\ d' = Down("stopped")
          /\ event_received("STOPPED")
       \/ /\ d.mode = "connecting" /\ d' = [d EXCEPT !.mode = "associated", !.link = d.config]
          /\ event_received("ASSOCIATED")
       \/ /\ d.mode \in {"connecting", "associated", "leaving"} /\ d' = Down("idle")
          /\ event_received("DISCONNECTED")
       \/ /\ d.mode = "stopping" /\ d.link # NoLink /\ d' = Down("stopping")
          /\ event_received("DISCONNECTED")
       \/ /\ d.mode = "associated" /\ ~d.address
          /\ d' = [d EXCEPT !.address = TRUE, !.lease = TRUE]
          /\ event_received("GOT_ADDRESS")
       \/ /\ d.lease /\ d' = [d EXCEPT !.address = FALSE, !.lease = FALSE]
          /\ event_received("LOST_ADDRESS")
    /\ UNCHANGED <<phase, s, polling, wanted, waiting>>

Next ==
    \/ \E c \in Selections : Start(c) \/ Apply(c)
    \/ Poll \/ TakeEvent \/ PollEnd \/ Elapse \/ RadioStep

Spec == Init /\ [][Next]_vars

-----------------------------------------------------------------------------
(* Properties *)

esp_base_wifi_ready == s.ready /\ ~s.stopping

Queued(events) == \E i \in 1 .. Len(queue) : queue[i] \in events

\* A configuration is committed on the owner's word.  "ready" means that the
\* radio holds an address on exactly the latest selection, password included,
\* or that the news of the loss is still on its way; "unconfigured" means that
\* the radio is off.  No event of an earlier selection counts.
ProofIsReal ==
    /\ esp_base_wifi_ready =>
          \/ d.link = wanted /\ d.address
          \/ overflow \/ Queued({"DISCONNECTED", "LOST_ADDRESS", "STOPPED"})
    /\ phase = "up" /\ s.state = "unconfigured" => wanted = Off /\ d.mode = "stopped"

\* There is no dead end: when every event is handled and the radio does
\* nothing, a station that has not failed has a retry ahead that nothing blocks.
IdleHasRetry ==
    (/\ phase = "up" /\ ~polling /\ queue = <<>> /\ ~overflow
     /\ s.active /\ ~s.stopping /\ s.state # "failed" /\ d.mode = "idle")
       => s.retry # "none" /\ ~s.connecting

\* esp_base_wifi.c:84: "Latest explicit selection starts after STOP."  A
\* selection accepted during a stop is started when the stop is over, unless the
\* station fails while it waits.
LatestSelectionStarts == waiting => s.stopping
=============================================================================
