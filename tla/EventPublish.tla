---------------------------- MODULE EventPublish ----------------------------
(***************************************************************************)
(* tools/business_event.py and tools/business_event_publish.py: an event   *)
(* for the native business is signed into a frame file and published once, *)
(* and the outcome is taken from what the device reports.  Several         *)
(* publishers may work on one device.  The network thread of each posts    *)
(* into a bounded queue that the main thread reads.                        *)
(*                                                                         *)
(* The broker (external) may deliver a frame or a report late, repeatedly  *)
(* and out of order, or never.  The device is the event part of            *)
(* device_protocol/mqtt_owner.c with native_business/esp_base_business.c.  *)
(***************************************************************************)
EXTENDS Naturals, Sequences

CONSTANTS Publishers,
          Events,        \* event contents; their SHA-256 is the event itself
          NoEvent,
          Kind,          \* what an event asks of the business
          Asked,         \* the arguments each publisher may be given
          QueueSize,     \* 32
          MaxSequence,   \* 2^64 - 1
          MaxBoots       \* bound: boots explored

Boots == 0 .. MaxBoots
Sequences1 == 1 .. MaxSequence
Outcomes == {"succeeded", "business_failed"}

\* What the operator asks for: --boot-id, --event-sequence, the event file.
Args == [boot : Boots, sequence : Nat, event : Events]

ASSUME PublishAssumption ==
    /\ NoEvent \notin Events
    /\ Kind \in [Events -> {"data", "pause", "resume"}]
    /\ Asked \in [Publishers -> SUBSET Args]
    /\ QueueSize \in Nat \ {0} /\ MaxSequence \in Nat /\ MaxBoots \in Nat

\* A signed frame (the device's own identity is left out) and its publisher.
Published == [boot : Boots, sequence : Sequences1, event : Events, by : Publishers]

\* The event fields of a reported message; completed is 0 for null.
Report ==
    [boot : Boots, accepted : 0 .. MaxSequence, completed : 0 .. MaxSequence,
     event : Events \cup {NoEvent}, outcome : Outcomes \cup {"none"}]

\* What the callbacks post.  "other" is a retained message or another topic.
Items ==
    [kind : {"connect", "subscribe"}, ok : BOOLEAN]
        \cup [kind : {"disconnect", "other"}] \cup [kind : {"message"}, report : Report]

Applied ==
    [boot : Boots, sequence : Sequences1, event : Events, by : Publishers,
     outcome : Outcomes, at : Nat]

VARIABLES
  (* publishers *)
  args, file,           \* arguments and the frame file
  pc, result,
  queue, overflow,      \* events, overflow
  polling,              \* wait_reported has seen no overflow and waits for an item
  session, acked,       \* the MQTT session; is_published()
  (* broker *)
  wire,                 \* frames that reached it, still to be delivered again
  reports,              \* reported messages, likewise
  (* device *)
  boot, accepted,       \* s_boot_id, s_event_sequence
  completed, last, outcome, \* s_business.last_event_sequence, its digest and result
  paused,               \* s_business.state
  (* bookkeeping *)
  count,                \* events applied in this boot
  applied               \* every event that was applied

publisher == <<args, file, pc, result, queue, overflow, polling, session, acked>>
device == <<boot, accepted, completed, last, outcome, paused, count, applied>>
vars == <<publisher, wire, reports, device>>

TypeOK ==
    /\ args \in [Publishers -> Args]
    /\ file \in [Publishers -> {"absent", "signed", "other"}]
    /\ pc \in [Publishers -> {"idle", "connect", "subscribe", "before", "puback", "after", "done"}]
    /\ result \in [Publishers -> Outcomes \cup {"none", "usage", "unpublished", "unknown"}]
    /\ queue \in [Publishers -> Seq(Items)]
    /\ \A p \in Publishers : Len(queue[p]) <= QueueSize
    /\ overflow \in [Publishers -> BOOLEAN] /\ polling \in [Publishers -> BOOLEAN]
    /\ acked \in [Publishers -> BOOLEAN]
    /\ session \in [Publishers -> {"none", "connecting", "up", "subscribed", "down"}]
    /\ wire \subseteq Published /\ reports \subseteq Report
    /\ boot \in Boots /\ accepted \in 0 .. MaxSequence /\ completed \in 0 .. MaxSequence
    /\ last \in Events \cup {NoEvent} /\ outcome \in Outcomes \cup {"none"}
    /\ paused \in BOOLEAN /\ count \in Nat /\ applied \subseteq Applied

Init ==
    /\ args \in [Publishers -> UNION {Asked[p] : p \in Publishers}]
    /\ \A p \in Publishers : args[p] \in Asked[p]
    /\ file = [p \in Publishers |-> "absent"]
    /\ pc = [p \in Publishers |-> "idle"] /\ result = [p \in Publishers |-> "none"]
    /\ queue = [p \in Publishers |-> <<>>] /\ overflow = [p \in Publishers |-> FALSE]
    /\ polling = [p \in Publishers |-> FALSE]
    /\ session = [p \in Publishers |-> "none"] /\ acked = [p \in Publishers |-> FALSE]
    /\ wire = {} /\ reports = {}
    /\ boot = 0 /\ accepted = 0 /\ completed = 0 /\ last = NoEvent /\ outcome = "none"
    /\ paused = FALSE /\ count = 0 /\ applied = {}

-----------------------------------------------------------------------------
(* business_event.py *)

\* event_frame: signed for this boot, sequence (1 .. 2^64-1) and event.
Signable(a) == a.sequence \in Sequences1
event_frame(p) ==
    [boot |-> args[p].boot, sequence |-> args[p].sequence, event |-> args[p].event, by |-> p]

\* main: the frame file is created exclusively.  A failed write removes it; a
\* killed process may leave a part of it, or the wrong inputs were signed.
MakeFrame(p) ==
    /\ pc[p] = "idle" /\ file[p] = "absent"
    /\ \/ Signable(args[p]) /\ file' = [file EXCEPT ![p] = "signed"]
       \/ file' = [file EXCEPT ![p] = "other"]
    /\ UNCHANGED <<args, pc, result, queue, overflow, polling, session, acked, wire, reports, device>>

-----------------------------------------------------------------------------
(* business_event_publish.py: the callbacks of the network thread *)

\* post: a full queue loses the item, and the loss is remembered.
Post(p, item) ==
    IF Len(queue[p]) < QueueSize
       THEN queue' = [queue EXCEPT ![p] = Append(@, item)] /\ UNCHANGED overflow
       ELSE overflow' = [overflow EXCEPT ![p] = TRUE] /\ UNCHANGED queue

\* on_connect
OnConnect(p, ok) ==
    /\ session[p] = "connecting"
    /\ session' = [session EXCEPT ![p] = IF ok THEN "up" ELSE "down"]
    /\ Post(p, [kind |-> "connect", ok |-> ok])
    /\ UNCHANGED <<args, file, pc, result, polling, acked, wire, reports, device>>

\* on_subscribe, for the subscription the main thread has asked for.
OnSubscribe(p, ok) ==
    /\ session[p] = "up" /\ pc[p] = "subscribe"
    /\ session' = [session EXCEPT ![p] = "subscribed"]
    /\ Post(p, [kind |-> "subscribe", ok |-> ok])
    /\ UNCHANGED <<args, file, pc, result, polling, acked, wire, reports, device>>

\* on_disconnect; the client does not connect again.
OnDisconnect(p) ==
    /\ session[p] \in {"up", "subscribed"}
    /\ session' = [session EXCEPT ![p] = "down"]
    /\ Post(p, [kind |-> "disconnect"])
    /\ UNCHANGED <<args, file, pc, result, polling, acked, wire, reports, device>>

\* on_message
OnMessage(p) ==
    /\ session[p] = "subscribed"
    /\ \/ Post(p, [kind |-> "other"])
       \/ \E m \in reports : Post(p, [kind |-> "message", report |-> m])
    /\ UNCHANGED <<args, file, pc, result, polling, session, acked, wire, reports, device>>

\* The PUBACK of the frame.
OnPublish(p) ==
    /\ session[p] = "subscribed" /\ pc[p] = "puback" /\ ~acked[p]
    /\ acked' = [acked EXCEPT ![p] = TRUE]
    /\ UNCHANGED <<args, file, pc, result, queue, overflow, polling, session, wire, reports, device>>

-----------------------------------------------------------------------------
(* business_event_publish.py: main *)

\* The end of main, with the finally clause.
Exit(p, how) ==
    /\ pc' = [pc EXCEPT ![p] = "done"] /\ result' = [result EXCEPT ![p] = how]
    /\ session' = [session EXCEPT ![p] = "none"]
    /\ queue' = [queue EXCEPT ![p] = <<>>] /\ overflow' = [overflow EXCEPT ![p] = FALSE]
    /\ acked' = [acked EXCEPT ![p] = FALSE] /\ polling' = [polling EXCEPT ![p] = FALSE]

\* The except clause: what is said depends on published.
Fail(p) == Exit(p, IF pc[p] \in {"puback", "after"} THEN "unknown" ELSE "unpublished")

Goto(p, next) ==
    /\ pc' = [pc EXCEPT ![p] = next]
    /\ queue' = [queue EXCEPT ![p] = Tail(@)] /\ polling' = [polling EXCEPT ![p] = FALSE]
    /\ UNCHANGED <<result, session, overflow, acked>>

\* verified_frame: the frame is signed for exactly these arguments.
verified_frame(p) == file[p] = "signed"

\* The frame and the credentials are read, then the client connects.
Start(p) ==
    /\ pc[p] = "idle"
    /\ \/ Exit(p, "usage")
       \/ /\ verified_frame(p)
          /\ pc' = [pc EXCEPT ![p] = "connect"]
          /\ session' = [session EXCEPT ![p] = "connecting"]
          /\ UNCHANGED <<result, queue, overflow, polling, acked>>
    /\ UNCHANGED <<args, file, wire, reports, device>>

\* The wait for the connection, and the call of subscribe after it.
Connected(p) ==
    /\ pc[p] = "connect" /\ queue[p] # <<>>
    /\ LET item == Head(queue[p]) IN
       IF item.kind = "connect"
          THEN IF item.ok THEN Goto(p, "subscribe") \/ Fail(p) ELSE Fail(p)
          ELSE IF item.kind = "disconnect" \/ overflow[p] THEN Fail(p) ELSE Goto(p, "connect")
    /\ UNCHANGED <<args, file, wire, reports, device>>

\* The wait for the subscription.
Subscribed(p) ==
    /\ pc[p] = "subscribe" /\ queue[p] # <<>>
    /\ LET item == Head(queue[p]) IN
       IF item.kind = "subscribe"
          THEN IF item.ok THEN Goto(p, "before") ELSE Fail(p)
          ELSE IF item.kind = "disconnect" \/ overflow[p] THEN Fail(p) ELSE Goto(p, "subscribe")
    /\ UNCHANGED <<args, file, wire, reports, device>>

\* reported_message: identity, boot and the consistency of the event fields.
reported_message(p, m) ==
    /\ m.boot = args[p].boot
    /\ m.completed <= m.accepted
    /\ (m.completed = 0) = (m.event = NoEvent) /\ (m.completed = 0) = (m.outcome = "none")

\* wait_reported, once per item: is an item lost?  The queue may still overflow
\* before the item it then waits for is taken.
Poll(p) ==
    /\ pc[p] \in {"before", "after"} /\ ~polling[p]
    /\ \/ overflow[p] /\ Fail(p)
       \/ /\ ~overflow[p] /\ polling' = [polling EXCEPT ![p] = TRUE]
          /\ UNCHANGED <<pc, result, queue, overflow, session, acked>>
    /\ UNCHANGED <<args, file, wire, reports, device>>

\* The item ends it with an error: the end of the session or a report that does
\* not fit.
WaitFails(p) ==
    /\ polling[p] /\ queue[p] # <<>>
    /\ LET item == Head(queue[p]) IN
       \/ item.kind = "disconnect"
       \/ item.kind = "message" /\ ~reported_message(p, item.report)

\* An item that wait_reported passes over.
Skipped(p) ==
    /\ polling[p] /\ queue[p] # <<>>
    /\ Head(queue[p]).kind \in {"connect", "subscribe", "other"}

\* wait_reported returns a report.
Received(p) ==
    /\ polling[p] /\ queue[p] # <<>> /\ Head(queue[p]).kind = "message"
    /\ reported_message(p, Head(queue[p]).report)

\* Mutant: any report lets the frame go out, and a refusal comes too late.
Before_Any(p) ==
    /\ pc[p] = "before"
    /\ \/ WaitFails(p) /\ Fail(p) /\ UNCHANGED wire
       \/ Skipped(p) /\ Goto(p, "before") /\ UNCHANGED wire
       \/ /\ Received(p)
          /\ wire' = wire \cup {event_frame(p)}
          /\ IF Head(queue[p]).report.accepted # args[p].sequence - 1
                THEN Fail(p) ELSE Goto(p, "puback")
    /\ UNCHANGED <<args, file, reports, device>>

\* The first report of this boot must show the sequence before ours; then the
\* frame is published, once.  A publish that is refused sends nothing.
Before(p) ==
    /\ pc[p] = "before"
    /\ \/ WaitFails(p) /\ Fail(p) /\ UNCHANGED wire
       \/ Skipped(p) /\ Goto(p, "before") /\ UNCHANGED wire
       \/ /\ Received(p)
          /\ IF Head(queue[p]).report.accepted # args[p].sequence - 1
                THEN Fail(p) /\ UNCHANGED wire
                ELSE \/ Fail(p) /\ UNCHANGED wire
                     \/ /\ Goto(p, "puback")
                        /\ wire' = wire \cup {event_frame(p)}
    /\ UNCHANGED <<args, file, reports, device>>

\* wait_for_publish
Acknowledged(p) ==
    /\ pc[p] = "puback" /\ acked[p]
    /\ pc' = [pc EXCEPT ![p] = "after"]
    /\ UNCHANGED <<args, file, result, queue, overflow, polling, session, acked, wire, reports, device>>

\* Mutant: the digest of the completed event is not compared.
After_AnyEvent(p) ==
    /\ pc[p] = "after"
    /\ \/ WaitFails(p) /\ Fail(p)
       \/ Skipped(p) /\ Goto(p, "after")
       \/ /\ Received(p)
          /\ LET m == Head(queue[p]).report IN
             IF m.accepted > args[p].sequence \/ m.completed > args[p].sequence THEN Fail(p)
             ELSE IF m.accepted # args[p].sequence \/ m.completed # args[p].sequence
                     THEN Goto(p, "after")
             ELSE Exit(p, m.outcome)
    /\ UNCHANGED <<args, file, wire, reports, device>>

\* Reports are read until one shows our sequence as accepted and completed.
After(p) ==
    /\ pc[p] = "after"
    /\ \/ WaitFails(p) /\ Fail(p)
       \/ Skipped(p) /\ Goto(p, "after")
       \/ /\ Received(p)
          /\ LET m == Head(queue[p]).report IN
             IF m.accepted > args[p].sequence \/ m.completed > args[p].sequence THEN Fail(p)
             ELSE IF m.accepted # args[p].sequence \/ m.completed # args[p].sequence
                     THEN Goto(p, "after")
             ELSE IF m.event # args[p].event THEN Fail(p)
             ELSE Exit(p, m.outcome)
    /\ UNCHANGED <<args, file, wire, reports, device>>

\* One deadline covers every wait.
Timeout(p) ==
    /\ pc[p] \in {"connect", "subscribe", "before", "puback", "after"}
    /\ Fail(p)
    /\ UNCHANGED <<args, file, wire, reports, device>>

-----------------------------------------------------------------------------
(* The device *)

\* ebase_business_event: a pause refuses data, a resume needs a pause.
BusinessResult(e) ==
    IF (Kind[e] = "data" /\ paused) \/ (Kind[e] = "resume" /\ ~paused)
       THEN "business_failed" ELSE "succeeded"
Pauses(e) ==
    IF Kind[e] = "pause" THEN TRUE ELSE IF Kind[e] = "resume" THEN FALSE ELSE paused

\* Mutant: the sequence that was accepted last counts as the next one.
NextInOrder_Again(f) == f.boot = boot /\ f.sequence >= accepted

\* Only the next sequence of this boot is accepted.
NextInOrder(f) == f.boot = boot /\ accepted # MaxSequence /\ f.sequence = accepted + 1

\* EMQTT_EVENT_MESSAGE and handle_mqtt_event.  Other frames are dropped, and so
\* is one whose digest cannot be computed.
HandleEvent(f) ==
    /\ f \in wire /\ NextInOrder(f)
    /\ accepted' = f.sequence /\ completed' = f.sequence
    /\ last' = f.event /\ outcome' = BusinessResult(f.event) /\ paused' = Pauses(f.event)
    /\ count' = count + 1
    /\ applied' = applied \cup
          {[boot |-> boot, sequence |-> f.sequence, event |-> f.event, by |-> f.by,
            outcome |-> outcome', at |-> count + 1]}
    /\ UNCHANGED <<publisher, wire, reports, boot>>

\* reported()
Reported ==
    /\ reports' = reports \cup
          {[boot |-> boot, accepted |-> accepted, completed |-> completed, event |-> last,
            outcome |-> outcome]}
    /\ UNCHANGED <<publisher, wire, device>>

\* A new boot starts from nothing.
Restart ==
    /\ boot < MaxBoots /\ boot' = boot + 1
    /\ accepted' = 0 /\ completed' = 0 /\ last' = NoEvent /\ outcome' = "none"
    /\ paused' = FALSE /\ count' = 0
    /\ UNCHANGED <<publisher, wire, reports, applied>>

-----------------------------------------------------------------------------
Main(p) ==
    \/ Start(p) \/ Connected(p) \/ Subscribed(p) \/ Poll(p) \/ Before(p)
    \/ Acknowledged(p) \/ After(p) \/ Timeout(p)

Callback(p) ==
    \/ \E ok \in BOOLEAN : OnConnect(p, ok) \/ OnSubscribe(p, ok)
    \/ OnDisconnect(p) \/ OnMessage(p) \/ OnPublish(p)

Next ==
    \/ \E p \in Publishers : MakeFrame(p) \/ Main(p) \/ Callback(p)
    \/ \E f \in wire : HandleEvent(f)
    \/ Reported \/ Restart

Spec == Init /\ [][Next]_vars

-----------------------------------------------------------------------------
(* Properties *)

\* A publisher that prints a result tells the truth: exactly its event was
\* applied under its sequence in its boot, with that outcome, whoever else
\* published and however late the report was.
ResultIsReal ==
    \A p \in Publishers : result[p] \in Outcomes =>
        \E x \in applied :
            /\ x.boot = args[p].boot /\ x.sequence = args[p].sequence
            /\ x.event = args[p].event /\ x.outcome = result[p]

\* A publisher that says that nothing was published has had no effect, and will
\* have none.
UnpublishedIsInert ==
    \A p \in Publishers : result[p] \in {"usage", "unpublished"} =>
        \A f \in wire : f.by # p

\* Frames delivered again, late or out of order are applied once and in order:
\* the n-th event of a boot is the one with sequence n.
AppliedInOrder ==
    \A x, y \in applied :
        /\ x.sequence = x.at
        /\ x.boot = y.boot /\ (x.sequence = y.sequence \/ x.by = y.by) => x = y
=============================================================================
