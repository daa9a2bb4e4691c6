------------------------- MODULE EventPublishProofs -------------------------
(***************************************************************************)
(* What a publisher says of its event is true, for any number of           *)
(* publishers, events, boots and sequence numbers and any queue size.      *)
(***************************************************************************)
EXTENDS EventPublish, TLAPS

-----------------------------------------------------------------------------
(* The inductive invariant *)

Working(p) == pc[p] \in {"connect", "subscribe", "before", "puback", "after"}

\* p has published: it waits for the outcome or it did not say otherwise.
Out(p) ==
    \/ pc[p] \in {"puback", "after"}
    \/ pc[p] = "done" /\ result[p] \notin {"usage", "unpublished"}

\* Some event was applied with this boot, sequence, content and outcome.
Shown(b, n, e, o) ==
    \E x \in applied : x.boot = b /\ x.sequence = n /\ x.event = e /\ x.outcome = o

\* Only a frame that was signed gets to the network, and only an end has a result.
MainInv(p) ==
    /\ file[p] = "signed" => Signable(args[p])
    /\ Working(p) => Signable(args[p])
    /\ pc[p] # "done" => result[p] = "none"
    /\ result[p] \in Outcomes =>
          Shown(args[p].boot, args[p].sequence, args[p].event, result[p])

\* What a callback posted was reported.
QueueInv(p) ==
    \A i \in 1 .. Len(queue[p]) : queue[p][i].kind = "message" => queue[p][i].report \in reports

\* A frame on the wire is the one of its publisher, who knows of it.
WireInv == \A f \in wire : f = event_frame(f.by) /\ Out(f.by)

\* A report of a completed event is true for ever: what was applied stays so.
ReportInv == \A m \in reports : m.outcome # "none" => Shown(m.boot, m.completed, m.event, m.outcome)

\* The device counts what it applies and has completed what it accepted.
DeviceInv ==
    /\ completed = accepted /\ count = accepted
    /\ outcome # "none" => Shown(boot, completed, last, outcome)

\* What was applied came from its publisher's frame, in this boot or before,
\* and not beyond the accepted sequence.
AppliedInv ==
    \A x \in applied :
        /\ x.boot <= boot /\ (x.boot = boot => x.sequence <= accepted)
        /\ x.boot = args[x.by].boot /\ x.sequence = args[x.by].sequence

Rest ==
    /\ \A p \in Publishers : MainInv(p) /\ QueueInv(p)
    /\ WireInv /\ ReportInv /\ DeviceInv /\ AppliedInv /\ AppliedInOrder

IInv == TypeOK /\ Rest

-----------------------------------------------------------------------------
(* Steps of a publisher *)

\* q stands still.
Still(q) == file'[q] = file[q] /\ pc'[q] = pc[q] /\ result'[q] = result[q] /\ queue'[q] = queue[q]

\* A step of p, with or without its frame, leaves the device, the reports and
\* the other publishers alone.
LEMMA PublisherStep ==
    ASSUME IInv, TypeOK', NEW p \in Publishers, UNCHANGED <<args, reports, device>>,
           \A q \in Publishers : q # p => Still(q),
           MainInv(p)', QueueInv(p)', Out(p) => Out(p)',
           \A f \in wire' : f \in wire \/ (f = event_frame(p) /\ Out(p)')
    PROVE  IInv'
<1>0. UNCHANGED <<args, reports, boot, accepted, completed, last, outcome, count, applied>>
  BY DEF device
<1>1. ASSUME NEW q \in Publishers PROVE MainInv(q)' /\ QueueInv(q)'
  <2>1. CASE q = p
    BY <2>1
  <2>2. CASE q # p
    <3>1. Still(q) /\ MainInv(q) /\ QueueInv(q)
      BY <2>2 DEF IInv, Rest
    <3>2. MainInv(q)'
      BY <1>0, <3>1 DEF Still, MainInv, Working, Shown
    <3>3. QueueInv(q)'
      BY <1>0, <3>1 DEF Still, QueueInv
    <3>4. QED
      BY <3>2, <3>3
  <2>3. QED
    BY <2>1, <2>2
<1>2. WireInv'
  <2> SUFFICES ASSUME NEW f \in wire' PROVE f = event_frame(f.by)' /\ Out(f.by)'
    BY DEF WireInv
  <2>1. CASE f \in wire
    <3>1. f.by \in Publishers /\ f = event_frame(f.by) /\ Out(f.by)
      BY <2>1 DEF IInv, TypeOK, Published, Rest, WireInv
    <3>2. f = event_frame(f.by)'
      BY <1>0, <3>1 DEF event_frame
    <3>3. Out(f.by)'
      <4>1. CASE f.by = p
        BY <3>1, <4>1
      <4>2. CASE f.by # p
        BY <3>1, <4>2 DEF Still, Out
      <4>3. QED
        BY <4>1, <4>2
    <3>4. QED
      BY <3>2, <3>3
  <2>2. CASE f = event_frame(p) /\ Out(p)'
    <3>1. f.by = p
      BY <2>2 DEF event_frame
    <3>2. event_frame(p)' = event_frame(p)
      BY <1>0 DEF event_frame
    <3>3. QED
      BY <2>2, <3>1, <3>2
  <2>3. QED
    BY <2>1, <2>2
<1>3. ReportInv' /\ DeviceInv' /\ AppliedInv' /\ AppliedInOrder'
  BY <1>0 DEF IInv, Rest, ReportInv, DeviceInv, AppliedInv, AppliedInOrder, Shown
<1>4. QED
  BY <1>1, <1>2, <1>3 DEF IInv, Rest

\* The frame file is made.
LEMMA MakeFrameStep == ASSUME IInv, NEW p \in Publishers, MakeFrame(p) PROVE IInv'
<1>0. TypeOK
  BY DEF IInv
<1>1. UNCHANGED <<args, pc, result, queue, overflow, polling, session, acked, wire, reports, device>>
  BY DEF MakeFrame
<1>2. \E v \in {"signed", "other"} : file' = [file EXCEPT ![p] = v] /\ (v = "signed" => Signable(args[p]))
  BY DEF MakeFrame
<1>3. TypeOK'
  BY <1>0, <1>1, <1>2 DEF TypeOK, device
<1>4. \A q \in Publishers : q # p => Still(q)
  BY <1>0, <1>1, <1>2 DEF TypeOK, Still
<1>5. file'[p] = "signed" => Signable(args[p])
  BY <1>0, <1>2 DEF TypeOK
<1>6. MainInv(p)'
  BY <1>1, <1>5 DEF IInv, Rest, MainInv, Working, Shown, device
<1>7. QueueInv(p)' /\ (Out(p) => Out(p)')
  BY <1>1 DEF IInv, Rest, QueueInv, Out
<1>8. QED
  BY <1>1, <1>3, <1>4, <1>6, <1>7, PublisherStep

\* A callback posts an item, or loses it.
LEMMA PostStep ==
    ASSUME IInv, NEW p \in Publishers, NEW item \in Items, Post(p, item),
           item.kind = "message" => item.report \in reports,
           session' \in [Publishers -> {"none", "connecting", "up", "subscribed", "down"}],
           UNCHANGED <<args, file, pc, result, polling, acked, wire, reports, device>>
    PROVE  IInv'
<1>0. TypeOK
  BY DEF IInv
<1> DEFINE s == queue[p]
<1>1. s \in Seq(Items) /\ Len(s) <= QueueSize /\ QueueSize \in Nat
  BY <1>0, PublishAssumption DEF TypeOK
<1>2. CASE Len(s) < QueueSize
  <2> DEFINE z == Append(s, item)
  <2>1. queue' = [queue EXCEPT ![p] = z] /\ UNCHANGED overflow
    BY <1>2 DEF Post
  <2>2. z \in Seq(Items) /\ Len(z) = Len(s) + 1 /\ Len(z) <= QueueSize
    BY <1>1, <1>2
  <2>3. \A i \in 1 .. Len(z) : z[i] = IF i = Len(s) + 1 THEN item ELSE s[i]
    BY <1>1
  <2> HIDE DEF z
  <2>4. queue'[p] = z /\ queue' \in [Publishers -> Seq(Items)]
        /\ \A q \in Publishers : q # p => queue'[q] = queue[q]
    BY <1>0, <2>1, <2>2 DEF TypeOK
  <2>5. \A q \in Publishers : Len(queue'[q]) <= QueueSize
    BY <1>0, <2>2, <2>4 DEF TypeOK
  <2>6. TypeOK'
    BY <1>0, <2>1, <2>4, <2>5 DEF TypeOK, device
  <2>7. QueueInv(p)'
    <3>1. QueueInv(p)
      BY DEF IInv, Rest
    <3>2. \A i \in 1 .. Len(z) : z[i].kind = "message" => z[i].report \in reports
      BY <1>1, <2>2, <2>3, <3>1 DEF QueueInv
    <3>3. QED
      BY <2>4, <3>2 DEF QueueInv
  <2>8. MainInv(p)' /\ (Out(p) => Out(p)')
    BY DEF IInv, Rest, MainInv, Working, Shown, device, Out
  <2>9. \A q \in Publishers : q # p => Still(q)
    BY <2>4 DEF Still
  <2>10. QED
    BY <2>6, <2>7, <2>8, <2>9, PublisherStep
<1>3. CASE ~(Len(s) < QueueSize)
  <2>1. overflow' = [overflow EXCEPT ![p] = TRUE] /\ UNCHANGED queue
    BY <1>3 DEF Post
  <2>2. TypeOK'
    BY <1>0, <2>1 DEF TypeOK, device
  <2>3. MainInv(p)' /\ QueueInv(p)' /\ (Out(p) => Out(p)')
    BY <2>1 DEF IInv, Rest, MainInv, QueueInv, Working, Shown, device, Out
  <2>4. \A q \in Publishers : q # p => Still(q)
    BY <2>1 DEF Still
  <2>5. QED
    BY <2>2, <2>3, <2>4, PublisherStep
<1>4. QED
  BY <1>2, <1>3

\* The callbacks of the network thread.
LEMMA CallbackStep == ASSUME IInv, NEW p \in Publishers, Callback(p) PROVE IInv'
<1>0. TypeOK
  BY DEF IInv
<1>1. ASSUME NEW ok \in BOOLEAN, OnConnect(p, ok) PROVE IInv'
  <2>1. [kind |-> "connect", ok |-> ok] \in Items
    BY DEF Items
  <2>2. session' \in [Publishers -> {"none", "connecting", "up", "subscribed", "down"}]
    BY <1>0, <1>1 DEF OnConnect, TypeOK
  <2>3. QED
    BY <1>1, <2>1, <2>2, PostStep DEF OnConnect
<1>2. ASSUME NEW ok \in BOOLEAN, OnSubscribe(p, ok) PROVE IInv'
  <2>1. [kind |-> "subscribe", ok |-> ok] \in Items
    BY DEF Items
  <2>2. session' \in [Publishers -> {"none", "connecting", "up", "subscribed", "down"}]
    BY <1>0, <1>2 DEF OnSubscribe, TypeOK
  <2>3. QED
    BY <1>2, <2>1, <2>2, PostStep DEF OnSubscribe
<1>3. CASE OnDisconnect(p)
  <2>1. [kind |-> "disconnect"] \in Items
    BY DEF Items
  <2>2. session' \in [Publishers -> {"none", "connecting", "up", "subscribed", "down"}]
    BY <1>0, <1>3 DEF OnDisconnect, TypeOK
  <2>3. QED
    BY <1>3, <2>1, <2>2, PostStep DEF OnDisconnect
<1>4. CASE OnMessage(p)
  <2>1. session' \in [Publishers -> {"none", "connecting", "up", "subscribed", "down"}]
    BY <1>0, <1>4 DEF OnMessage, TypeOK
  <2>2. CASE Post(p, [kind |-> "other"])
    <3>1. [kind |-> "other"] \in Items
      BY DEF Items
    <3>2. QED
      BY <1>4, <2>1, <2>2, <3>1, PostStep DEF OnMessage
  <2>3. ASSUME NEW m \in reports, Post(p, [kind |-> "message", report |-> m]) PROVE IInv'
    <3>1. [kind |-> "message", report |-> m] \in Items
      BY <1>0 DEF Items, TypeOK
    <3>2. QED
      BY <1>4, <2>1, <2>3, <3>1, PostStep DEF OnMessage
  <2>4. QED
    BY <1>4, <2>2, <2>3 DEF OnMessage
<1>5. CASE OnPublish(p)
  <2>1. UNCHANGED <<args, file, pc, result, queue, overflow, polling, session, wire, reports, device>>
        /\ acked' = [acked EXCEPT ![p] = TRUE]
    BY <1>5 DEF OnPublish
  <2>2. TypeOK'
    BY <1>0, <2>1 DEF TypeOK, device
  <2>3. MainInv(p)' /\ QueueInv(p)' /\ (Out(p) => Out(p)')
    BY <2>1 DEF IInv, Rest, MainInv, QueueInv, Working, Shown, device, Out
  <2>4. \A q \in Publishers : q # p => Still(q)
    BY <2>1 DEF Still
  <2>5. QED
    BY <2>1, <2>2, <2>3, <2>4, PublisherStep
<1>6. QED
  BY <1>1, <1>2, <1>3, <1>4, <1>5 DEF Callback

-----------------------------------------------------------------------------
(* Steps of main *)

\* The end of main: what is said after publishing is never that nothing was.
LEMMA ExitStep ==
    ASSUME IInv, NEW p \in Publishers,
           NEW how \in Outcomes \cup {"none", "usage", "unpublished", "unknown"}, Exit(p, how),
           UNCHANGED <<args, file, wire, reports, device>>,
           Out(p) => how \notin {"usage", "unpublished"},
           how \in Outcomes => Shown(args[p].boot, args[p].sequence, args[p].event, how)
    PROVE  IInv'
<1>0. TypeOK
  BY DEF IInv
<1>1. /\ pc' = [pc EXCEPT ![p] = "done"] /\ result' = [result EXCEPT ![p] = how]
      /\ session' = [session EXCEPT ![p] = "none"]
      /\ queue' = [queue EXCEPT ![p] = <<>>] /\ overflow' = [overflow EXCEPT ![p] = FALSE]
      /\ acked' = [acked EXCEPT ![p] = FALSE] /\ polling' = [polling EXCEPT ![p] = FALSE]
  BY DEF Exit
<1>2. <<>> \in Seq(Items) /\ Len(<<>>) = 0 /\ QueueSize \in Nat
  BY PublishAssumption
<1>3. queue' \in [Publishers -> Seq(Items)] /\ queue'[p] = <<>>
      /\ \A q \in Publishers : q # p => queue'[q] = queue[q]
  BY <1>0, <1>1, <1>2 DEF TypeOK
<1>4. \A q \in Publishers : Len(queue'[q]) <= QueueSize
  <2>1. Len(queue'[p]) <= QueueSize
    BY <1>2, <1>3
  <2>2. QED
    BY <1>0, <1>3, <2>1 DEF TypeOK
<1>5. pc' \in [Publishers -> {"idle", "connect", "subscribe", "before", "puback", "after", "done"}]
      /\ result' \in [Publishers -> Outcomes \cup {"none", "usage", "unpublished", "unknown"}]
  BY <1>0, <1>1 DEF TypeOK
<1>6. /\ overflow' \in [Publishers -> BOOLEAN] /\ polling' \in [Publishers -> BOOLEAN]
      /\ acked' \in [Publishers -> BOOLEAN]
      /\ session' \in [Publishers -> {"none", "connecting", "up", "subscribed", "down"}]
  BY <1>0, <1>1 DEF TypeOK
<1>7. TypeOK'
  BY <1>0, <1>3, <1>4, <1>5, <1>6 DEF TypeOK, device
<1>8. pc'[p] = "done" /\ result'[p] = how /\ \A q \in Publishers : q # p => Still(q)
  BY <1>0, <1>1, <1>3 DEF TypeOK, Still
<1>9. MainInv(p)'
  BY <1>8 DEF IInv, Rest, MainInv, Working, Shown, device
<1>10. QueueInv(p)'
  BY <1>2, <1>3 DEF QueueInv
<1>11. Out(p) => Out(p)'
  BY <1>8 DEF Out
<1>12. QED
  BY <1>7, <1>8, <1>9, <1>10, <1>11, PublisherStep

\* The except clause.
LEMMA FailStep ==
    ASSUME IInv, NEW p \in Publishers, Working(p), Fail(p),
           UNCHANGED <<args, file, wire, reports, device>>
    PROVE  IInv'
<1> DEFINE how == IF pc[p] \in {"puback", "after"} THEN "unknown" ELSE "unpublished"
<1>1. Exit(p, how)
  BY DEF Fail
<1>2. how \in {"unknown", "unpublished"} /\ (Out(p) => how = "unknown")
  BY DEF Out, Working
<1> HIDE DEF how
<1>3. how \notin Outcomes
  BY <1>2 DEF Outcomes
<1>4. QED
  BY <1>1, <1>2, <1>3, ExitStep

\* An item is taken and main goes on, at most once by publishing its frame.
LEMMA GotoStep ==
    ASSUME IInv, NEW p \in Publishers, Working(p), queue[p] # <<>>,
           NEW next \in {"connect", "subscribe", "before", "puback", "after"}, Goto(p, next),
           Out(p) => next \in {"puback", "after"},
           UNCHANGED <<args, file, reports, device>>,
           wire' = wire \/ (next = "puback" /\ wire' = wire \cup {event_frame(p)})
    PROVE  IInv'
<1>0. TypeOK
  BY DEF IInv
<1> DEFINE s == queue[p]
           z == Tail(s)
<1>1. /\ pc' = [pc EXCEPT ![p] = next] /\ queue' = [queue EXCEPT ![p] = z]
      /\ polling' = [polling EXCEPT ![p] = FALSE]
      /\ UNCHANGED <<result, session, overflow, acked>>
  BY DEF Goto
<1>2. s \in Seq(Items) /\ Len(s) <= QueueSize /\ QueueSize \in Nat
  BY <1>0, PublishAssumption DEF TypeOK
<1>3. z \in Seq(Items) /\ Len(z) = Len(s) - 1 /\ Len(z) <= QueueSize
  BY <1>2
<1>4. \A i \in 1 .. Len(z) : i + 1 \in 1 .. Len(s) /\ z[i] = s[i + 1]
  BY <1>2
<1> HIDE DEF z
<1>5. queue' \in [Publishers -> Seq(Items)] /\ queue'[p] = z
      /\ \A q \in Publishers : q # p => queue'[q] = queue[q]
  BY <1>0, <1>1, <1>3 DEF TypeOK
<1>6. \A q \in Publishers : Len(queue'[q]) <= QueueSize
  BY <1>0, <1>3, <1>5 DEF TypeOK
<1>7. pc' \in [Publishers -> {"idle", "connect", "subscribe", "before", "puback", "after", "done"}]
      /\ polling' \in [Publishers -> BOOLEAN]
  BY <1>0, <1>1 DEF TypeOK
<1>8. Signable(args[p])
  BY DEF IInv, Rest, MainInv
<1>9. event_frame(p) \in Published
  BY <1>0, <1>8 DEF TypeOK, Args, event_frame, Published, Signable
<1>10. TypeOK'
  BY <1>0, <1>1, <1>5, <1>6, <1>7, <1>9 DEF TypeOK, device
<1>11. pc'[p] = next /\ \A q \in Publishers : q # p => Still(q)
  BY <1>0, <1>1, <1>5 DEF TypeOK, Still
<1>12. MainInv(p)'
  BY <1>1, <1>8, <1>11 DEF IInv, Rest, MainInv, Working, Shown, device
<1>13. QueueInv(p)'
  <2>1. QueueInv(p)
    BY DEF IInv, Rest
  <2>2. \A i \in 1 .. Len(z) : z[i].kind = "message" => z[i].report \in reports
    BY <1>4, <2>1 DEF QueueInv
  <2>3. QED
    BY <1>5, <2>2 DEF QueueInv
<1>14. (Out(p) => Out(p)') /\ (next = "puback" => Out(p)')
  BY <1>11 DEF Out
<1>15. \A f \in wire' : f \in wire \/ (f = event_frame(p) /\ Out(p)')
  BY <1>14
<1>16. QED
  BY <1>10, <1>11, <1>12, <1>13, <1>14, <1>15, PublisherStep

\* The client starts to connect.
LEMMA StartStep == ASSUME IInv, NEW p \in Publishers, Start(p) PROVE IInv'
<1>0. TypeOK
  BY DEF IInv
<1>1. pc[p] = "idle" /\ UNCHANGED <<args, file, wire, reports, device>>
  BY DEF Start
<1>2. CASE Exit(p, "usage")
  BY <1>1, <1>2, ExitStep DEF Out, Outcomes
<1>3. CASE ~Exit(p, "usage")
  <2>1. /\ file[p] = "signed" /\ pc' = [pc EXCEPT ![p] = "connect"]
        /\ session' = [session EXCEPT ![p] = "connecting"]
        /\ UNCHANGED <<result, queue, overflow, polling, acked>>
    BY <1>3 DEF Start, verified_frame
  <2>2. TypeOK'
    BY <1>0, <1>1, <2>1 DEF TypeOK, device
  <2>3. pc'[p] = "connect" /\ \A q \in Publishers : q # p => Still(q)
    BY <1>0, <1>1, <2>1 DEF TypeOK, Still
  <2>4. MainInv(p)'
    BY <1>1, <2>1, <2>3 DEF IInv, Rest, MainInv, Working, Shown, device
  <2>5. QueueInv(p)' /\ ~Out(p)
    BY <1>1, <2>1 DEF IInv, Rest, QueueInv, Out
  <2>6. QED
    BY <1>1, <2>2, <2>3, <2>4, <2>5, PublisherStep
<1>4. QED
  BY <1>2, <1>3

\* The waits for the connection and the subscription.
LEMMA ConnectedStep == ASSUME IInv, NEW p \in Publishers, Connected(p) \/ Subscribed(p) PROVE IInv'
<1>1. /\ pc[p] \in {"connect", "subscribe"} /\ queue[p] # <<>>
      /\ UNCHANGED <<args, file, wire, reports, device>>
      /\ Fail(p) \/ \E next \in {"connect", "subscribe", "before"} : Goto(p, next)
  BY DEF Connected, Subscribed
<1>2. Working(p) /\ ~Out(p)
  BY <1>1 DEF Working, Out
<1>3. CASE Fail(p)
  BY <1>1, <1>2, <1>3, FailStep
<1>4. CASE \E next \in {"connect", "subscribe", "before"} : Goto(p, next)
  BY <1>1, <1>2, <1>4, GotoStep
<1>5. QED
  BY <1>1, <1>3, <1>4

\* A step that only moves p's wait along.
LEMMA PollStep == ASSUME IInv, NEW p \in Publishers, Poll(p) PROVE IInv'
<1>0. TypeOK
  BY DEF IInv
<1>1. pc[p] \in {"before", "after"} /\ UNCHANGED <<args, file, wire, reports, device>>
  BY DEF Poll
<1>2. CASE Fail(p)
  BY <1>1, <1>2, FailStep DEF Working
<1>3. CASE ~Fail(p)
  <2>1. polling' = [polling EXCEPT ![p] = TRUE]
        /\ UNCHANGED <<pc, result, queue, overflow, session, acked>>
    BY <1>3 DEF Poll
  <2>2. TypeOK'
    BY <1>0, <1>1, <2>1 DEF TypeOK, device
  <2>3. MainInv(p)' /\ QueueInv(p)' /\ (Out(p) => Out(p)')
    BY <1>1, <2>1 DEF IInv, Rest, MainInv, QueueInv, Working, Shown, device, Out
  <2>4. \A q \in Publishers : q # p => Still(q)
    BY <1>1, <2>1 DEF Still
  <2>5. QED
    BY <1>1, <2>2, <2>3, <2>4, PublisherStep
<1>4. QED
  BY <1>2, <1>3

\* The PUBACK ends the wait for it.
LEMMA AcknowledgedStep == ASSUME IInv, NEW p \in Publishers, Acknowledged(p) PROVE IInv'
<1>0. TypeOK
  BY DEF IInv
<1>1. /\ pc[p] = "puback" /\ pc' = [pc EXCEPT ![p] = "after"]
      /\ UNCHANGED <<args, file, result, queue, overflow, polling, session, acked, wire, reports, device>>
  BY DEF Acknowledged
<1>2. TypeOK'
  BY <1>0, <1>1 DEF TypeOK, device
<1>3. pc'[p] = "after" /\ \A q \in Publishers : q # p => Still(q)
  BY <1>0, <1>1 DEF TypeOK, Still
<1>4. MainInv(p)' /\ QueueInv(p)' /\ (Out(p) => Out(p)')
  BY <1>1, <1>3 DEF IInv, Rest, MainInv, QueueInv, Working, Shown, device, Out
<1>5. QED
  BY <1>1, <1>2, <1>3, <1>4, PublisherStep

\* The frame goes out after a report that shows the sequence before ours.
LEMMA BeforeStep == ASSUME IInv, NEW p \in Publishers, Before(p) PROVE IInv'
<1>1. pc[p] = "before" /\ UNCHANGED <<args, file, reports, device>>
  BY DEF Before
<1>2. Working(p) /\ ~Out(p)
  BY <1>1 DEF Working, Out
<1>3. CASE Fail(p) /\ UNCHANGED wire
  BY <1>1, <1>2, <1>3, FailStep
<1>4. CASE Skipped(p) /\ Goto(p, "before") /\ UNCHANGED wire
  BY <1>1, <1>2, <1>4, GotoStep DEF Skipped
<1>5. CASE Received(p) /\ Goto(p, "puback") /\ wire' = wire \cup {event_frame(p)}
  <2>1. queue[p] # <<>>
    BY <1>5 DEF Received
  <2>2. QED
    BY <1>1, <1>2, <1>5, <2>1, GotoStep
<1>6. QED
  BY <1>3, <1>4, <1>5 DEF Before

\* A report of our sequence with our event is the outcome of our event.
LEMMA AfterStep == ASSUME IInv, NEW p \in Publishers, After(p) PROVE IInv'
<1>0. TypeOK
  BY DEF IInv
<1>1. pc[p] = "after" /\ UNCHANGED <<args, file, wire, reports, device>>
  BY DEF After
<1>2. Working(p) /\ Out(p)
  BY <1>1 DEF Working, Out
<1> DEFINE m == Head(queue[p]).report
<1>3. CASE Fail(p)
  BY <1>1, <1>2, <1>3, FailStep
<1>4. CASE queue[p] # <<>> /\ Goto(p, "after")
  BY <1>1, <1>2, <1>4, GotoStep
<1>5. CASE /\ Received(p) /\ Exit(p, m.outcome)
           /\ m.completed = args[p].sequence /\ m.event = args[p].event
  <2>1. queue[p] # <<>> /\ Head(queue[p]).kind = "message" /\ reported_message(p, m)
    BY <1>5 DEF Received
  <2>2. queue[p] \in Seq(Items) /\ Len(queue[p]) >= 1 /\ Head(queue[p]) = queue[p][1]
    BY <1>0, <2>1 DEF TypeOK
  <2>3. m \in reports
    BY <2>1, <2>2 DEF IInv, Rest, QueueInv
  <2> HIDE DEF m
  <2>4. m \in Report /\ (m.outcome # "none" => Shown(m.boot, m.completed, m.event, m.outcome))
    BY <1>0, <2>3 DEF TypeOK, IInv, Rest, ReportInv
  <2>5. m.outcome \in Outcomes \cup {"none"} /\ m.boot = args[p].boot
    BY <2>1, <2>4 DEF Report, reported_message
  <2>6. m.outcome \notin {"usage", "unpublished"} /\ "none" \notin Outcomes
    BY <2>5 DEF Outcomes
  <2>7. m.outcome \in Outcomes => Shown(args[p].boot, args[p].sequence, args[p].event, m.outcome)
    BY <1>5, <2>4, <2>5, <2>6
  <2>8. QED
    BY <1>1, <1>5, <2>5, <2>6, <2>7, ExitStep
<1>6. QED
  BY <1>3, <1>4, <1>5 DEF After, Skipped, Received

\* Every step of main.
LEMMA MainStep == ASSUME IInv, NEW p \in Publishers, Main(p) PROVE IInv'
<1>1. CASE Timeout(p)
  BY <1>1, FailStep DEF Timeout, Working
<1>2. QED
  BY <1>1, StartStep, ConnectedStep, PollStep, BeforeStep, AcknowledgedStep, AfterStep DEF Main

-----------------------------------------------------------------------------
(* Steps of the device *)

\* What was applied stays applied, so every result and report stays true.
LEMMA ShownStays ==
    ASSUME applied \subseteq applied', NEW b, NEW n, NEW e, NEW o, Shown(b, n, e, o)
    PROVE  Shown(b, n, e, o)'
BY DEF Shown

LEMMA PublishersKeep ==
    ASSUME IInv, UNCHANGED publisher, applied \subseteq applied', reports \subseteq reports',
           UNCHANGED wire
    PROVE  (\A p \in Publishers : MainInv(p) /\ QueueInv(p))' /\ WireInv'
<1>0. UNCHANGED <<args, file, pc, result, queue>>
  BY DEF publisher
<1>1. ASSUME NEW p \in Publishers PROVE MainInv(p)' /\ QueueInv(p)'
  <2>1. MainInv(p) /\ QueueInv(p)
    BY DEF IInv, Rest
  <2>2. (result[p] \in Outcomes => Shown(args[p].boot, args[p].sequence, args[p].event, result[p]))'
    BY <1>0, <2>1, ShownStays DEF MainInv
  <2>3. MainInv(p)'
    BY <1>0, <2>1, <2>2 DEF MainInv, Working
  <2>4. QueueInv(p)'
    BY <1>0, <2>1 DEF QueueInv
  <2>5. QED
    BY <2>3, <2>4
<1>2. WireInv'
  BY <1>0 DEF IInv, Rest, WireInv, Out, event_frame
<1>3. QED
  BY <1>1, <1>2

\* An event is applied: the next one of this boot, once.
LEMMA HandleEventStep == ASSUME IInv, NEW f \in wire, HandleEvent(f) PROVE IInv'
<1>0. TypeOK /\ WireInv /\ DeviceInv /\ AppliedInv /\ AppliedInOrder /\ ReportInv
  BY DEF IInv, Rest
<1> DEFINE o == BusinessResult(f.event)
           x == [boot |-> boot, sequence |-> f.sequence, event |-> f.event, by |-> f.by,
                 outcome |-> o, at |-> count + 1]
<1>1. f.boot = boot /\ f.sequence = accepted + 1
  BY DEF HandleEvent, NextInOrder
<1>2. /\ accepted' = f.sequence /\ completed' = f.sequence /\ last' = f.event /\ outcome' = o
      /\ paused' = Pauses(f.event) /\ count' = count + 1 /\ applied' = applied \cup {x}
      /\ UNCHANGED <<publisher, wire, reports, boot>>
  BY DEF HandleEvent
<1>3. f.boot \in Boots /\ f.sequence \in Sequences1 /\ f.event \in Events /\ f.by \in Publishers
  BY <1>0 DEF TypeOK, Published
<1>4. o \in Outcomes /\ o # "none"
  BY DEF BusinessResult, Outcomes
<1>5. Pauses(f.event) \in BOOLEAN
  BY <1>0 DEF Pauses, TypeOK
<1> HIDE DEF o
<1>6. accepted \in Nat /\ count = accepted /\ count \in Nat /\ boot \in Nat
  BY <1>0, PublishAssumption DEF TypeOK, DeviceInv, Boots
<1>7. f.boot = args[f.by].boot /\ f.sequence = args[f.by].sequence
  BY <1>0 DEF WireInv, event_frame
<1>8. x \in Applied
  BY <1>1, <1>3, <1>4, <1>6 DEF Applied
<1>9. /\ x.boot = boot /\ x.sequence = accepted + 1 /\ x.event = f.event /\ x.by = f.by
      /\ x.outcome = o /\ x.at = accepted + 1
  BY <1>1, <1>6
<1> HIDE DEF x
<1>10. TypeOK'
  <2>1. accepted' \in 0 .. MaxSequence /\ completed' \in 0 .. MaxSequence
    BY <1>2, <1>3, PublishAssumption DEF Sequences1
  <2>2. /\ last' \in Events \cup {NoEvent} /\ outcome' \in Outcomes \cup {"none"}
        /\ paused' \in BOOLEAN /\ count' \in Nat /\ applied' \subseteq Applied
    BY <1>0, <1>2, <1>3, <1>4, <1>5, <1>6, <1>8 DEF TypeOK
  <2>3. QED
    BY <1>0, <1>2, <2>1, <2>2 DEF TypeOK, publisher
<1>11. (\A p \in Publishers : MainInv(p) /\ QueueInv(p))' /\ WireInv'
  BY <1>2, PublishersKeep
<1>12. ReportInv'
  BY <1>0, <1>2, ShownStays DEF ReportInv
<1>13. DeviceInv'
  <2>1. Shown(boot, completed, last, outcome)'
    BY <1>1, <1>2, <1>9 DEF Shown
  <2>2. QED
    BY <1>1, <1>2, <1>6, <2>1 DEF DeviceInv
<1>14. UNCHANGED args
  BY <1>2 DEF publisher
<1>15. AppliedInv'
  <2> SUFFICES ASSUME NEW y \in applied'
               PROVE  /\ y.boot <= boot' /\ (y.boot = boot' => y.sequence <= accepted')
                      /\ y.boot = args'[y.by].boot /\ y.sequence = args'[y.by].sequence
    BY DEF AppliedInv
  <2>1. CASE y \in applied
    <3>1. y.sequence \in Nat
      BY <1>0, <2>1 DEF TypeOK, Applied, Sequences1
    <3>2. QED
      BY <1>0, <1>1, <1>2, <1>6, <1>14, <2>1, <3>1 DEF AppliedInv
  <2>2. CASE y = x
    BY <1>1, <1>2, <1>6, <1>7, <1>9, <1>14, <2>2
  <2>3. QED
    BY <1>2, <2>1, <2>2
<1>16. AppliedInOrder'
  <2>1. x.sequence = x.at
    BY <1>9
  <2>2. ASSUME NEW y \in applied, y.boot = x.boot PROVE y.sequence # x.sequence /\ y.by # x.by
    <3>1. y.sequence <= accepted /\ y.sequence \in Nat
      BY <1>0, <1>9, <2>2 DEF AppliedInv, TypeOK, Applied, Sequences1
    <3>2. y.sequence # x.sequence
      BY <1>6, <1>9, <3>1
    <3>3. y.sequence = args[y.by].sequence
      BY <1>0 DEF AppliedInv
    <3>4. x.sequence = args[x.by].sequence
      BY <1>1, <1>7, <1>9
    <3>5. QED
      BY <3>2, <3>3, <3>4
  <2>3. QED
    BY <1>0, <1>2, <2>1, <2>2 DEF AppliedInOrder
<1>17. QED
  BY <1>10, <1>11, <1>12, <1>13, <1>15, <1>16 DEF IInv, Rest

\* The device reports what it has completed.
LEMMA ReportedStep == ASSUME IInv, Reported PROVE IInv'
<1>0. TypeOK /\ DeviceInv /\ ReportInv
  BY DEF IInv, Rest
<1> DEFINE m == [boot |-> boot, accepted |-> accepted, completed |-> completed, event |-> last,
                 outcome |-> outcome]
<1>1. reports' = reports \cup {m} /\ UNCHANGED <<publisher, wire, device>>
  BY DEF Reported
<1>2. m \in Report
  BY <1>0 DEF TypeOK, Report
<1>3. m.outcome # "none" => Shown(m.boot, m.completed, m.event, m.outcome)
  BY <1>0 DEF DeviceInv
<1> HIDE DEF m
<1>4. UNCHANGED <<args, file, pc, result, queue, overflow, polling, session, acked, wire,
                  boot, accepted, completed, last, outcome, paused, count, applied>>
  BY <1>1 DEF publisher, device
<1>5. TypeOK'
  BY <1>0, <1>1, <1>2, <1>4 DEF TypeOK
<1>6. (\A p \in Publishers : MainInv(p) /\ QueueInv(p))' /\ WireInv'
  BY <1>1, <1>4, PublishersKeep
<1>7. ReportInv'
  BY <1>0, <1>1, <1>3, <1>4 DEF ReportInv, Shown
<1>8. DeviceInv' /\ AppliedInv' /\ AppliedInOrder'
  BY <1>4 DEF IInv, Rest, DeviceInv, AppliedInv, AppliedInOrder, Shown
<1>9. QED
  BY <1>5, <1>6, <1>7, <1>8 DEF IInv, Rest

\* A new boot has applied nothing yet.
LEMMA RestartStep == ASSUME IInv, Restart PROVE IInv'
<1>0. TypeOK /\ AppliedInv
  BY DEF IInv, Rest
<1>1. /\ boot < MaxBoots /\ boot' = boot + 1 /\ accepted' = 0 /\ completed' = 0
      /\ last' = NoEvent /\ outcome' = "none" /\ paused' = FALSE /\ count' = 0
      /\ UNCHANGED <<publisher, wire, reports, applied>>
  BY DEF Restart
<1>2. TypeOK'
  <2>1. boot' \in Boots /\ accepted' \in 0 .. MaxSequence /\ completed' \in 0 .. MaxSequence
    BY <1>0, <1>1, PublishAssumption DEF TypeOK, Boots
  <2>2. QED
    BY <1>0, <1>1, <2>1 DEF TypeOK, publisher
<1>3. (\A p \in Publishers : MainInv(p) /\ QueueInv(p))' /\ WireInv'
  BY <1>1, PublishersKeep
<1>4. ReportInv' /\ DeviceInv' /\ AppliedInOrder'
  BY <1>1 DEF IInv, Rest, ReportInv, DeviceInv, AppliedInOrder, Shown
<1>5. AppliedInv'
  <2> SUFFICES ASSUME NEW y \in applied
               PROVE  /\ y.boot <= boot' /\ (y.boot = boot' => y.sequence <= accepted')
                      /\ y.boot = args[y.by].boot /\ y.sequence = args[y.by].sequence
    BY <1>1 DEF AppliedInv, publisher
  <2>1. y.boot \in Nat /\ boot \in Nat /\ y.boot <= boot
    BY <1>0, PublishAssumption DEF TypeOK, Applied, Boots, AppliedInv
  <2>2. y.boot <= boot' /\ y.boot # boot'
    BY <1>1, <2>1
  <2>3. QED
    BY <1>0, <2>2 DEF AppliedInv
<1>6. QED
  BY <1>2, <1>3, <1>4, <1>5 DEF IInv, Rest

-----------------------------------------------------------------------------
(* The invariant and the theorems *)

LEMMA InitIInv == Init => IInv
<1> SUFFICES ASSUME Init PROVE IInv
  OBVIOUS
<1>1. args \in [Publishers -> Args]
  <2>1. \A p \in Publishers : Asked[p] \subseteq Args
    BY PublishAssumption
  <2>2. QED
    BY <2>1 DEF Init
<1>2. queue \in [Publishers -> Seq(Items)] /\ \A p \in Publishers : Len(queue[p]) = 0
  <2>1. <<>> \in Seq(Items) /\ Len(<<>>) = 0
    OBVIOUS
  <2>2. QED
    BY <2>1 DEF Init
<1>3. \A p \in Publishers : Len(queue[p]) <= QueueSize
  <2>1. 0 <= QueueSize
    BY PublishAssumption
  <2>2. QED
    BY <1>2, <2>1
<1>4. 0 \in Boots /\ 0 \in 0 .. MaxSequence /\ 0 \in Nat
  BY PublishAssumption DEF Boots
<1>5. TypeOK
  BY <1>1, <1>2, <1>3, <1>4 DEF Init, TypeOK
<1>6. \A p \in Publishers : MainInv(p) /\ QueueInv(p)
  <2>1. ASSUME NEW p \in Publishers PROVE MainInv(p)
    <3>1. file[p] = "absent" /\ pc[p] = "idle" /\ result[p] = "none"
      BY DEF Init
    <3>2. QED
      BY <3>1 DEF MainInv, Working, Outcomes
  <2>2. ASSUME NEW p \in Publishers PROVE QueueInv(p)
    <3>1. Len(queue[p]) = 0
      BY <1>2
    <3>2. 1 .. Len(queue[p]) = {}
      BY <3>1
    <3>3. QED
      BY <3>2 DEF QueueInv
  <2>3. QED
    BY <2>1, <2>2
<1>7. WireInv /\ ReportInv /\ DeviceInv /\ AppliedInv /\ AppliedInOrder
  BY DEF Init, WireInv, ReportInv, DeviceInv, AppliedInv, AppliedInOrder
<1>8. QED
  BY <1>5, <1>6, <1>7 DEF IInv, Rest

LEMMA StepIInv == IInv /\ [Next]_vars => IInv'
<1> SUFFICES ASSUME IInv, [Next]_vars PROVE IInv'
  OBVIOUS
<1>1. CASE UNCHANGED vars
  BY <1>1 DEF vars, publisher, device, IInv, Rest, TypeOK, MainInv, QueueInv, WireInv, ReportInv,
              DeviceInv, AppliedInv, AppliedInOrder, Working, Out, Shown, event_frame
<1>2. CASE Next
  BY <1>2, MakeFrameStep, MainStep, CallbackStep, HandleEventStep, ReportedStep, RestartStep DEF Next
<1>3. QED
  BY <1>1, <1>2

\* The inductive invariant holds throughout.
LEMMA PublishInvariant == Spec => []IInv
<1>1. QED
  BY InitIInv, StepIInv, PTL DEF Spec

\* Frames, reports and queued items are always of their kinds, and no queue
\* exceeds its size (TypeOK).
THEOREM PublishTypes == Spec => []TypeOK
<1>1. IInv => TypeOK
  BY DEF IInv
<1>2. QED
  BY <1>1, PublishInvariant, PTL

\* A result main prints is the outcome of exactly its event, applied under its
\* sequence in its boot.
THEOREM PublishedResult == Spec => []ResultIsReal
<1>1. IInv => ResultIsReal
  BY DEF IInv, Rest, MainInv, ResultIsReal, Shown
<1>2. QED
  BY <1>1, PublishInvariant, PTL

\* A publisher that says nothing was published has no frame on the wire.
THEOREM UnpublishedInert == Spec => []UnpublishedIsInert
<1>1. IInv => UnpublishedIsInert
  <2> SUFFICES ASSUME IInv, NEW p \in Publishers, result[p] \in {"usage", "unpublished"},
                      NEW f \in wire
               PROVE  f.by # p
    BY DEF UnpublishedIsInert
  <2>1. pc[p] = "done"
    BY DEF IInv, Rest, MainInv
  <2>2. ~Out(p)
    BY <2>1 DEF Out
  <2>3. QED
    BY <2>2 DEF IInv, Rest, WireInv
<1>2. QED
  BY <1>1, PublishInvariant, PTL

\* The device applies each sequence of a boot once and in order, however often
\* and late its frame is delivered.
THEOREM AppliedOnce == Spec => []AppliedInOrder
<1>1. IInv => AppliedInOrder
  BY DEF IInv, Rest
<1>2. QED
  BY <1>1, PublishInvariant, PTL
=============================================================================
