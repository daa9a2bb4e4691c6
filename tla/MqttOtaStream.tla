--------------------------- MODULE MqttOtaStream ---------------------------
(***************************************************************************)
(* The MQTT firmware transfer: a mailbox of one block between the control  *)
(* task, which publishes block requests and offers the authenticated       *)
(* answers, and the OTA worker, which reads the block, writes flash and    *)
(* acknowledges what was written.  Every operation runs in one critical    *)
(* section and captures the clock inside it, so each is one step here.     *)
(*   mailbox   device_protocol/mqtt_ota_stream.c, mqtt_ota_transfer.c      *)
(*   requests  poll_network_owners in esp_base_protocol.c                  *)
(* The network loses, repeats, delays and reorders: an answer to any       *)
(* request ever published may arrive at any later time, any number of      *)
(* times.  The sender and eota_prepare_stream are not in the repository.   *)
(***************************************************************************)
EXTENDS Naturals

CONSTANTS Sizes,     \* sizes of the images, in bytes
          Block,     \* EBASE_MQTT_OTA_BLOCK_BYTES
          Capacity,  \* bytes eota_prepare_stream asks for in one read
          Total,     \* total_timeout_ms
          Idle,      \* idle_timeout_ms
          MaxNow,    \* UINT64_MAX, the largest clock value
          MaxOps,    \* bound: transfers started
          Tags,      \* authentication tags: distinct frames differ in theirs
          NoFrame    \* no frame

ASSUME StreamAssumption ==
    /\ Sizes \subseteq Nat \ {0}
    /\ Block \in Nat \ {0} /\ Capacity \in Nat \ {0}
    /\ Total \in Nat \ {0} /\ Idle \in 1 .. Total
    /\ MaxNow \in Nat /\ MaxOps \in Nat

Ops == 1 .. MaxOps
Offset == Nat
Time == 0 .. MaxNow
Request == [op : Ops, offset : Offset, written : Offset, expires : Time]
Frame == [req : Request, kind : {"data", "end", "cancel"}, length : 0 .. Block, tag : Tags]
Byte == Ops \X Nat   \* a byte of an image, by its position

ASSUME FrameAssumption == NoFrame \notin Request \cup Frame

VARIABLES
  (* ebase_mqtt_ota_stream_t; NoFrame is a frame whose valid flag is false *)
  active, size, block, used, length, readOffset, writtenOffset,
  lastNow, totalDeadline, idleDeadline, request, previous, ended, selecting, error,
  (* around it *)
  now,        \* milliseconds of uptime
  op,         \* the operation the MQTT owner is bound to
  published,  \* requests sent so far, of all operations
  worker,     \* stage of ota_task in this transfer
  flash,      \* the bytes the worker has received, by position
  pos         \* how many they are

deadlines == <<totalDeadline, idleDeadline>>
mailbox == <<active, size, block, used, length, readOffset, writtenOffset, lastNow, totalDeadline,
             idleDeadline, request, previous, ended, selecting, error>>
workerVars == <<worker, flash, pos>>
vars == <<mailbox, now, op, published, workerVars>>

FlagType == active \in BOOLEAN /\ ended \in BOOLEAN /\ selecting \in BOOLEAN

StreamType ==
    /\ size \in Sizes \cup {0} /\ block \in Request \cup {NoFrame}
    /\ used \in 0 .. Block /\ length \in 0 .. Block
    /\ readOffset \in Offset /\ writtenOffset \in Offset
    /\ lastNow \in Time /\ totalDeadline \in Time /\ idleDeadline \in Time
    /\ request \in Request \cup {NoFrame} /\ previous \in Frame \cup {NoFrame}
    /\ error \in {"ok", "timeout", "cancelled", "conflict", "bad_write"}

WorkerStages == {"off", "reading", "writing", "flush", "boundary", "selected", "failed"}

ContextType ==
    /\ now \in Time /\ op \in 0 .. MaxOps /\ published \subseteq Request
    /\ worker \in WorkerStages

FlashType == pos \in Offset /\ flash \in [0 .. pos - 1 -> Byte]

TypeOK == FlagType /\ StreamType /\ ContextType /\ FlashType

NoBytes == [p \in {} |-> <<0, 0>>]

\* The zeroed stream.  block is the request that the block answers.
Zeroed ==
    /\ active' = FALSE /\ size' = 0 /\ block' = NoFrame /\ used' = 0 /\ length' = 0
    /\ readOffset' = 0 /\ writtenOffset' = 0
    /\ lastNow' = 0 /\ totalDeadline' = 0 /\ idleDeadline' = 0
    /\ request' = NoFrame /\ previous' = NoFrame
    /\ ended' = FALSE /\ selecting' = FALSE /\ error' = "ok"

Init ==
    /\ active = FALSE /\ size = 0 /\ block = NoFrame /\ used = 0 /\ length = 0
    /\ readOffset = 0 /\ writtenOffset = 0
    /\ lastNow = 0 /\ totalDeadline = 0 /\ idleDeadline = 0
    /\ request = NoFrame /\ previous = NoFrame
    /\ ended = FALSE /\ selecting = FALSE /\ error = "ok"
    /\ now = 0 /\ op = 0 /\ published = {}
    /\ worker = "off" /\ flash = NoBytes /\ pos = 0

Least(a, b) == IF a < b THEN a ELSE b

-----------------------------------------------------------------------------
(* The mailbox *)

\* Mutant: a latched error does not end the stream.
Open_IgnoresError == active /\ ~selecting

Open == active /\ ~selecting /\ error = "ok"

\* Mutant: only the order of the clock is checked, no deadline.
Live_NoDeadline(t) == Open /\ lastNow <= t

\* live: t is the clock captured by the caller.
Live(t) == Open /\ lastNow <= t /\ t < totalDeadline /\ t < idleDeadline

\* An operation on a stream that is not live only latches the timeout.
NotLive(t) ==
    /\ ~Live(t)
    /\ error' = IF Open THEN "timeout" ELSE error
    /\ UNCHANGED <<active, size, block, used, length, readOffset, writtenOffset, lastNow, deadlines,
                   request, previous, ended, selecting>>

\* ebase_mqtt_ota_stream_begin, for the next operation.  The deadlines must
\* not overflow the clock; a refused begin fails the worker.
Begin ==
    /\ worker = "off" /\ op < MaxOps
    /\ op' = op + 1
    /\ IF ~active /\ now + Total <= MaxNow
          THEN /\ active' = TRUE /\ size' \in Sizes /\ lastNow' = now
               /\ totalDeadline' = now + Total /\ idleDeadline' = now + Idle
               /\ block' = NoFrame /\ used' = 0 /\ length' = 0
               /\ readOffset' = 0 /\ writtenOffset' = 0
               /\ request' = NoFrame /\ previous' = NoFrame
               /\ ended' = FALSE /\ selecting' = FALSE /\ error' = "ok"
               /\ worker' = "reading"
          ELSE worker' = "failed" /\ UNCHANGED mailbox
    /\ flash' = NoBytes /\ pos' = 0
    /\ UNCHANGED <<now, published>>

\* Mutant: the tail, too, has to be in flash before END is asked for.
CanRequest_NoTail == ~ended /\ used = length /\ writtenOffset = readOffset

\* Mutant: the next block is asked for as soon as the last one was read.
CanRequest_NoBackpressure == ~ended /\ used = length

\* The last block may end with a tail that is only flushed after END; every
\* other block has to be in flash before the next one is asked for.
CanRequest ==
    /\ ~ended /\ used = length
    /\ readOffset < size => writtenOffset = readOffset

NewRequest ==
    [op |-> op, offset |-> readOffset, written |-> writtenOffset,
     expires |-> Least(idleDeadline, totalDeadline)]

\* One pass of the control loop while the worker runs: the request is made if
\* there is none, and the MQTT owner may publish it.
RequestBlock ==
    /\ worker \in {"reading", "writing", "flush", "boundary"}
    /\ \/ /\ Live(now)
          /\ lastNow' = now
          /\ IF CanRequest
                THEN LET r == IF request = NoFrame THEN NewRequest ELSE request
                     IN  /\ request' = r
                         /\ \/ UNCHANGED published
                            \/ r.expires > now /\ published' = published \cup {r}
                ELSE UNCHANGED <<request, published>>
          /\ UNCHANGED <<active, size, block, used, length, readOffset, writtenOffset, deadlines,
                         previous, ended, selecting, error>>
       \/ NotLive(now) /\ UNCHANGED published
    /\ UNCHANGED <<now, op, workerVars>>

\* same_request: the operation is not compared.
Answers(f, r) ==
    f.req.offset = r.offset /\ f.req.written = r.written /\ f.req.expires = r.expires

\* Whether frame f is the answer the mailbox waits for.
Expected(f) ==
    /\ request # NoFrame /\ Answers(f, request) /\ ~ended /\ used = length
    /\ \/ f.kind = "end" /\ readOffset = size
       \/ f.kind = "data" /\ readOffset < size /\ f.length = Least(size - readOffset, Block)

Accept(f) ==
    /\ ended' = (ended \/ f.kind = "end")
    /\ IF f.kind = "data" THEN block' = f.req /\ length' = f.length /\ used' = 0
                          ELSE UNCHANGED <<block, length, used>>
    /\ previous' = f /\ request' = NoFrame
    /\ UNCHANGED error

\* ebase_mqtt_ota_stream_offer on a live stream.
OfferLive(f, t) ==
    LET repeated == previous # NoFrame /\ f.kind = previous.kind /\ Answers(f, previous.req)
        cancels == /\ f.kind = "cancel"
                   /\ \/ request # NoFrame /\ Answers(f, request)
                      \/ previous # NoFrame /\ Answers(f, previous.req)
        keep == UNCHANGED <<block, length, used, ended, previous, request>>
    IN  IF f.req.expires <= t THEN keep /\ UNCHANGED error
        ELSE IF repeated
        THEN /\ keep
             /\ error' = IF f.length = previous.length /\ f.tag = previous.tag
                            THEN error ELSE "conflict"
        ELSE IF cancels THEN keep /\ error' = "cancelled"
        ELSE IF Expected(f) THEN Accept(f)
        ELSE keep /\ UNCHANGED error

\* esp_base_mqtt_ota_transfer_offer, with the clock of the critical section.
Offer(f, t) ==
    \/ /\ Live(t)
       /\ lastNow' = t
       /\ OfferLive(f, t)
       /\ UNCHANGED <<active, size, readOffset, writtenOffset, deadlines, selecting>>
    \/ NotLive(t)

\* ebase_mqtt_ota_stream_read: count is what it returns.
Read(count) ==
    /\ used' = used + count
    /\ readOffset' = readOffset + count
    /\ lastNow' = now
    /\ UNCHANGED <<active, size, block, length, writtenOffset, deadlines, request, previous, ended,
                   selecting, error>>

\* ebase_mqtt_ota_stream_written on a live stream, for an offset in range.
Written(offset) ==
    /\ writtenOffset' = offset
    /\ idleDeadline' = IF offset > writtenOffset
                          THEN now + Least(totalDeadline - now, Idle) ELSE idleDeadline
    /\ lastNow' = now
    /\ UNCHANGED <<active, size, block, used, length, readOffset, totalDeadline, request, previous,
                   ended, selecting, error>>

BadWrite ==
    /\ error' = "bad_write" /\ lastNow' = now
    /\ UNCHANGED <<active, size, block, used, length, readOffset, writtenOffset, deadlines, request,
                   previous, ended, selecting>>

\* ebase_mqtt_ota_stream_select: the cancellation boundary.
Complete ==
    ended /\ readOffset = size /\ writtenOffset = size /\ used = length

-----------------------------------------------------------------------------
(* The sender and the network *)

ValidFrame(f) == IF f.kind = "data" THEN f.length > 0 ELSE f.length = 0

\* Frames that a sender makes for the requests it has seen.
Sent == {f \in [req : published, kind : {"data", "end", "cancel"},
                length : 0 .. Block, tag : Tags] : ValidFrame(f)}

\* Mutant: frames of another operation are not told apart.
Deliver_AnyOperation ==
    /\ worker # "off"
    /\ \E f \in Sent : Offer(f, now)
    /\ UNCHANGED <<now, op, published, workerVars>>

\* Mutant: the clock is read before the critical section is entered.
Deliver_StaleClock ==
    /\ worker # "off"
    /\ \E f \in Sent, t \in 0 .. now : f.req.op = op /\ Offer(f, t)
    /\ UNCHANGED <<now, op, published, workerVars>>

\* The MQTT owner passes on the authenticated frames of its bound operation.
Deliver ==
    /\ worker # "off"
    /\ \E f \in Sent : f.req.op = op /\ Offer(f, now)
    /\ UNCHANGED <<now, op, published, workerVars>>

-----------------------------------------------------------------------------
(* The worker: eota_prepare_stream reads, fills a buffer of one block, writes *)
(* full buffers as they fill and the tail at the end of the stream.           *)

\* esp_base_mqtt_ota_transfer_read; without data it waits and tries again.
WorkerRead ==
    /\ worker = "reading"
    /\ \/ /\ NotLive(now)
          /\ worker' = "failed" /\ UNCHANGED <<flash, pos>>
       \/ /\ Live(now) /\ used = length
          /\ Read(0)
          /\ worker' = IF ended /\ readOffset = size THEN "flush" ELSE "reading"
          /\ UNCHANGED <<flash, pos>>
       \/ /\ Live(now) /\ used < length
          /\ LET count == Least(length - used, Capacity)
             IN  /\ Read(count)
                 /\ flash' = [p \in 0 .. pos + count - 1 |->
                       IF p < pos THEN flash[p]
                                  ELSE <<block.op, block.offset + used + (p - pos)>>]
                 /\ pos' = pos + count
                 /\ worker' = IF (pos + count) % Block = 0 THEN "writing" ELSE "reading"
    /\ UNCHANGED <<now, op, published>>

\* Flash was written up to pos; esp_base_mqtt_ota_transfer_written tells it.
Acknowledge(next) ==
    /\ \/ /\ NotLive(now)
          /\ worker' = "failed"
       \/ /\ Live(now)
          /\ IF writtenOffset <= pos /\ pos <= readOffset
                THEN Written(pos) /\ worker' = next
                ELSE BadWrite /\ worker' = "failed"
    /\ UNCHANGED <<flash, pos, now, op, published>>

WorkerWrite == worker = "writing" /\ Acknowledge("reading")
WorkerFlush == worker = "flush" /\ Acknowledge("boundary")

\* esp_base_mqtt_ota_transfer_select after digest and signature were verified.
WorkerSelect ==
    /\ worker = "boundary"
    /\ \/ /\ NotLive(now)
          /\ worker' = "failed"
       \/ /\ Live(now)
          /\ lastNow' = now
          /\ selecting' = Complete
          /\ worker' = IF Complete THEN "selected" ELSE "failed"
          /\ UNCHANGED <<active, size, block, used, length, readOffset, writtenOffset, deadlines,
                         request, previous, ended, error>>
    /\ UNCHANGED <<flash, pos, now, op, published>>

\* Flash, digest or signature fail, or eota_prepare_stream gives up.
WorkerAbort ==
    /\ worker \in {"reading", "writing", "flush", "boundary"}
    /\ worker' = "failed"
    /\ UNCHANGED <<mailbox, now, op, published, flash, pos>>

WorkerStep == WorkerRead \/ WorkerWrite \/ WorkerFlush \/ WorkerSelect \/ WorkerAbort

\* poll_ota unbinds the owner and closes the stream once the worker is done.
Close ==
    /\ worker \in {"selected", "failed"}
    /\ Zeroed
    /\ worker' = "off"
    /\ UNCHANGED <<now, op, published, flash, pos>>

Tick == now < MaxNow /\ now' = now + 1 /\ UNCHANGED <<mailbox, op, published, workerVars>>

Next == Begin \/ RequestBlock \/ Deliver \/ WorkerStep \/ Close \/ Tick

\* The worker task is scheduled and time passes; nothing is assumed of the
\* network or the sender.
Fairness ==
    /\ WF_vars(WorkerRead) /\ WF_vars(WorkerWrite) /\ WF_vars(WorkerFlush)
    /\ WF_vars(WorkerSelect) /\ WF_vars(Tick)

Spec == Init /\ [][Next]_vars
FairSpec == Spec /\ Fairness

-----------------------------------------------------------------------------
(* Properties *)

\* The worker receives exactly the bytes of its own operation's image, each
\* once and in order, however often frames are lost, repeated or late; and it
\* never acknowledges more than it has received.
InOrder ==
    active =>
        /\ pos = readOffset /\ writtenOffset <= readOffset
        /\ \A p \in 0 .. pos - 1 : flash[p] = <<op, p>>

\* A stream that passed the cancellation boundary is whole and was neither
\* cancelled, in conflict nor out of time; nothing that arrives later changes
\* that.
SelectionIsComplete ==
    selecting => /\ error = "ok" /\ ended
                 /\ pos = size /\ writtenOffset = size
                 /\ \A p \in 0 .. size - 1 : flash[p] = <<op, p>>

\* A timeout is real: a deadline has passed.  No preempted caller makes the
\* clock of the stream run backwards.
TimeoutIsReal == error = "timeout" => now >= totalDeadline \/ now >= idleDeadline

\* The mailbox cannot starve its two users: while the worker waits for data on
\* a live stream, there is a block to read or a request to make or to answer.
NoStall ==
    worker = "reading" /\ Live(now) /\ ~ended => used < length \/ CanRequest

\* A request for data can be answered as long as the stream is live.  (The
\* request for END is made before the last write and may expire earlier.)
DataRequestLives ==
    request # NoFrame /\ readOffset < size /\ Live(now) => now < request.expires

\* Whatever the network does, the worker ends: complete or failed.
TransferEnds == (worker = "reading") ~> (worker \in {"selected", "failed"})
=============================================================================
