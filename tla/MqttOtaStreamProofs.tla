------------------------ MODULE MqttOtaStreamProofs ------------------------
(***************************************************************************)
(* For every image size, block size, read size, deadline and number of     *)
(* transfers: the worker receives the image in order, a selected stream is *)
(* complete, a timeout is real and a data request outlives no deadline.    *)
(*                                                                         *)
(* InOrder alone is not inductive.  What a read copies is right because    *)
(* the block answers the request of this operation at the read offset      *)
(* (BlockInv); that is so because a request is made only when the block is *)
(* used up, and names the offset that was reached then (RequestInv).       *)
(***************************************************************************)
EXTENDS MqttOtaStream, TLAPS

PosInv ==
    active => /\ op \in Ops
              /\ pos = readOffset /\ writtenOffset <= readOffset /\ readOffset <= size

FlashInv == active => \A p \in 0 .. pos - 1 : flash[p] = <<op, p>>

BlockInv ==
    active =>
        /\ used <= length
        /\ used < length =>
             /\ block # NoFrame /\ block.op = op
             /\ block.offset + used = readOffset
             /\ readOffset + (length - used) <= size

RequestInv ==
    active /\ request # NoFrame =>
        /\ used = length /\ request.op = op /\ request.offset = readOffset
        /\ readOffset < size =>
             /\ writtenOffset = readOffset
             /\ request.expires = Least(idleDeadline, totalDeadline)

SelectInv ==
    selecting =>
        /\ active /\ error = "ok" /\ ended
        /\ readOffset = size /\ writtenOffset = size

ClockInv ==
    /\ active => lastNow <= now
    /\ error = "timeout" => now >= totalDeadline \/ now >= idleDeadline

\* poll_ota closes the stream before another operation may begin.
IdleInv == worker = "off" => ~active

IInv ==
    /\ FlagType /\ StreamType /\ ContextType /\ FlashType
    /\ PosInv /\ FlashInv /\ BlockInv /\ RequestInv /\ SelectInv /\ ClockInv /\ IdleInv

\* Before the first read the worker has received nothing.
LEMMA NothingReceived == NoBytes \in [0 .. 0 - 1 -> Byte]
<1>1. 0 .. 0 - 1 = {}
  OBVIOUS
<1>2. QED
  BY <1>1 DEF NoBytes

\* The zeroed stream of the first boot satisfies the invariant.
LEMMA InitIInv == Init => IInv
<1> SUFFICES ASSUME Init PROVE IInv
  OBVIOUS
<1> USE StreamAssumption DEF Init
<1>1. FlashType
  BY NothingReceived DEF FlashType, Offset
<1>0. FlagType
  BY DEF FlagType
<1>2. StreamType
  BY DEF StreamType, Offset, Time
<1>3. ContextType
  BY DEF ContextType, WorkerStages, Time
<1>4. PosInv /\ FlashInv /\ BlockInv /\ RequestInv /\ SelectInv /\ IdleInv
  BY DEF PosInv, FlashInv, BlockInv, RequestInv, SelectInv, IdleInv
<1>5. ClockInv
  BY DEF ClockInv
<1>6. QED
  BY <1>0, <1>1, <1>2, <1>3, <1>4, <1>5 DEF IInv

\* A call on a stream that is not live changes nothing but the error, and that
\* only when a deadline has passed.
LEMMA NotLiveStep ==
    ASSUME IInv, NotLive(now), UNCHANGED <<now, op, published, flash, pos>>,
           worker' \in WorkerStages, worker' = worker \/ worker' = "failed"
    PROVE  IInv'
<1> USE DEF IInv, NotLive, deadlines
<1>1. FlagType' /\ StreamType'
  BY DEF FlagType, StreamType
<1>2. ContextType' /\ FlashType'
  BY DEF ContextType, FlashType
<1>3. PosInv' /\ FlashInv' /\ BlockInv' /\ IdleInv'
  BY DEF PosInv, FlashInv, BlockInv, IdleInv
<1>4. RequestInv'
  BY DEF RequestInv
<1>5. SelectInv'
  BY DEF SelectInv, Open
<1>6. ClockInv'
  BY DEF ClockInv, Open, Live, StreamType, ContextType, Time
<1>7. QED
  BY <1>1, <1>2, <1>3, <1>4, <1>5, <1>6

\* A transfer begins with an empty mailbox and deadlines within the clock.
LEMMA BeginStep == IInv /\ Begin => IInv'
<1> SUFFICES ASSUME IInv, Begin PROVE IInv'
  OBVIOUS
<1> USE StreamAssumption DEF IInv
<1>1. ~active
  BY DEF Begin, IdleInv
<1>2. FlashType' /\ pos' = 0
  BY NothingReceived DEF Begin, FlashType, Offset
<1>3. ContextType'
  BY DEF Begin, ContextType, WorkerStages
<1>4. CASE now + Total <= MaxNow
  <2>0. FlagType'
    BY <1>1, <1>4 DEF Begin, FlagType
  <2>1. StreamType'
    BY <1>1, <1>4 DEF Begin, StreamType, ContextType, Offset, Time
  <2>2. PosInv' /\ BlockInv' /\ RequestInv' /\ SelectInv' /\ IdleInv'
    BY <1>1, <1>2, <1>4, <2>1
       DEF Begin, PosInv, BlockInv, RequestInv, SelectInv, IdleInv, StreamType, ContextType, Ops
  <2>3. FlashInv'
    BY <1>2 DEF FlashInv
  <2>4. ClockInv'
    BY <1>1, <1>4 DEF Begin, ClockInv, ContextType, Time
  <2>5. QED
    BY <1>2, <1>3, <2>0, <2>1, <2>2, <2>3, <2>4
<1>5. CASE ~(now + Total <= MaxNow)
  BY <1>1, <1>2, <1>3, <1>5 DEF Begin, mailbox, FlagType, StreamType, PosInv, FlashInv, BlockInv,
     RequestInv, SelectInv, ClockInv, IdleInv
<1>6. QED
  BY <1>4, <1>5

\* A request names the offset that was reached, and expires with the stream.
LEMMA RequestStep == IInv /\ RequestBlock => IInv'
<1> SUFFICES ASSUME IInv, RequestBlock PROVE IInv'
  OBVIOUS
<1>1. CASE NotLive(now)
  BY <1>1, NotLiveStep DEF RequestBlock, IInv, ContextType, workerVars, Live, NotLive
<1>2. CASE Live(now)
  <2> DEFINE r == IF request = NoFrame THEN NewRequest ELSE request
  <2> USE <1>2 DEF IInv
  <2>1. UNCHANGED <<active, size, block, used, length, readOffset, writtenOffset, totalDeadline,
                    idleDeadline, previous, ended, selecting, error, now, op, worker, flash, pos>>
    BY DEF RequestBlock, NotLive, workerVars, deadlines
  <2>2. lastNow' = now
    BY DEF RequestBlock, NotLive
  <2>3. r \in Request
    BY <1>2, StreamAssumption DEF NewRequest, Request, PosInv, StreamType, Live, Open, Least, Time,
       Offset
  <2>4. /\ request' = r \/ request' = request
        /\ published' = published \/ published' = published \cup {r}
        /\ request' # request => request = NoFrame /\ request' = NewRequest /\ CanRequest
    BY DEF RequestBlock, NotLive
  <2>5. FlagType' /\ StreamType'
    BY <2>1, <2>2, <2>3, <2>4 DEF FlagType, StreamType, ContextType
  <2>6. ContextType' /\ FlashType' /\ IdleInv'
    BY <2>1, <2>3, <2>4 DEF ContextType, FlashType, IdleInv
  <2>7. PosInv' /\ FlashInv' /\ BlockInv' /\ SelectInv'
    BY <2>1 DEF PosInv, FlashInv, BlockInv, SelectInv
  <2>8. RequestInv'
    <3>1. CASE request' = request
      BY <2>1, <3>1 DEF RequestInv
    <3>2. CASE request' # request
      BY <2>1, <2>4, <3>2 DEF RequestInv, NewRequest, CanRequest
    <3>3. QED
      BY <3>1, <3>2
  <2>9. ClockInv'
    BY <2>1, <2>2 DEF ClockInv, ContextType, Time
  <2>10. QED
    BY <2>5, <2>6, <2>7, <2>8, <2>9
<1>3. QED
  BY <1>1, <1>2 DEF RequestBlock

\* A frame that is not accepted only changes the error, and not to a timeout.
LEMMA KeepStep ==
    ASSUME IInv, Live(now), lastNow' = now,
           error' \in {"ok", "cancelled", "conflict"},
           UNCHANGED <<active, size, block, used, length, readOffset, writtenOffset, totalDeadline,
                       idleDeadline, request, previous, ended, selecting, now, op, published,
                       worker, flash, pos>>
    PROVE  IInv'
<1> USE DEF IInv
<1>1. FlagType' /\ StreamType'
  BY DEF FlagType, StreamType, ContextType
<1>2. ContextType' /\ FlashType' /\ IdleInv'
  BY DEF ContextType, FlashType, IdleInv
<1>3. PosInv' /\ FlashInv' /\ BlockInv' /\ RequestInv'
  BY DEF PosInv, FlashInv, BlockInv, RequestInv
<1>4. SelectInv' /\ ClockInv'
  BY DEF SelectInv, ClockInv, Live, Open, ContextType, Time
<1>5. QED
  BY <1>1, <1>2, <1>3, <1>4

\* An accepted frame answers the request of this operation, so that a block of
\* data continues exactly where the worker stopped reading.
LEMMA AcceptStep ==
    ASSUME IInv, Live(now), lastNow' = now,
           NEW f \in Frame, f.req.op = op, Expected(f), Accept(f),
           UNCHANGED <<active, size, readOffset, writtenOffset, totalDeadline, idleDeadline,
                       selecting, now, op, published, worker, flash, pos>>
    PROVE  IInv'
<1> USE DEF IInv
<1>1. /\ f.req \in Request /\ f.length \in 0 .. Block
      /\ f.req.offset = readOffset /\ active /\ used = length /\ request # NoFrame
  BY DEF Expected, Answers, RequestInv, Live, Open, Frame
<1>2. FlagType'
  BY DEF FlagType, Accept
<1>3. StreamType'
  BY <1>1, StreamAssumption DEF StreamType, Accept, ContextType
<1>4. ContextType' /\ FlashType' /\ IdleInv' /\ PosInv' /\ FlashInv'
  BY DEF ContextType, FlashType, IdleInv, PosInv, FlashInv
<1>5. BlockInv'
  <2>1. CASE f.kind = "data"
    <3>1. f.length = Least(size - readOffset, Block) /\ readOffset < size
      BY <2>1 DEF Expected
    <3>2. readOffset \in Nat /\ size \in Nat /\ readOffset + f.length <= size
      BY <3>1, StreamAssumption DEF Least, StreamType, Offset
    <3>3. f.req # NoFrame
      BY <1>1, FrameAssumption
    <3>4. QED
      BY <1>1, <2>1, <3>2, <3>3, StreamAssumption DEF Accept, BlockInv
  <2>2. CASE f.kind # "data"
    BY <1>1, <2>2 DEF Accept, BlockInv
  <2>3. QED
    BY <2>1, <2>2
<1>6. RequestInv'
  BY DEF RequestInv, Accept
<1>7. SelectInv' /\ ClockInv'
  BY DEF SelectInv, ClockInv, Accept, Live, Open, ContextType, Time
<1>8. QED
  BY <1>2, <1>3, <1>4, <1>5, <1>6, <1>7

\* Whatever arrives from the network.
LEMMA DeliverStep == IInv /\ Deliver => IInv'
<1> SUFFICES ASSUME IInv, Deliver PROVE IInv'
  OBVIOUS
<1>1. PICK f \in Sent : f.req.op = op /\ Offer(f, now)
  BY DEF Deliver
<1>2. f \in Frame
  BY <1>1 DEF Sent, Frame, IInv, ContextType
<1>3. UNCHANGED <<now, op, published, worker, flash, pos>>
  BY DEF Deliver, workerVars
<1>4. CASE NotLive(now)
  BY <1>3, <1>4, NotLiveStep DEF IInv, ContextType
<1>5. CASE Live(now)
  <2>1. /\ lastNow' = now /\ OfferLive(f, now)
        /\ UNCHANGED <<active, size, readOffset, writtenOffset, totalDeadline, idleDeadline,
                       selecting>>
    BY <1>1, <1>5 DEF Offer, NotLive, deadlines
  <2>2. CASE Expected(f) /\ Accept(f)
    BY <1>1, <1>2, <1>3, <1>5, <2>1, <2>2, AcceptStep
  <2>3. CASE /\ UNCHANGED <<block, length, used, ended, previous, request>>
             /\ error' \in {"ok", "cancelled", "conflict"}
    BY <1>3, <1>5, <2>1, <2>3, KeepStep
  <2>4. QED
    BY <1>5, <2>1, <2>2, <2>3 DEF OfferLive, Live, Open
<1>6. QED
  BY <1>1, <1>4, <1>5 DEF Offer

\* A read copies the next bytes of the block behind the ones received so far.
LEMMA ReadStep == IInv /\ WorkerRead => IInv'
<1> SUFFICES ASSUME IInv, WorkerRead PROVE IInv'
  OBVIOUS
<1> USE DEF IInv
<1>1. CASE NotLive(now)
  <2>1. worker' \in WorkerStages /\ (worker' = worker \/ worker' = "failed")
        /\ UNCHANGED <<now, op, published, flash, pos>>
    BY <1>1 DEF WorkerRead, WorkerStages, NotLive
  <2>2. QED
    BY <1>1, <2>1, NotLiveStep
<1>2. CASE Live(now)
  <2>1. active /\ lastNow' = now
    BY <1>2 DEF WorkerRead, Live, Open, Read, NotLive
  <2>2. UNCHANGED <<active, size, block, length, writtenOffset, totalDeadline, idleDeadline,
                    request, previous, ended, selecting, error, now, op, published>>
    BY <1>2 DEF WorkerRead, Read, NotLive, deadlines
  <2>3. worker' \in {"reading", "writing", "flush"}
    BY <1>2 DEF WorkerRead, NotLive
  <2>4. /\ used \in Nat /\ length \in Nat /\ length <= Block /\ size \in Nat
        /\ readOffset \in Nat /\ writtenOffset \in Nat /\ pos \in Nat /\ op \in Ops
        /\ pos = readOffset /\ used <= length /\ writtenOffset <= readOffset
    BY <2>1, StreamAssumption DEF StreamType, FlashType, PosInv, BlockInv, Offset
  <2>5. FlagType' /\ ContextType' /\ IdleInv'
    BY <2>2, <2>3 DEF FlagType, ContextType, IdleInv, WorkerStages
  <2>6. ClockInv'
    BY <2>1, <2>2 DEF ClockInv, ContextType, Time
  <2>7. CASE used = length
    <3>1. UNCHANGED <<used, readOffset, flash, pos>>
      BY <1>2, <2>4, <2>7 DEF WorkerRead, Read, NotLive
    <3>2. StreamType' /\ FlashType'
      BY <2>1, <2>2, <3>1 DEF StreamType, FlashType, ContextType
    <3>3. PosInv' /\ FlashInv' /\ BlockInv' /\ RequestInv' /\ SelectInv'
      BY <2>2, <3>1 DEF PosInv, FlashInv, BlockInv, RequestInv, SelectInv
    <3>4. QED
      BY <2>5, <2>6, <3>2, <3>3
  <2>8. CASE used < length
    <3> DEFINE count == Least(length - used, Capacity)
    <3>1. count \in Nat /\ count > 0 /\ used + count <= length
      BY <2>4, <2>8, StreamAssumption DEF Least
    <3>2. /\ used' = used + count /\ readOffset' = readOffset + count /\ pos' = pos + count
          /\ flash' = [p \in 0 .. pos + count - 1 |->
                         IF p < pos THEN flash[p]
                                    ELSE <<block.op, block.offset + used + (p - pos)>>]
      <4>1. used # length
        BY <2>4, <2>8
      <4>2. QED
        BY <1>2, <4>1, Zenon DEF WorkerRead, Read, NotLive
    <3>3. /\ block \in Request /\ block.op = op /\ block.offset \in Nat
          /\ block.offset + used = readOffset /\ readOffset + (length - used) <= size
      BY <2>1, <2>8 DEF BlockInv, StreamType, Request, Offset
    <3>4. StreamType'
      BY <2>1, <2>2, <2>4, <3>1, <3>2, StreamAssumption DEF StreamType, ContextType, Offset
    <3>5. \A p \in 0 .. pos' - 1 : flash'[p] = <<op, p>>
      <4> SUFFICES ASSUME NEW p \in 0 .. pos' - 1 PROVE flash'[p] = <<op, p>>
        OBVIOUS
      <4>1. p \in Nat /\ p \in 0 .. pos + count - 1
        BY <2>4, <3>1, <3>2
      <4>2. CASE p < pos
        BY <2>1, <2>4, <3>2, <4>1, <4>2 DEF FlashInv
      <4>3. CASE ~(p < pos)
        <5>1. flash'[p] = <<block.op, block.offset + used + (p - pos)>>
          BY <3>2, <4>1, <4>3
        <5>2. block.offset + used + (p - pos) = p
          BY <2>4, <3>3, <4>1
        <5>3. QED
          BY <3>3, <5>1, <5>2
      <4>4. QED
        BY <4>2, <4>3
    <3>6. FlashType'
      <4>1. pos' \in Nat /\ 0 .. pos' - 1 = 0 .. pos + count - 1
        BY <2>4, <3>1, <3>2
      <4>2. \A p \in 0 .. pos' - 1 : <<op, p>> \in Byte
        BY <2>4, <4>1 DEF Byte
      <4>3. DOMAIN flash' = 0 .. pos' - 1 /\ flash' = [p \in DOMAIN flash' |-> flash'[p]]
        BY <3>2, <4>1
      <4>4. QED
        BY <3>5, <4>1, <4>2, <4>3 DEF FlashType, Offset
    <3>7. FlashInv'
      BY <2>2, <3>5 DEF FlashInv
    <3>8. PosInv'
      BY <2>2, <2>4, <3>1, <3>2, <3>3 DEF PosInv
    <3>9. BlockInv'
      <4>1. block # NoFrame
        BY <3>3, FrameAssumption
      <4> HIDE DEF count
      <4>2. used' <= length /\ block.offset + used' = readOffset'
        BY <2>4, <3>1, <3>2, <3>3
      <4>3. readOffset' + (length - used') = readOffset + (length - used)
        BY <2>4, <3>1, <3>2
      <4>4. QED
        BY <2>2, <3>3, <4>1, <4>2, <4>3 DEF BlockInv
    <3>10. RequestInv'
      BY <2>1, <2>2, <2>4, <2>8 DEF RequestInv
    <3>11. SelectInv'
      BY <1>2, <2>2 DEF SelectInv, Live, Open
    <3>12. QED
      BY <2>5, <2>6, <3>4, <3>6, <3>7, <3>8, <3>9, <3>10, <3>11
  <2>9. QED
    BY <2>4, <2>7, <2>8
<1>3. QED
  BY <1>1, <1>2 DEF WorkerRead

\* An acknowledgement moves the idle deadline, never past the total one, and
\* only if it reports progress, so that no request for data goes stale.
LEMMA AcknowledgeStep ==
    ASSUME IInv, NEW next \in {"reading", "boundary"}, Acknowledge(next)
    PROVE  IInv'
<1> USE DEF IInv
<1>1. UNCHANGED <<flash, pos, now, op, published>>
  BY DEF Acknowledge
<1>2. CASE NotLive(now)
  <2>1. worker' \in WorkerStages /\ (worker' = worker \/ worker' = "failed")
    BY <1>2 DEF Acknowledge, WorkerStages, NotLive
  <2>2. QED
    BY <1>1, <1>2, <2>1, NotLiveStep
<1>3. CASE Live(now)
  <2>1. /\ active /\ pos = readOffset /\ writtenOffset <= pos /\ pos <= readOffset
        /\ now < totalDeadline /\ error = "ok" /\ ~selecting
        /\ now \in Nat /\ totalDeadline \in Nat /\ idleDeadline \in Nat /\ pos \in Nat
        /\ readOffset \in Nat /\ writtenOffset \in Nat /\ Idle \in Nat /\ totalDeadline <= MaxNow
    BY <1>3, StreamAssumption
       DEF Live, Open, PosInv, StreamType, ContextType, FlashType, Time, Offset
  <2>2. Written(pos) /\ worker' = next
    BY <1>3, <2>1 DEF Acknowledge, NotLive
  <2>3. UNCHANGED <<active, size, block, used, length, readOffset, totalDeadline, request,
                    previous, ended, selecting, error>> /\ writtenOffset' = pos /\ lastNow' = now
    BY <2>2 DEF Written
  <2>4. /\ idleDeadline' \in Nat /\ idleDeadline' <= MaxNow
        /\ pos = writtenOffset => idleDeadline' = idleDeadline
    BY <2>1, <2>2, StreamAssumption DEF Written, Least, StreamType, Time
  <2>5. FlagType' /\ ContextType' /\ FlashType' /\ IdleInv'
    BY <1>1, <2>2, <2>3 DEF FlagType, ContextType, FlashType, IdleInv, WorkerStages
  <2>6. StreamType'
    BY <1>1, <2>1, <2>3, <2>4, StreamAssumption DEF StreamType, Time, Offset, ContextType
  <2>7. PosInv' /\ FlashInv' /\ BlockInv'
    BY <1>1, <2>1, <2>3 DEF PosInv, FlashInv, BlockInv
  <2>8. RequestInv'
    BY <1>1, <2>1, <2>3, <2>4 DEF RequestInv
  <2>9. SelectInv' /\ ClockInv'
    BY <1>1, <2>1, <2>3 DEF SelectInv, ClockInv
  <2>10. QED
    BY <2>5, <2>6, <2>7, <2>8, <2>9
<1>4. QED
  BY <1>2, <1>3 DEF Acknowledge

\* The boundary lets only a complete stream pass.
LEMMA SelectStep == IInv /\ WorkerSelect => IInv'
<1> SUFFICES ASSUME IInv, WorkerSelect PROVE IInv'
  OBVIOUS
<1> USE DEF IInv
<1>1. UNCHANGED <<flash, pos, now, op, published>>
  BY DEF WorkerSelect
<1>2. CASE NotLive(now)
  <2>1. worker' \in WorkerStages /\ (worker' = worker \/ worker' = "failed")
    BY <1>2 DEF WorkerSelect, WorkerStages, NotLive
  <2>2. QED
    BY <1>1, <1>2, <2>1, NotLiveStep
<1>3. CASE Live(now)
  <2>1. /\ UNCHANGED <<active, size, block, used, length, readOffset, writtenOffset, totalDeadline,
                       idleDeadline, request, previous, ended, error>>
        /\ lastNow' = now /\ selecting' = Complete
        /\ worker' \in {"selected", "failed"}
    BY <1>3 DEF WorkerSelect, NotLive, deadlines
  <2>2. FlagType'
    BY <2>1 DEF FlagType, Complete
  <2>3. StreamType' /\ ContextType' /\ FlashType' /\ IdleInv'
    BY <1>1, <2>1 DEF StreamType, ContextType, FlashType, IdleInv, WorkerStages
  <2>4. PosInv' /\ FlashInv' /\ BlockInv' /\ RequestInv'
    BY <1>1, <2>1 DEF PosInv, FlashInv, BlockInv, RequestInv
  <2>5. SelectInv'
    BY <1>3, <2>1 DEF SelectInv, Complete, Live, Open
  <2>6. ClockInv'
    BY <1>1, <2>1 DEF ClockInv, ContextType, Time
  <2>7. QED
    BY <2>2, <2>3, <2>4, <2>5, <2>6
<1>4. QED
  BY <1>2, <1>3 DEF WorkerSelect

\* Giving up, closing and the passing of time.
LEMMA RestStep == IInv /\ (WorkerAbort \/ Close \/ Tick \/ UNCHANGED vars) => IInv'
<1> SUFFICES ASSUME IInv, WorkerAbort \/ Close \/ Tick \/ UNCHANGED vars PROVE IInv'
  OBVIOUS
<1> USE DEF IInv
<1>1. CASE WorkerAbort
  BY <1>1 DEF WorkerAbort, mailbox, FlagType, StreamType, ContextType, FlashType, PosInv,
     FlashInv, BlockInv, RequestInv, SelectInv, ClockInv, IdleInv, WorkerStages
<1>2. CASE Close
  <2>1. ~active' /\ ~selecting' /\ error' = "ok"
    BY <1>2 DEF Close, Zeroed
  <2>2. FlagType'
    BY <1>2 DEF Close, Zeroed, FlagType
  <2>3. StreamType'
    BY <1>2, StreamAssumption DEF Close, Zeroed, StreamType, Offset, Time
  <2>4. ContextType' /\ FlashType'
    BY <1>2 DEF Close, ContextType, FlashType, WorkerStages
  <2>5. QED
    BY <2>1, <2>2, <2>3, <2>4
       DEF PosInv, FlashInv, BlockInv, RequestInv, SelectInv, ClockInv, IdleInv
<1>3. CASE Tick
  <2>1. ContextType'
    BY <1>3, StreamAssumption DEF Tick, ContextType, Time, workerVars
  <2>2. ClockInv'
    BY <1>3 DEF Tick, mailbox, ClockInv, StreamType, ContextType, Time
  <2>3. FlagType' /\ StreamType' /\ FlashType' /\ PosInv' /\ FlashInv' /\ BlockInv' /\ RequestInv'
        /\ SelectInv' /\ IdleInv'
    BY <1>3 DEF Tick, mailbox, workerVars, FlagType, StreamType, FlashType, PosInv, FlashInv,
       BlockInv, RequestInv, SelectInv, IdleInv
  <2>4. QED
    BY <2>1, <2>2, <2>3
<1>4. CASE UNCHANGED vars
  BY <1>4 DEF vars, mailbox, workerVars, FlagType, StreamType, ContextType, FlashType, PosInv,
     FlashInv, BlockInv, RequestInv, SelectInv, ClockInv, IdleInv
<1>5. QED
  BY <1>1, <1>2, <1>3, <1>4

\* Every step of the transfer preserves the invariant.
LEMMA StreamInvariant == Spec => []IInv
<1>1. IInv /\ [Next]_vars => IInv'
  <2> SUFFICES ASSUME IInv, [Next]_vars PROVE IInv'
    OBVIOUS
  <2>1. CASE WorkerWrite
    BY <2>1, AcknowledgeStep DEF WorkerWrite
  <2>2. CASE WorkerFlush
    BY <2>2, AcknowledgeStep DEF WorkerFlush
  <2>3. QED
    BY <2>1, <2>2, BeginStep, RequestStep, DeliverStep, ReadStep, SelectStep, RestStep
       DEF Next, WorkerStep
<1>2. QED
  BY <1>1, InitIInv, PTL DEF Spec

\* mqtt_ota_stream.c: fields, deadlines and what the worker received keep
\* their types; the deadlines never leave the clock's range.
THEOREM StreamTypeCorrect == Spec => []TypeOK
<1>1. IInv => TypeOK
  BY DEF IInv, TypeOK
<1>2. QED
  BY <1>1, StreamInvariant, PTL

\* The worker receives the image of its operation in order, each byte once.
THEOREM ReceivedInOrder == Spec => []InOrder
<1>1. IInv => InOrder
  BY DEF IInv, InOrder, PosInv, FlashInv
<1>2. QED
  BY <1>1, StreamInvariant, PTL

\* Only a complete, live and uncancelled transfer is selected.
THEOREM SelectedComplete == Spec => []SelectionIsComplete
<1>1. IInv => SelectionIsComplete
  BY DEF IInv, SelectionIsComplete, SelectInv, PosInv, FlashInv
<1>2. QED
  BY <1>1, StreamInvariant, PTL

\* The stream times out only after one of its deadlines.
THEOREM TimeoutReal == Spec => []TimeoutIsReal
<1>1. IInv => TimeoutIsReal
  BY DEF IInv, TimeoutIsReal, ClockInv
<1>2. QED
  BY <1>1, StreamInvariant, PTL

\* An outstanding request for data stays answerable while the stream lives.
THEOREM DataRequestAnswerable == Spec => []DataRequestLives
<1>1. IInv => DataRequestLives
  BY DEF IInv, DataRequestLives, RequestInv, Live, Open, Least, StreamType, ContextType, Time
<1>2. QED
  BY <1>1, StreamInvariant, PTL

-----------------------------------------------------------------------------
(* The mailbox cannot starve.  A block begins at a multiple of the block size *)
(* and is full unless it ends the image, so the worker writes and             *)
(* acknowledges each one before it waits for the next.                        *)

AlignInv ==
    active =>
        /\ used < length =>
             block.offset % Block = 0 /\ (length = Block \/ block.offset + length = size)
        /\ used = length /\ readOffset < size => readOffset % Block = 0

RoundInv ==
    active /\ worker = "reading" /\ used = length /\ readOffset < size =>
        writtenOffset = readOffset

StallInv == AlignInv /\ RoundInv

\* A number without a remainder is a multiple.
LEMMA NoRemainder ==
    ASSUME NEW b \in Nat, b > 0, NEW x \in Nat, x % b = 0
    PROVE  x = (x \div b) * b /\ x \div b \in Nat
<1>1. x = (x \div b) * b
  BY SMT
<1>2. x \div b \in Nat
  BY SMT
<1>3. QED
  BY <1>1, <1>2

\* A multiple leaves no remainder.
LEMMA Multiple ==
    ASSUME NEW b \in Nat, b > 0, NEW k \in Nat
    PROVE  (k * b) % b = 0
BY SMT

\* The block after a multiple of the block size begins at the next one.
LEMMA NextBlock ==
    ASSUME NEW b \in Nat, b > 0, NEW x \in Nat, x % b = 0
    PROVE  (x + b) % b = 0
<1> DEFINE q == x \div b
<1>1. x = q * b /\ q \in Nat
  BY NoRemainder
<1> HIDE DEF q
<1>2. q + 1 \in Nat
  BY <1>1
<1>3. (q + 1) * b = q * b + b
  BY <1>1
<1>4. ((q + 1) * b) % b = 0
  BY <1>2, Multiple
<1>5. QED
  BY <1>1, <1>3, <1>4

\* A step that moves neither the block nor the offsets, and brings no worker
\* back to reading, starves no one.
LEMMA StallKeeps ==
    ASSUME StallInv, UNCHANGED <<active, size, block, used, length, readOffset, writtenOffset>>,
           worker' = "reading" => worker = "reading"
    PROVE  StallInv'
BY DEF StallInv, AlignInv, RoundInv

\* A block is accepted at a multiple of the block size.
LEMMA StallDeliver == IInv /\ StallInv /\ Deliver => StallInv'
<1> SUFFICES ASSUME IInv, StallInv, Deliver PROVE StallInv'
  OBVIOUS
<1>1. PICK f \in Sent : f.req.op = op /\ Offer(f, now)
  BY DEF Deliver
<1>2. UNCHANGED <<now, op, published, worker>>
  BY DEF Deliver, workerVars
<1>3. CASE UNCHANGED <<active, size, block, used, length, readOffset, writtenOffset>>
  BY <1>2, <1>3, StallKeeps
<1>4. CASE /\ Live(now) /\ Expected(f) /\ Accept(f) /\ f.kind = "data"
           /\ UNCHANGED <<active, size, readOffset, writtenOffset>>
  <2>1. block' = f.req /\ length' = f.length /\ used' = 0
    BY <1>4 DEF Accept
  <2>2. active /\ used = length /\ readOffset < size /\ f.length = Least(size - readOffset, Block)
    BY <1>4 DEF Expected, Live, Open
  <2>3. f.req.offset = readOffset
    BY <1>4, <2>2 DEF Expected, Answers, IInv, RequestInv
  <2>4. readOffset \in Nat /\ size \in Nat /\ Block \in Nat \ {0}
    BY StreamAssumption DEF IInv, StreamType, Offset
  <2>5. f.length \in Nat \ {0} /\ (f.length = Block \/ readOffset + f.length = size)
    BY <2>2, <2>4 DEF Least
  <2>6. readOffset % Block = 0
    BY <2>2 DEF StallInv, AlignInv
  <2>7. used' # length'
    BY <2>1, <2>5
  <2>8. QED
    BY <1>4, <2>1, <2>3, <2>5, <2>6, <2>7 DEF StallInv, AlignInv, RoundInv
<1>5. QED
  <2>1. CASE NotLive(now)
    BY <1>3, <2>1 DEF NotLive
  <2>2. CASE Live(now) /\ OfferLive(f, now) /\ UNCHANGED <<active, size, readOffset, writtenOffset>>
    <3>1. CASE UNCHANGED <<block, length, used>>
      BY <1>3, <2>2, <3>1
    <3>2. CASE Expected(f) /\ Accept(f) /\ f.kind = "data"
      BY <1>4, <2>2, <3>2
    <3>3. QED
      BY <2>2, <3>1, <3>2 DEF OfferLive, Accept
  <2>3. QED
    BY <1>1, <2>1, <2>2 DEF Offer

\* A read that uses up a block before the end of the image fills the worker's
\* buffer, and the worker goes to write it.
LEMMA StallRead == IInv /\ StallInv /\ WorkerRead => StallInv'
<1> SUFFICES ASSUME IInv, StallInv, WorkerRead PROVE StallInv'
  OBVIOUS
<1>1. CASE NotLive(now)
  BY <1>1, StallKeeps DEF WorkerRead, NotLive, Live
<1>2. CASE Live(now)
  <2>1. active
    BY <1>2 DEF Live, Open
  <2>2. UNCHANGED <<active, size, block, length, writtenOffset>>
    BY <1>2 DEF WorkerRead, Read, NotLive
  <2>3. /\ used \in Nat /\ length \in Nat /\ size \in Nat /\ readOffset \in Nat
        /\ pos = readOffset /\ used <= length /\ Block \in Nat \ {0} /\ Capacity \in Nat \ {0}
    BY <2>1, StreamAssumption DEF IInv, StreamType, FlashType, PosInv, BlockInv, Offset
  <2>4. CASE used = length
    <3>1. used' = used /\ readOffset' = readOffset
      BY <1>2, <2>3, <2>4 DEF WorkerRead, Read, NotLive
    <3>2. worker = "reading"
      BY DEF WorkerRead
    <3>3. QED
      BY <2>2, <3>1, <3>2, StallKeeps
  <2>5. CASE used < length
    <3> DEFINE count == Least(length - used, Capacity)
    <3>1. count \in Nat /\ count > 0 /\ used + count <= length
      BY <2>3, <2>5 DEF Least
    <3>2. /\ used' = used + count /\ readOffset' = readOffset + count
          /\ worker' = IF (pos + count) % Block = 0 THEN "writing" ELSE "reading"
      <4>1. used # length
        BY <2>3, <2>5
      <4>2. QED
        BY <1>2, <4>1, Zenon DEF WorkerRead, Read, NotLive
    <3> HIDE DEF count
    <3>3. /\ block.offset + used = readOffset /\ block.offset % Block = 0
          /\ length = Block \/ block.offset + length = size
      BY <2>1, <2>5 DEF IInv, BlockInv, StallInv, AlignInv
    <3>4. block.offset \in Nat
      BY <2>1, <2>5 DEF IInv, BlockInv, StreamType, Request, Offset
    <3>5. ASSUME used' = length, readOffset' < size
          PROVE  readOffset' % Block = 0 /\ worker' = "writing"
      <4>1. readOffset' = block.offset + length
        BY <2>3, <3>1, <3>2, <3>3, <3>4, <3>5
      <4>2. length = Block
        BY <2>3, <3>3, <3>4, <3>5, <4>1
      <4>3. (block.offset + Block) % Block = 0
        <5>1. Block \in Nat /\ Block > 0
          BY <2>3
        <5>2. QED
          BY <3>3, <3>4, <5>1, NextBlock
      <4>4. (pos + count) % Block = 0
        BY <2>3, <3>2, <4>1, <4>2, <4>3
      <4>5. QED
        BY <3>2, <4>1, <4>2, <4>3, <4>4
    <3>6. AlignInv'
      BY <2>2, <3>3, <3>5 DEF AlignInv
    <3>7. RoundInv'
      BY <2>2, <3>5 DEF RoundInv
    <3>8. QED
      BY <3>6, <3>7 DEF StallInv
  <2>6. QED
    BY <2>3, <2>4, <2>5
<1>3. QED
  BY <1>1, <1>2 DEF WorkerRead

\* An acknowledgement reports all that was read.
LEMMA StallAcknowledge ==
    ASSUME IInv, StallInv, NEW next \in {"reading", "boundary"}, Acknowledge(next)
    PROVE  StallInv'
<1>1. CASE NotLive(now)
  BY <1>1, StallKeeps DEF Acknowledge, NotLive
<1>2. CASE Live(now)
  <2>1. active /\ pos = readOffset
    BY <1>2 DEF Live, Open, IInv, PosInv
  <2>2. UNCHANGED <<active, size, block, used, length, readOffset>>
    BY <1>2 DEF Acknowledge, Written, BadWrite, NotLive
  <2>3. writtenOffset' = readOffset \/ worker' = "failed"
    BY <1>2, <2>1 DEF Acknowledge, Written, NotLive
  <2>4. QED
    BY <2>2, <2>3 DEF StallInv, AlignInv, RoundInv
<1>3. QED
  BY <1>1, <1>2 DEF Acknowledge

\* While the worker waits for data on a live stream there is a block to read or
\* a request to make or to answer.
THEOREM NeverStalls == Spec => []NoStall
<1>1. Init => StallInv
  BY DEF Init, StallInv, AlignInv, RoundInv
<1>2. IInv /\ StallInv /\ [Next]_vars => StallInv'
  <2> SUFFICES ASSUME IInv, StallInv, [Next]_vars PROVE StallInv'
    OBVIOUS
  <2>1. CASE Begin
    <3>1. CASE UNCHANGED mailbox /\ worker' = "failed"
      BY <3>1, StallKeeps DEF mailbox
    <3>2. CASE used' = 0 /\ length' = 0 /\ readOffset' = 0 /\ writtenOffset' = 0
      <4>1. 0 % Block = 0
        BY StreamAssumption
      <4>2. ~(0 < 0)
        OBVIOUS
      <4>3. QED
        BY <3>2, <4>1, <4>2 DEF StallInv, AlignInv, RoundInv
    <3>3. QED
      BY <2>1, <3>1, <3>2 DEF Begin
  <2>2. CASE RequestBlock
    BY <2>2, StallKeeps DEF RequestBlock, NotLive, workerVars
  <2>3. CASE WorkerWrite \/ WorkerFlush
    BY <2>3, StallAcknowledge DEF WorkerWrite, WorkerFlush
  <2>4. CASE WorkerSelect
    BY <2>4, StallKeeps DEF WorkerSelect, NotLive
  <2>5. CASE WorkerAbort
    BY <2>5, StallKeeps DEF WorkerAbort, mailbox
  <2>6. CASE Close
    BY <2>6 DEF Close, Zeroed, StallInv, AlignInv, RoundInv
  <2>7. CASE Tick \/ UNCHANGED vars
    BY <2>7, StallKeeps DEF Tick, vars, mailbox, workerVars
  <2>8. QED
    BY <2>1, <2>2, <2>3, <2>4, <2>5, <2>6, <2>7, StallDeliver, StallRead DEF Next, WorkerStep
<1>3. IInv /\ StallInv => NoStall
  <2> SUFFICES ASSUME IInv, StallInv, worker = "reading", Live(now), ~ended
               PROVE  used < length \/ CanRequest
    BY DEF NoStall
  <2>1. active /\ used \in Nat /\ length \in Nat /\ used <= length
    BY DEF Live, Open, IInv, BlockInv, StreamType
  <2>2. CASE used < length
    BY <2>2
  <2>3. CASE used = length
    BY <2>1, <2>3 DEF StallInv, RoundInv, CanRequest
  <2>4. QED
    BY <2>1, <2>2, <2>3
<1>4. QED
  BY <1>1, <1>2, <1>3, StreamInvariant, PTL DEF Spec
=============================================================================
