------------------------- MODULE HostControlProofs -------------------------
(***************************************************************************)
(* What a run of device_control.py says is true, for any number of runs,   *)
(* boards, boots and revisions, whatever is lost or late on the line and   *)
(* whichever board is on it.                                               *)
(***************************************************************************)
EXTENDS HostControl, TLAPS

-----------------------------------------------------------------------------
(* The inductive invariant *)

\* The run's write has taken effect.
Did(r) == \E e \in effects : e.run = r

\* The board is carrying out the run's write.
Tries(b, r) == trial[b].run = r \/ (OtaRunning(b) /\ ota[b].run = r)
Trying(r) == \E b \in Boards : Tries(b, r)

\* The run's write is nowhere: not on the line, not on a board, not done.
Inert(r) ==
    /\ \A q \in requests : q.command \in Writes => q.id[1] # r
    /\ ~Trying(r) /\ ~Did(r)

\* The run's write may still take effect, and the run has not said otherwise.
Pending(r) ==
    /\ pc[r] \in {"reply", "done"} /\ ~Did(r)
    /\ pc[r] = "done" => outcome[r] \in {"running", "unknown", "timeout"}

\* What ends at time t ends before config.set stops waiting for it.
InTime(r, t) ==
    args[r].command = "config.set" =>
        /\ pc[r] = "reply" => t <= deadline[r]
        /\ outcome[r] = "timeout" => t <= clock

\* What success means for a run, apart from the details of its effect.
Succeeded(r) ==
    /\ args[r].command \in Writes => Did(r)
    /\ args[r].command = "ota.result" =>
          \E e \in effects : /\ args[e.run].command = "ota.start" /\ args[e.run].op = args[r].op
                             /\ e.board = args[r].board

\* Nothing of a run is anywhere before it sends its command, and what it says
\* at its end is true.
RunInv(r) ==
    /\ (outcome[r] = "none") <=> (pc[r] # "done")
    /\ pc[r] \in {"idle", "ready", "status", "fresh"} => Inert(r)
    /\ outcome[r] \in {"notsent", "rejected"} => Inert(r)
    /\ outcome[r] = "succeeded" => Succeeded(r)
    /\ pc[r] \in {"fresh", "reply", "observe"} => cur[r].board = args[r].board
    /\ pc[r] = "fresh" => args[r].command \in Writes
    /\ pc[r] = "observe" => args[r].command = "restart" /\ Did(r)

\* A read on the line is the one its run waits for.
ReadInv(q) ==
    /\ q.id[2] = pc[q.id[1]] /\ q.op = args[q.id[1]].op
    /\ q.id[2] = "reply" => q.command = args[q.id[1]].command

\* A write on the line is its run's only one, and as the run was told to send it.
WriteInv(q, r) ==
    /\ q.id[2] = "reply" /\ q.command = args[r].command /\ q.op = args[r].op
    /\ q.board = args[r].board /\ q.boot = cur[r].boot /\ q.revision = cur[r].revision
    /\ Pending(r) /\ ~Trying(r) /\ InTime(r, q.expires + TrialTime)
    /\ \A p \in requests : p.command \in Writes /\ p.id[1] = r => p = q

\* A trial is of the boot and revision its run has seen.
TrialInv(b, r) ==
    /\ args[r].command = "config.set" /\ args[r].board = b
    /\ cur[r].boot = boot[b] /\ cur[r].revision = revision[b]
    /\ ~OtaRunning(b) /\ Pending(r) /\ InTime(r, trial[b].deadline)

\* An upgrade runs in the boot its run has seen; the last one is remembered.
OtaInv(b, r) ==
    /\ args[r].command = "ota.start" /\ args[r].board = b /\ args[r].op = ota[b].op
    /\ ota[b].state = "running" => cur[r].boot = boot[b] /\ Pending(r)
    /\ ota[b].state = "succeeded" => Did(r)

\* An effect is its run's only one.
EffectInv(e, r) ==
    /\ args[r].command \in Writes /\ pc[r] \in {"reply", "observe", "done"}
    /\ e.board = args[r].board /\ e.boot = cur[r].boot
    /\ args[r].command = "config.set" => e.revision = cur[r].revision + 1
    /\ args[r].command = "restart" => boot[e.board] > e.boot
    /\ \A f \in effects : f.run = r => f = e

\* A receipt of a write is true: refused is inert, succeeded is done.  A board
\* does not call a business action running, which a run would take for a refusal.
WriteReceipt(a, r) ==
    /\ a.state \in {"failed", "expired"} => Inert(r)
    /\ a.state = "succeeded" => Did(r)
    /\ args[r].command = "restart" /\ a.state = "running" => Did(r)
    /\ args[r].command = "business" => a.state # "running"

ReceiptInv(a, r) ==
    /\ a.at <= clock
    /\ a.id[2] = "reply" =>
         /\ pc[r] \in {"reply", "observe", "done"}
         /\ args[r].command \in Writes => WriteReceipt(a, r)
         /\ args[r].command = "ota.result" /\ a.state = "succeeded" =>
              \E e \in effects : /\ args[e.run].command = "ota.start" /\ args[e.run].op = args[r].op
                                 /\ e.board = a.board

Rest ==
    /\ \A r \in Runs : RunInv(r)
    /\ \A q \in requests : q.command \in Reads => ReadInv(q)
    /\ \A q \in requests : q.command \in Writes => WriteInv(q, q.id[1])
    /\ \A b \in Boards : trial[b] # NoTrial => TrialInv(b, trial[b].run)
    /\ \A b \in Boards : ota[b] # NoOta => OtaInv(b, ota[b].run)
    /\ \A e \in effects : EffectInv(e, e.run)
    /\ \A a \in receipts : ReceiptInv(a, a.id[1])

IInv == TypeOK /\ Rest

-----------------------------------------------------------------------------
(* What the types say *)

\* An operator's arguments name a command and a run.
LEMMA ArgsType ==
    ASSUME TypeOK, NEW r \in Runs
    PROVE  /\ args[r].command \in Commands /\ args[r].board \in Boards /\ args[r].op \in Runs
           /\ cur[r] \in Status /\ deadline[r] \in Nat
  BY DEF TypeOK, Args

\* A request belongs to a run and to one of its exchanges.
LEMMA RequestType ==
    ASSUME TypeOK, NEW q \in requests
    PROVE  /\ q \in Request /\ q.id[1] \in Runs /\ q.id[2] \in Phases /\ q.id = <<q.id[1], q.id[2]>>
           /\ q.command \in Commands /\ q.expires \in Nat /\ q.board \in Boards
           /\ q.op \in Runs /\ q.revision \in Nat
  BY DEF TypeOK, Request, Ids

\* A receipt belongs to a run and to one of its exchanges.
LEMMA ReceiptType ==
    ASSUME TypeOK, NEW a \in receipts
    PROVE  /\ a \in Receipt /\ a.id[1] \in Runs /\ a.id[2] \in Phases /\ a.id = <<a.id[1], a.id[2]>>
           /\ a.state \in States /\ a.at \in Nat /\ a.board \in Boards
           /\ a.boot \in Nat /\ a.revision \in Nat
  BY DEF TypeOK, Receipt, Ids

\* A board tries the write of a run, or nothing.
LEMMA BoardType ==
    ASSUME TypeOK, NEW b \in Boards
    PROVE  /\ boot[b] \in Nat /\ revision[b] \in Nat
           /\ trial[b] = NoTrial => trial[b].run \notin Runs
           /\ trial[b] # NoTrial =>
                 trial[b] \in Trial /\ trial[b].run \in Runs /\ trial[b].deadline \in Nat
           /\ ota[b] = NoOta => ota[b].run \notin Runs /\ ota[b].op \notin Runs /\ ota[b].state = "none"
           /\ ota[b] # NoOta => ota[b] \in Ota /\ ota[b].run \in Runs /\ ota[b].state # "none"
  BY HostAssumption DEF TypeOK, NoTrial, Trial, NoOta, Ota

\* Nothing is tried or done for a run that only asks.
LEMMA ReadsInert ==
    ASSUME IInv, NEW r \in Runs, args[r].command \in Reads
    PROVE  Inert(r)
<1>0. args[r].command \notin Writes
  BY DEF Reads, Writes
<1>1. \A q \in requests : q.command \in Writes => q.id[1] # r
  BY <1>0, RequestType DEF IInv, Rest, WriteInv
<1>2. ~Trying(r)
  BY <1>0, BoardType DEF IInv, Rest, TrialInv, OtaInv, Trying, Tries, Writes, OtaRunning
<1>3. ~Did(r)
  BY <1>0 DEF IInv, Rest, EffectInv, Did
<1>4. QED
  BY <1>1, <1>2, <1>3 DEF Inert

-----------------------------------------------------------------------------
(* Steps of a run *)

\* Run r goes to p and says o; c is its status, d its deadline, and new what it
\* writes to the line.
Moves(r, p, o, c, d, new) ==
    /\ pc' = [pc EXCEPT ![r] = p] /\ outcome' = [outcome EXCEPT ![r] = o]
    /\ cur' = [cur EXCEPT ![r] = c] /\ deadline' = [deadline EXCEPT ![r] = d]
    /\ owner' \in Runs \cup {NoRun}
    /\ requests' = Line(r) \cup new
    /\ receipts' \subseteq receipts /\ \A a \in receipts' : a.id[1] = r => a.id[2] # "reply"
    /\ UNCHANGED <<args, board, clock, effects>>

\* What must be known for such a step.
Known(r, p, o, c) ==
    /\ (o = "none") <=> (p # "done")
    /\ p \notin {"observe", "done"} => Inert(r)
    /\ o \in {"notsent", "rejected"} => Inert(r)
    /\ o = "succeeded" => Succeeded(r)
    /\ o = "timeout" => deadline[r] <= clock
    /\ p \in {"fresh", "reply", "observe"} => c.board = args[r].board
    /\ p = "fresh" => args[r].command \in Writes
    /\ p = "observe" => args[r].command = "restart" /\ Did(r)
    /\ c = cur[r] \/ Inert(r)

\* A read is sent for the exchange the run goes to.
Asks(r, p, q) ==
    \E k \in Reads : q = ReadRequest(r, p, k) /\ p \in Phases /\ (p = "reply" => k = args[r].command)

\* The write is sent in time and for the status the operator was shown.
Orders(r, p, o, c, d, q) ==
    \E at \in Nat :
        /\ at <= clock /\ q = WriteRequest(r, c, at) /\ args[r].command \in Writes
        /\ c.board = args[r].board /\ Inert(r)
        /\ p = "reply" \/ (p = "done" /\ o = "unknown")
        /\ p = "reply" /\ args[r].command = "config.set" => d = clock + ConfigWait

\* A step of a run that says what it knows and sends at most one line preserves
\* the invariant.
LEMMA MoveStep ==
    ASSUME IInv, NEW r \in Runs, pc[r] # "done",
           NEW p \in {"idle", "ready", "done"} \cup Phases, NEW o \in Outcomes,
           NEW c \in Status, NEW d \in Nat, NEW new,
           Moves(r, p, o, c, d, new), Known(r, p, o, c),
           \A q \in new : Asks(r, p, q) \/ Orders(r, p, o, c, d, q),
           \A q1, q2 \in new : q1 = q2
    PROVE  IInv'
<1> USE DEF IInv
<1>1. \A q \in new :
         /\ q \in Request /\ q.id[1] = r
         /\ q.command \in Reads => Asks(r, p, q)
         /\ q.command \in Writes => Orders(r, p, o, c, d, q)
  <2> SUFFICES ASSUME NEW q \in new
               PROVE  /\ q \in Request /\ q.id[1] = r
                      /\ q.command \in Reads => Asks(r, p, q)
                      /\ q.command \in Writes => Orders(r, p, o, c, d, q)
    OBVIOUS
  <2>2. args[r].command \in Commands /\ args[r].board \in Boards /\ args[r].op \in Runs
    BY ArgsType
  <2>3. CASE Asks(r, p, q)
    <3>1. PICK k \in Reads : q = ReadRequest(r, p, k) /\ p \in Phases
      BY <2>3 DEF Asks
    <3>2. q \in Request /\ q.id[1] = r /\ q.command = k
      BY <3>1, <2>2 DEF ReadRequest, Request, Ids, Commands
    <3>3. QED
      BY <3>2, <2>3 DEF Reads, Writes
  <2>4. CASE Orders(r, p, o, c, d, q)
    <3>1. PICK at \in Nat : q = WriteRequest(r, c, at) /\ args[r].command \in Writes
      BY <2>4 DEF Orders
    <3>2. at + Window \in Nat
      BY HostAssumption
    <3>3. q \in Request /\ q.id[1] = r /\ q.command = args[r].command
      BY <3>1, <3>2, <2>2 DEF WriteRequest, Request, Ids, Phases, Status
    <3>4. QED
      BY <3>1, <3>3, <2>4 DEF Reads, Writes
  <2>5. QED
    BY <2>3, <2>4
<1>2. TypeOK'
  BY <1>1 DEF TypeOK, Moves, Line, board
<1> DEFINE Line1(u) == \A q \in new : q.command \in Writes => u # r
<1>3. /\ args' = args /\ clock' = clock /\ effects' = effects
      /\ boot' = boot /\ revision' = revision /\ trial' = trial /\ ota' = ota
  BY DEF Moves, board
<1>4. \A u \in Runs : u # r =>
         pc'[u] = pc[u] /\ outcome'[u] = outcome[u] /\ cur'[u] = cur[u] /\ deadline'[u] = deadline[u]
  BY DEF Moves, TypeOK
<1>5. pc'[r] = p /\ outcome'[r] = o /\ cur'[r] = c /\ deadline'[r] = d
  BY DEF Moves, TypeOK
<1>6. \A u : /\ Did(u)' <=> Did(u) 
             /\ Trying(u)' <=> Trying(u)
             /\ Inert(u) /\ Line1(u) => Inert(u)'
  <2> TAKE u
  <2>1. Did(u)' <=> Did(u)
    BY <1>3 DEF Did
  <2>2. Trying(u)' <=> Trying(u)
    BY <1>3 DEF Trying, Tries, OtaRunning
  <2>3. ASSUME Inert(u), Line1(u) PROVE Inert(u)'
    BY <2>1, <2>2, <2>3, <1>1 DEF Inert, Moves, Line
  <2>4. QED
    BY <2>1, <2>2, <2>3
<1>7. \A u \in Runs : Succeeded(u)' <=> Succeeded(u)
  BY <1>3, <1>6 DEF Succeeded
<1>8. ASSUME NEW u \in Runs, Pending(u), args[u].command \in Writes, ~Inert(u)
      PROVE  Pending(u)'
  <2>1. CASE u = r
    <3>1. ~Did(r) /\ p \in {"observe", "done"} /\ p # "observe"
      BY <1>8, <2>1 DEF Known, Pending
    <3>2. o \in Outcomes /\ o # "none" /\ o # "succeeded" /\ o \notin {"notsent", "rejected"}
      BY <1>8, <2>1, <3>1 DEF Known, Succeeded
    <3>3. QED
      BY <1>5, <1>6, <2>1, <3>1, <3>2 DEF Pending, Outcomes
  <2>2. CASE u # r
    BY <1>4, <1>6, <1>8, <2>2 DEF Pending
  <2>3. QED
    BY <2>1, <2>2
<1>9. ASSUME NEW u \in Runs, Pending(u), ~Inert(u), args[u].command \in Writes, NEW t \in Nat, InTime(u, t)
      PROVE  InTime(u, t)'
  <2>1. CASE u = r
    <3>1. pc[r] = "reply" /\ p = "done"
      BY <1>9, <2>1 DEF Known, Pending
    <3>2. clock \in Nat /\ deadline[r] \in Nat
      BY DEF TypeOK
    <3>3. QED
      BY <1>3, <1>5, <1>9, <2>1, <3>1, <3>2 DEF InTime, Known
  <2>2. CASE u # r
    BY <1>3, <1>4, <1>9, <2>2 DEF InTime
  <2>3. QED
    BY <2>1, <2>2
<1>10. ASSUME NEW u \in Runs PROVE RunInv(u)'
  <2>0. RunInv(u)
    BY DEF Rest
  <2>1. CASE u = r
    <3>1. ASSUME ~Line1(r) PROVE p \notin {"idle", "ready", "status", "fresh"} /\ o \notin {"notsent", "rejected"}
      <4>1. PICK q \in new : Orders(r, p, o, c, d, q)
        BY <3>1, <1>1
      <4>2. QED
        BY <4>1 DEF Orders, Known
    <3>2. p \in {"idle", "ready", "status", "fresh"} \/ o \in {"notsent", "rejected"} => Inert(r)'
      BY <3>1, <1>6 DEF Known
    <3>3. QED
      BY <1>3, <1>5, <1>6, <1>7, <2>1, <3>2 DEF RunInv, Known
  <2>2. CASE u # r
    BY <2>0, <2>2, <1>3, <1>4, <1>6, <1>7 DEF RunInv
  <2>3. QED
    BY <2>1, <2>2
<1>11. ASSUME NEW q \in requests', q.command \in Reads PROVE ReadInv(q)'
  <2>1. CASE q \in new
    <3>1. PICK k \in Reads : q = ReadRequest(r, p, k) /\ (p = "reply" => k = args[r].command)
      BY <2>1, <1>1, <1>11 DEF Asks
    <3>2. QED
      BY <3>1, <1>3, <1>5 DEF ReadInv, ReadRequest
  <2>2. CASE q \in Line(r)
    <3>1. q \in requests /\ q.id[1] # r /\ q.id[1] \in Runs
      BY <2>2, <1>11, RequestType DEF Line, Reads, Writes
    <3>2. QED
      BY <3>1, <1>3, <1>4, <1>11 DEF ReadInv, Rest
  <2>3. QED
    BY <2>1, <2>2 DEF Moves
<1>12. ASSUME NEW q \in requests', q.command \in Writes PROVE WriteInv(q, q.id[1])'
  <2>1. CASE q \in new
    <3>1. PICK at \in Nat :
             /\ at <= clock /\ q = WriteRequest(r, c, at) /\ args[r].command \in Writes
             /\ c.board = args[r].board /\ Inert(r)
             /\ p = "reply" \/ (p = "done" /\ o = "unknown")
             /\ p = "reply" /\ args[r].command = "config.set" => d = clock + ConfigWait
      BY <2>1, <1>1, <1>12 DEF Orders
    <3>2. q.id[1] = r /\ q.id[2] = "reply" /\ q.command = args[r].command /\ q.op = args[r].op /\ q.board = c.board
             /\ q.boot = c.boot /\ q.revision = c.revision /\ q.expires = at + Window
      BY <3>1 DEF WriteRequest
    <3>3. Pending(r)' /\ ~Trying(r)'
      BY <3>1, <1>5, <1>6 DEF Pending, Inert
    <3>4. InTime(r, q.expires + TrialTime)'
      <4>1. clock \in Nat /\ Window \in Nat /\ TrialTime \in Nat /\ ConfigWait \in Nat
               /\ ConfigWait >= Window + TrialTime
        BY HostAssumption DEF TypeOK
      <4>2. (at + Window) + TrialTime <= clock + ConfigWait
        BY <3>1, <4>1
      <4>3. o # "timeout" /\ q.expires + TrialTime <= clock + ConfigWait
        BY <3>1, <3>2, <4>2 DEF Known
      <4>4. QED
        BY <3>1, <4>3, <1>3, <1>5 DEF InTime
    <3>5. \A x \in requests' : x.command \in Writes /\ x.id[1] = r => x = q
      BY <2>1, <3>1 DEF Moves, Line, Inert
    <3>6. QED
      BY <3>1, <3>2, <3>3, <3>4, <3>5, <1>3, <1>5 DEF WriteInv
  <2>2. CASE q \in Line(r)
    <3>1. q \in requests /\ q.id[1] \in Runs /\ q.expires \in Nat /\ WriteInv(q, q.id[1])
      BY <2>2, <1>12, RequestType DEF Line, Rest
    <3>2. ~Inert(q.id[1]) /\ args[q.id[1]].command \in Writes
      BY <3>1, <1>12 DEF Inert, WriteInv
    <3>3. q.expires + TrialTime \in Nat
      BY <3>1, HostAssumption
    <3>4. Pending(q.id[1])' /\ InTime(q.id[1], q.expires + TrialTime)'
      BY <3>1, <3>2, <3>3, <1>8, <1>9 DEF WriteInv
    <3>5. \A x \in new : x.command \in Writes => x.id[1] # q.id[1]
      BY <3>2, <1>1 DEF Orders
    <3>6. \A x \in requests' : x.command \in Writes /\ x.id[1] = q.id[1] => x = q
      BY <3>1, <3>5 DEF WriteInv, Moves, Line
    <3>7. cur'[q.id[1]] = cur[q.id[1]]
      BY <3>1, <3>2, <1>4, <1>5 DEF Known
    <3>8. QED
      BY <3>1, <3>4, <3>6, <3>7, <1>3, <1>6 DEF WriteInv
  <2>3. QED
    BY <2>1, <2>2 DEF Moves
<1>13. ASSUME NEW b \in Boards, trial'[b] # NoTrial PROVE TrialInv(b, trial[b].run)'
  <2> DEFINE u == trial[b].run
  <2>1. u \in Runs /\ trial[b].deadline \in Nat /\ TrialInv(b, u)
    BY <1>3, <1>13, BoardType DEF Rest
  <2>2. ~Inert(u) /\ args[u].command \in Writes
    BY <2>1 DEF Inert, Trying, Tries, TrialInv, Writes
  <2>3. Pending(u)' /\ InTime(u, trial[b].deadline)'
    BY <2>1, <2>2, <1>3, <1>8, <1>9 DEF TrialInv
  <2>4. cur'[u] = cur[u]
    BY <2>1, <2>2, <1>4, <1>5 DEF Known
  <2>5. QED
    BY <2>1, <2>3, <2>4, <1>3 DEF TrialInv, OtaRunning
<1>14. ASSUME NEW b \in Boards, ota'[b] # NoOta PROVE OtaInv(b, ota[b].run)'
  <2> DEFINE u == ota[b].run
  <2>1. u \in Runs /\ OtaInv(b, u)
    BY <1>3, <1>14, BoardType DEF Rest
  <2>2. ASSUME ota[b].state = "running" PROVE cur'[u] = cur[u] /\ Pending(u)'
    <3>1. ~Inert(u) /\ args[u].command \in Writes
      BY <2>1, <2>2 DEF Inert, Trying, Tries, OtaInv, Writes, OtaRunning
    <3>2. cur'[u] = cur[u]
      BY <2>1, <3>1, <1>4, <1>5 DEF Known
    <3>3. Pending(u)
      BY <2>1, <2>2 DEF OtaInv
    <3>4. QED
      BY <2>1, <3>1, <3>2, <3>3, <1>3, <1>8
  <2>3. QED
    BY <2>1, <2>2, <1>3, <1>6 DEF OtaInv
<1>15. ASSUME NEW e \in effects' PROVE EffectInv(e, e.run)'
  <2>1. e \in effects /\ e.run \in Runs /\ EffectInv(e, e.run) /\ Did(e.run)
    BY <1>3, <1>15 DEF Rest, TypeOK, Effect, Did
  <2>2. cur'[e.run] = cur[e.run] /\ pc'[e.run] \in {"reply", "observe", "done"}
    BY <2>1, <1>4, <1>5 DEF Known, Inert, EffectInv
  <2>3. QED
    BY <2>1, <2>2, <1>3 DEF EffectInv
<1>16. ASSUME NEW a \in receipts' PROVE ReceiptInv(a, a.id[1])'
  <2>1. a \in receipts /\ a.id[1] \in Runs /\ ReceiptInv(a, a.id[1])
    BY <1>16, ReceiptType DEF Moves, Rest
  <2>2. CASE a.id[2] # "reply"
    BY <2>1, <2>2, <1>3 DEF ReceiptInv
  <2>3. CASE a.id[2] = "reply"
    <3>1. a.id[1] # r
      BY <2>3, <1>16 DEF Moves
    <3>2. Inert(a.id[1]) => Inert(a.id[1])'
      BY <3>1, <1>6
    <3>3. WriteReceipt(a, a.id[1]) => WriteReceipt(a, a.id[1])'
      BY <3>2, <1>3, <1>6 DEF WriteReceipt
    <3>4. QED
      BY <2>1, <3>1, <3>3, <1>3, <1>4 DEF ReceiptInv
  <2>4. QED
    BY <2>2, <2>3
<1>17. QED
  BY <1>2, <1>10, <1>11, <1>12, <1>13, <1>14, <1>15, <1>16 DEF Rest

\* Replacing a run's status by the same one changes nothing.
LEMMA CurSame ==
    ASSUME TypeOK, NEW r \in Runs, UNCHANGED cur
    PROVE  cur' = [cur EXCEPT ![r] = cur[r]] /\ cur[r] \in Status
  BY DEF TypeOK

\* The end of a run that knows what it says.
LEMMA EndStep ==
    ASSUME IInv, NEW r \in Runs, pc[r] # "done", NEW how \in Outcomes,
           NEW c \in Status, cur' = [cur EXCEPT ![r] = c],
           End(r, how), Known(r, "done", how, c)
    PROVE  IInv'
<1>1. Moves(r, "done", how, c, 0, {})
  BY DEF End, Finish, Leave, Moves
<1>2. QED
  BY <1>1, MoveStep

\* The same for a run whose status stays as it is.
LEMMA SayStep ==
    ASSUME IInv, NEW r \in Runs, pc[r] # "done", NEW how \in Outcomes \ {"none"}, UNCHANGED cur,
           End(r, how),
           how \in {"notsent", "rejected"} => Inert(r),
           how = "succeeded" => Succeeded(r),
           how = "timeout" => deadline[r] <= clock
    PROVE  IInv'
<1>1. cur' = [cur EXCEPT ![r] = cur[r]] /\ cur[r] \in Status
  BY CurSame DEF IInv
<1>2. Known(r, "done", how, cur[r])
  BY DEF Known
<1>3. QED
  BY <1>1, <1>2, EndStep

\* A question is sent, or the write of its line is cut off.
LEMMA AskStep ==
    ASSUME IInv, NEW r \in Runs, pc[r] # "done", NEW phase \in Phases, NEW k \in Reads,
           NEW c \in Status, cur' = [cur EXCEPT ![r] = c],
           Send(r, phase, ReadRequest(r, phase, k)),
           phase = "reply" => k = args[r].command,
           Known(r, phase, "none", c)
    PROVE  IInv'
<1> DEFINE q == ReadRequest(r, phase, k)
           how == IF phase \in {"reply", "observe"} /\ args[r].command \in Writes
                     THEN "unknown" ELSE "notsent"
<1>1. q.command = k /\ k \notin Writes
  BY DEF ReadRequest, Reads, Writes
<1>2. CASE requests' = Line(r) /\ Finish(r, how)
  <2>1. End(r, how) /\ how \in Outcomes
    BY <1>2 DEF End, Outcomes
  <2>2. phase \in {"status", "fresh"} => Inert(r)
    BY DEF Known
  <2>3. how = "notsent" => Inert(r)
    <3>1. phase = "observe" => args[r].command \in Writes
      BY DEF Known, Writes
    <3>2. phase = "reply" => Inert(r)
      BY DEF Known
    <3>3. QED
      BY <2>2, <3>1, <3>2 DEF Phases
  <2>4. Known(r, "done", how, c)
    BY <2>3 DEF Known
  <2>5. QED
    BY <2>1, <2>4, EndStep
<1>3. CASE /\ requests' = Line(r) \cup {q}
           /\ pc' = [pc EXCEPT ![r] = phase]
           /\ deadline' = [deadline EXCEPT ![r] = clock + WaitFor(r, phase)]
           /\ Leave(r)
           /\ UNCHANGED <<owner, outcome>>
  <2> DEFINE d == clock + WaitFor(r, phase)
  <2>1. outcome' = [outcome EXCEPT ![r] = "none"]
    BY <1>3 DEF IInv, Rest, RunInv, TypeOK
  <2>2. d \in Nat
    BY HostAssumption DEF IInv, TypeOK, WaitFor
  <2>3. Moves(r, phase, "none", c, d, {q})
    BY <1>3, <2>1 DEF Leave, Moves, IInv, TypeOK
  <2>4. Asks(r, phase, q)
    BY DEF Asks
  <2>5. "none" \in Outcomes
    BY DEF Outcomes
  <2>6. \A x \in {q} : Asks(r, phase, x)
    BY <2>4
  <2>7. \A x, y \in {q} : x = y
    OBVIOUS
  <2> HIDE DEF q, d
  <2>8. phase \in {"idle", "ready", "done"} \cup Phases
    OBVIOUS
  <2>9. QED
    BY <2>2, <2>3, <2>5, <2>6, <2>7, <2>8, MoveStep
<1>4. QED
  BY <1>1, <1>2, <1>3 DEF Send

\* The command is sent, or its line is cut off and may have arrived.
LEMMA OrderStep ==
    ASSUME IInv, NEW r \in Runs, pc[r] # "done", Inert(r), args[r].command \in Writes,
           NEW c \in Status, c.board = args[r].board, cur' = [cur EXCEPT ![r] = c],
           NEW at \in Nat, at <= clock,
           Send(r, "reply", WriteRequest(r, c, at))
    PROVE  IInv'
<1> DEFINE q == WriteRequest(r, c, at)
<1>0. "reply" \in Phases /\ "none" \in Outcomes /\ "unknown" \in Outcomes
  BY DEF Phases, Outcomes
<1>1. CASE requests' = Line(r) /\ Finish(r, "unknown")
  <2>1. End(r, "unknown") /\ Known(r, "done", "unknown", c)
    BY <1>1 DEF End, Known
  <2>2. QED
    BY <2>1, <1>0, EndStep
<1>2. CASE requests' = Line(r) \cup {q} /\ Finish(r, "unknown")
  <2>1. Known(r, "done", "unknown", c)
    BY DEF Known
  <2>2. Moves(r, "done", "unknown", c, 0, {q})
    BY <1>2 DEF Moves, Finish, Leave
  <2>3. Orders(r, "done", "unknown", c, 0, q)
    BY DEF Orders
  <2>4. QED
    BY <2>1, <2>2, <2>3, <1>0, MoveStep
<1>3. CASE /\ requests' = Line(r) \cup {q}
           /\ pc' = [pc EXCEPT ![r] = "reply"]
           /\ deadline' = [deadline EXCEPT ![r] = clock + WaitFor(r, "reply")]
           /\ Leave(r)
           /\ UNCHANGED <<owner, outcome>>
  <2> DEFINE d == clock + WaitFor(r, "reply")
  <2>1. outcome' = [outcome EXCEPT ![r] = "none"]
    BY <1>3 DEF IInv, Rest, RunInv, TypeOK
  <2>2. d \in Nat
    BY HostAssumption DEF IInv, TypeOK, WaitFor
  <2>3. Moves(r, "reply", "none", c, d, {q})
    BY <1>3, <2>1 DEF Leave, Moves, IInv, TypeOK
  <2>4. Orders(r, "reply", "none", c, d, q)
    BY DEF Orders, WaitFor
  <2>5. Known(r, "reply", "none", c)
    BY DEF Known
  <2>6. QED
    BY <2>2, <2>3, <2>4, <2>5, <1>0, MoveStep
<1>4. QED
  BY <1>1, <1>2, <1>3 DEF Send

\* A receipt of the exchange a run is in.
LEMMA AnswerType ==
    ASSUME IInv, NEW r \in Runs, NEW a \in Answers(r)
    PROVE  /\ a \in receipts /\ a.id[1] = r /\ a.id[2] = pc[r] /\ ReceiptInv(a, r)
           /\ StatusOf(a) \in Status /\ StatusOf(a).board = a.board
           /\ a.state \in States /\ a.at \in Nat /\ a.at <= clock
<1>1. a \in receipts /\ a.id[1] = r /\ a.id[2] = pc[r]
  BY DEF Answers
<1>2. a.state \in States /\ a.at \in Nat /\ a.board \in Boards /\ a.boot \in Nat /\ a.revision \in Nat
  BY <1>1, ReceiptType DEF IInv
<1>3. ReceiptInv(a, r) /\ a.at <= clock
  BY <1>1 DEF IInv, Rest, ReceiptInv
<1>4. QED
  BY <1>1, <1>2, <1>3 DEF StatusOf, Status

\* Opening the port, or failing to.
LEMMA OpenStep == ASSUME IInv, NEW r \in Runs, Open(r) PROVE IInv'
<1> USE DEF IInv
<1>1. pc[r] = "idle" /\ Inert(r) /\ outcome[r] = "none"
  BY DEF Open, Rest, RunInv
<1>2. requests' = Line(r) \cup {}
  BY <1>1, RequestType DEF Open, Line, Rest, ReadInv, Phases, Commands
<1>3. \A a \in receipts' : a.id[1] = r => a.id[2] # "reply"
  BY <1>1 DEF Open, Rest, ReceiptInv
<1>4. cur' = [cur EXCEPT ![r] = cur[r]] /\ cur[r] \in Status
  BY CurSame DEF Open
<1>5. {"none", "notsent"} \subseteq Outcomes
  BY DEF Outcomes
<1>6. CASE /\ owner' = r /\ pc' = [pc EXCEPT ![r] = "ready"]
           /\ deadline' = [deadline EXCEPT ![r] = clock + ReadyWait] /\ UNCHANGED outcome
  <2>1. outcome' = [outcome EXCEPT ![r] = "none"] /\ clock + ReadyWait \in Nat
    BY <1>1, <1>6, HostAssumption DEF TypeOK
  <2>2. Moves(r, "ready", "none", cur[r], clock + ReadyWait, {})
    BY <1>2, <1>3, <1>4, <1>6, <2>1 DEF Open, Moves
  <2>3. Known(r, "ready", "none", cur[r])
    BY <1>1 DEF Known
  <2>4. QED
    BY <1>1, <1>4, <1>5, <2>1, <2>2, <2>3, MoveStep
<1>7. CASE /\ pc' = [pc EXCEPT ![r] = "done"] /\ outcome' = [outcome EXCEPT ![r] = "notsent"]
           /\ UNCHANGED <<owner, deadline>>
  <2>1. deadline' = [deadline EXCEPT ![r] = deadline[r]] /\ deadline[r] \in Nat
           /\ owner' \in Runs \cup {NoRun}
    BY <1>7 DEF TypeOK
  <2>2. Moves(r, "done", "notsent", cur[r], deadline[r], {})
    BY <1>2, <1>3, <1>4, <1>7, <2>1 DEF Open, Moves
  <2>3. Known(r, "done", "notsent", cur[r])
    BY <1>1 DEF Known
  <2>4. QED
    BY <1>1, <1>4, <1>5, <2>1, <2>2, <2>3, MoveStep
<1>8. QED
  BY <1>6, <1>7 DEF Open

\* wait_ready and the first request.
LEMMA ReadyStep == ASSUME IInv, NEW r \in Runs, Ready(r) PROVE IInv'
<1>1. pc[r] = "ready" /\ Inert(r)
  BY DEF Ready, IInv, Rest, RunInv
<1>2. cur' = [cur EXCEPT ![r] = cur[r]] /\ cur[r] \in Status
  BY CurSame DEF IInv, Ready
<1>3. Known(r, "status", "none", cur[r])
  BY <1>1 DEF Known
<1>4. "status" \in Phases /\ "status" \in Reads
  BY DEF Phases, Reads
<1>5. QED
  BY <1>1, <1>2, <1>3, <1>4, AskStep DEF Ready

\* The first status and what is decided on it.
LEMMA CurrentStep == ASSUME IInv, NEW r \in Runs, Current(r) PROVE IInv'
<1> USE DEF IInv
<1>1. pc[r] = "status" /\ Inert(r)
  BY DEF Current, Rest, RunInv
<1>2. PICK a \in Answers(r) :
         /\ cur' = [cur EXCEPT ![r] = StatusOf(a)]
         /\ \/ End(r, "notsent")
            \/ /\ a.board = args[r].board
               /\ \/ args[r].command = "status" /\ End(r, "succeeded")
                  \/ /\ args[r].command \in {"query", "ota.result"}
                     /\ Send(r, "reply", ReadRequest(r, "reply", args[r].command))
                  \/ /\ args[r].command \in {"restart", "config.set"}
                     /\ Send(r, "reply", WriteRequest(r, StatusOf(a), a.at))
                  \/ /\ args[r].command \in {"ota.start", "business"}
                     /\ Send(r, "fresh", ReadRequest(r, "fresh", "status"))
  BY DEF Current
<1> DEFINE c == StatusOf(a)
<1>3. c \in Status /\ c.board = a.board /\ a.at \in Nat /\ a.at <= clock
  BY AnswerType
<1>4. {"notsent", "succeeded"} \subseteq Outcomes /\ {"reply", "fresh"} \subseteq Phases
         /\ {"query", "ota.result", "status"} \subseteq Reads
  BY DEF Outcomes, Phases, Reads
<1>5. CASE End(r, "notsent")
  <2>1. Known(r, "done", "notsent", c)
    BY <1>1 DEF Known
  <2>2. QED
    BY <1>1, <1>2, <1>3, <1>4, <1>5, <2>1, EndStep
<1>6. CASE args[r].command = "status" /\ End(r, "succeeded")
  <2>1. Known(r, "done", "succeeded", c)
    BY <1>1, <1>6 DEF Known, Succeeded, Writes
  <2>2. QED
    BY <1>1, <1>2, <1>3, <1>4, <1>6, <2>1, EndStep
<1>7. CASE /\ args[r].command \in {"query", "ota.result"} /\ a.board = args[r].board
           /\ Send(r, "reply", ReadRequest(r, "reply", args[r].command))
  <2>1. Known(r, "reply", "none", c)
    BY <1>1, <1>3, <1>7 DEF Known
  <2>2. QED
    BY <1>1, <1>2, <1>3, <1>4, <1>7, <2>1, AskStep
<1>8. CASE /\ args[r].command \in {"restart", "config.set"} /\ a.board = args[r].board
           /\ Send(r, "reply", WriteRequest(r, c, a.at))
  <2>1. args[r].command \in Writes
    BY <1>8 DEF Writes
  <2>2. QED
    BY <1>1, <1>2, <1>3, <1>8, <2>1, OrderStep
<1>9. CASE /\ args[r].command \in {"ota.start", "business"} /\ a.board = args[r].board
           /\ Send(r, "fresh", ReadRequest(r, "fresh", "status"))
  <2>1. Known(r, "fresh", "none", c)
    BY <1>1, <1>3, <1>9 DEF Known, Writes
  <2>2. QED
    BY <1>1, <1>2, <1>3, <1>4, <1>9, <2>1, AskStep
<1>10. QED
  BY <1>2, <1>5, <1>6, <1>7, <1>8, <1>9

\* The second status: the same board and boot, or nothing is sent.
LEMMA FreshStep == ASSUME IInv, NEW r \in Runs, Fresh(r) PROVE IInv'
<1>1. pc[r] = "fresh" /\ Inert(r) /\ args[r].command \in Writes /\ cur[r].board = args[r].board
  BY DEF Fresh, IInv, Rest, RunInv
<1>2. PICK a \in Answers(r) :
         End(r, "notsent") \/ Send(r, "reply", WriteRequest(r, cur[r], a.at))
  BY DEF Fresh
<1>3. a.at \in Nat /\ a.at <= clock
  BY AnswerType
<1>4. cur' = [cur EXCEPT ![r] = cur[r]] /\ cur[r] \in Status /\ UNCHANGED cur
  BY CurSame DEF IInv, Fresh
<1>5. CASE End(r, "notsent")
  BY <1>1, <1>4, <1>5, SayStep DEF Outcomes
<1>6. CASE Send(r, "reply", WriteRequest(r, cur[r], a.at))
  BY <1>1, <1>3, <1>4, <1>6, OrderStep
<1>7. QED
  BY <1>2, <1>5, <1>6

\* The receipt of a write decides what its run says.
LEMMA WriteAnswer ==
    ASSUME IInv, NEW r \in Runs, pc[r] = "reply", args[r].command \in Writes, NEW a \in Answers(r)
    PROVE  /\ Rejected(a) \in {"unknown", "rejected"}
           /\ a.state \in {"failed", "expired"} => Inert(r)
           /\ a.state = "succeeded" => Succeeded(r)
           /\ args[r].command = "restart" /\ a.state = "running" => Did(r)
           /\ args[r].command = "business" => a.state # "running"
<1>1. WriteReceipt(a, r)
  BY AnswerType DEF ReceiptInv
<1>2. QED
  BY <1>1 DEF WriteReceipt, Rejected, Succeeded, Writes

\* The receipt of config.set.
LEMMA ConfigReplyStep == ASSUME IInv, NEW r \in Runs, ConfigReply(r) PROVE IInv'
<1>1. pc[r] = "reply" /\ args[r].command \in Writes /\ UNCHANGED cur
  BY DEF ConfigReply, Writes
<1>2. PICK a \in Answers(r) :
         \/ a.state \in {"failed", "expired", "unknown"} /\ End(r, Rejected(a))
         \/ a.state = "succeeded" /\ (End(r, "succeeded") \/ End(r, "unknown"))
  BY DEF ConfigReply
<1>3. CASE a.state \in {"failed", "expired", "unknown"} /\ End(r, Rejected(a))
  <2>1. Rejected(a) \in {"unknown", "rejected"} /\ (Rejected(a) = "rejected" => Inert(r))
    BY <1>1, <1>3, WriteAnswer DEF Rejected
  <2>2. QED
    BY <1>1, <1>3, <2>1, SayStep DEF Outcomes
<1>4. CASE a.state = "succeeded" /\ (End(r, "succeeded") \/ End(r, "unknown"))
  <2>1. Succeeded(r)
    BY <1>1, <1>4, WriteAnswer
  <2>2. QED
    BY <1>1, <1>4, <2>1, SayStep DEF Outcomes
<1>5. QED
  BY <1>2, <1>3, <1>4

\* The receipt of a restart.
LEMMA RestartReplyStep == ASSUME IInv, NEW r \in Runs, RestartReply(r) PROVE IInv'
<1>1. pc[r] = "reply" /\ args[r].command = "restart" /\ args[r].command \in Writes /\ UNCHANGED cur
  BY DEF RestartReply, Writes
<1>2. PICK a \in Answers(r) :
         \/ a.state \in {"failed", "expired", "unknown"} /\ End(r, Rejected(a))
         \/ a.state = "running" /\ Send(r, "observe", ReadRequest(r, "observe", "status"))
  BY DEF RestartReply
<1>3. CASE a.state \in {"failed", "expired", "unknown"} /\ End(r, Rejected(a))
  <2>1. Rejected(a) \in {"unknown", "rejected"} /\ (Rejected(a) = "rejected" => Inert(r))
    BY <1>1, <1>3, WriteAnswer DEF Rejected
  <2>2. QED
    BY <1>1, <1>3, <2>1, SayStep DEF Outcomes
<1>4. CASE a.state = "running" /\ Send(r, "observe", ReadRequest(r, "observe", "status"))
  <2>1. Did(r)
    BY <1>1, <1>4, WriteAnswer
  <2>2. cur[r].board = args[r].board
    BY <1>1 DEF IInv, Rest, RunInv
  <2>3. Known(r, "observe", "none", cur[r])
    BY <1>1, <2>1, <2>2 DEF Known
  <2>4. cur' = [cur EXCEPT ![r] = cur[r]] /\ cur[r] \in Status
    BY <1>1, CurSame DEF IInv
  <2>5. "observe" \in Phases /\ "status" \in Reads
    BY DEF Phases, Reads
  <2>6. QED
    BY <1>1, <1>4, <2>3, <2>4, <2>5, AskStep
<1>5. QED
  BY <1>2, <1>3, <1>4

\* The status after a restart.
LEMMA ObservedStep == ASSUME IInv, NEW r \in Runs, Observed(r) PROVE IInv'
<1>1. pc[r] = "observe" /\ UNCHANGED cur /\ (End(r, "succeeded") \/ End(r, "unknown"))
  BY DEF Observed
<1>2. Succeeded(r)
  BY <1>1 DEF IInv, Rest, RunInv, Succeeded
<1>3. QED
  BY <1>1, <1>2, SayStep DEF Outcomes

\* The receipt of ota.start.
LEMMA OtaStartReplyStep == ASSUME IInv, NEW r \in Runs, OtaStartReply(r) PROVE IInv'
<1>1. pc[r] = "reply" /\ args[r].command \in Writes /\ UNCHANGED cur
  BY DEF OtaStartReply, Writes
<1>2. PICK a \in Answers(r) :
         \/ End(r, "unknown") \/ End(r, "running")
         \/ a.state \notin {"succeeded", "running"} /\ End(r, Rejected(a))
  BY DEF OtaStartReply
<1>3. a.state \in States
  BY AnswerType
<1>4. CASE a.state \notin {"succeeded", "running"} /\ End(r, Rejected(a))
  <2>1. Rejected(a) \in {"unknown", "rejected"} /\ (Rejected(a) = "rejected" => Inert(r))
    BY <1>1, <1>3, <1>4, WriteAnswer DEF Rejected, States
  <2>2. QED
    BY <1>1, <1>4, <2>1, SayStep DEF Outcomes
<1>5. CASE End(r, "unknown") \/ End(r, "running")
  BY <1>1, <1>5, SayStep DEF Outcomes
<1>6. QED
  BY <1>2, <1>4, <1>5

\* The receipt of a business action or of a query.
LEMMA AnswerReplyStep == ASSUME IInv, NEW r \in Runs, AnswerReply(r) PROVE IInv'
<1>1. pc[r] = "reply" /\ args[r].command \in {"business", "query"} /\ UNCHANGED cur
  BY DEF AnswerReply
<1>2. PICK a \in Answers(r) :
         \/ End(r, "unknown") \/ (a.state = "succeeded" /\ End(r, "succeeded"))
         \/ a.state # "succeeded" /\ End(r, Rejected(a))
  BY DEF AnswerReply
<1>3. a.state \in States
  BY AnswerType
<1>4. a.state # "succeeded" => Rejected(a) \in {"unknown", "rejected"} /\ (Rejected(a) = "rejected" => Inert(r))
  <2>1. CASE args[r].command = "business"
    BY <1>1, <1>3, <2>1, WriteAnswer DEF Rejected, States, Writes
  <2>2. CASE args[r].command = "query"
    BY <2>2, ReadsInert DEF Rejected, Reads
  <2>3. QED
    BY <1>1, <2>1, <2>2
<1>5. a.state = "succeeded" => Succeeded(r)
  <2>1. CASE args[r].command = "business"
    BY <1>1, <2>1, WriteAnswer DEF Writes
  <2>2. CASE args[r].command = "query"
    BY <2>2 DEF Succeeded, Writes
  <2>3. QED
    BY <1>1, <2>1, <2>2
<1>6. QED
  BY <1>1, <1>2, <1>4, <1>5, SayStep DEF Outcomes

\* The receipt of ota.result.
LEMMA OtaResultReplyStep == ASSUME IInv, NEW r \in Runs, OtaResultReply(r) PROVE IInv'
<1>1. pc[r] = "reply" /\ args[r].command = "ota.result" /\ UNCHANGED cur
  BY DEF OtaResultReply
<1>2. cur[r].board = args[r].board /\ Inert(r)
  BY <1>1, ReadsInert DEF IInv, Rest, RunInv, Reads
<1>3. PICK a \in Answers(r) :
         \/ End(r, "unknown") \/ End(r, "running") \/ End(r, "rejected")
         \/ a.state = "succeeded" /\ a.board = cur[r].board /\ End(r, "succeeded")
  BY DEF OtaResultReply, Rejected
<1>4. a.state = "succeeded" /\ a.board = cur[r].board => Succeeded(r)
  BY <1>1, <1>2, AnswerType DEF ReceiptInv, Succeeded, Writes
<1>5. QED
  BY <1>1, <1>2, <1>3, <1>4, SayStep DEF Outcomes

\* A deadline passes.
LEMMA TimeoutStep == ASSUME IInv, NEW r \in Runs, Timeout(r) PROVE IInv'
<1>1. pc[r] \notin {"idle", "done"} /\ deadline[r] <= clock /\ UNCHANGED cur
  BY DEF Timeout, IInv, TypeOK
<1>2. CASE pc[r] \in {"reply", "observe"} /\ End(r, "timeout")
  BY <1>1, <1>2, SayStep DEF Outcomes
<1>3. CASE pc[r] \notin {"reply", "observe"} /\ End(r, "notsent")
  <2>1. Inert(r)
    BY <1>1, <1>3 DEF IInv, Rest, RunInv, TypeOK, Phases
  <2>2. QED
    BY <1>1, <1>3, <2>1, SayStep DEF Outcomes
<1>4. QED
  BY <1>2, <1>3 DEF Timeout

\* Every step of a run.
LEMMA ClientStep == ASSUME IInv, NEW r \in Runs, Client(r) PROVE IInv'
  BY OpenStep, ReadyStep, CurrentStep, FreshStep, ConfigReplyStep, RestartReplyStep,
     ObservedStep, OtaStartReplyStep, AnswerReplyStep, OtaResultReplyStep, TimeoutStep DEF Client

-----------------------------------------------------------------------------
(* Steps of a board *)

\* The trial of board b goes on, and is not the one of run w.
TrialStays(b, w) ==
    /\ trial'[b] = trial[b] /\ trial[b].run # w
    /\ boot'[b] = boot[b] /\ revision'[b] = revision[b] /\ (OtaRunning(b)' => OtaRunning(b))

\* The upgrade of board b stays or is given up, and is not the one of run w.
OtaStays(b, w) ==
    /\ ota'[b].run = ota[b].run /\ ota'[b].op = ota[b].op
    /\ ota'[b].state = "succeeded" => ota[b].state = "succeeded"
    /\ OtaRunning(b)' => OtaRunning(b) /\ boot'[b] = boot[b] /\ ota[b].run # w

\* A step outside the client that moves at most the write of run w preserves the
\* invariant if the new facts about w are right.
LEMMA BoardStep ==
    ASSUME IInv, TypeOK', UNCHANGED client, clock <= clock',
           NEW w, w \in Runs => ~Inert(w),
           requests' \subseteq requests, effects \subseteq effects',
           \A q \in requests' : q.command \in Writes => q.id[1] # w,
           \A b \in Boards : boot[b] <= boot'[b],
           \A b \in Boards : \A u \in Runs : u # w /\ Tries(b, u)' => Tries(b, u),
           \A e \in effects' : e \in effects \/ (e.run = w /\ ~Did(w) /\ EffectInv(e, e.run)'),
           \A b \in Boards : trial'[b] # NoTrial => TrialStays(b, w) \/ TrialInv(b, trial[b].run)',
           \A b \in Boards : ota'[b] # NoOta => OtaStays(b, w) \/ OtaInv(b, ota[b].run)',
           \A a \in receipts' : a \in receipts \/ ReceiptInv(a, a.id[1])'
    PROVE  IInv'
<1> USE DEF IInv
<1>1. pc' = pc /\ args' = args /\ cur' = cur /\ deadline' = deadline /\ outcome' = outcome
  BY DEF client
<1>2. \A u \in Runs : /\ Did(u) => Did(u)'
                      /\ u # w /\ ~Did(u) => ~Did(u)'
                      /\ u # w /\ ~Trying(u) => ~Trying(u)'
                      /\ Inert(u) => Inert(u)'
                      /\ Succeeded(u) => Succeeded(u)'
  <2> TAKE u \in Runs
  <2>1. (Did(u) => Did(u)') /\ (u # w /\ ~Did(u) => ~Did(u)')
    BY DEF Did
  <2>2. u # w /\ ~Trying(u) => ~Trying(u)'
    BY DEF Trying
  <2>3. Inert(u) => u # w
    OBVIOUS
  <2>4. Inert(u) => Inert(u)'
    BY <2>1, <2>2, <2>3 DEF Inert
  <2>5. Succeeded(u) => Succeeded(u)'
    BY <2>1, <1>1 DEF Succeeded
  <2>6. QED
    BY <2>1, <2>2, <2>4, <2>5
<1>3. \A u \in Runs : u # w /\ Pending(u) => Pending(u)'
  BY <1>1, <1>2 DEF Pending
<1>4. ASSUME NEW u \in Runs, NEW t \in Nat, InTime(u, t) PROVE InTime(u, t)'
  <2>1. clock \in Nat /\ clock' \in Nat
    BY DEF TypeOK
  <2>2. QED
    BY <1>1, <1>4, <2>1 DEF InTime
<1>5. ASSUME NEW u \in Runs PROVE RunInv(u)'
  BY <1>1, <1>2 DEF Rest, RunInv
<1>6. ASSUME NEW q \in requests', q.command \in Reads PROVE ReadInv(q)'
  BY <1>1, <1>6 DEF Rest, ReadInv
<1>7. ASSUME NEW q \in requests', q.command \in Writes PROVE WriteInv(q, q.id[1])'
  <2>1. q \in requests /\ q.id[1] \in Runs /\ q.id[1] # w /\ q.expires \in Nat /\ WriteInv(q, q.id[1])
    BY <1>7, RequestType DEF Rest
  <2>2. q.expires + TrialTime \in Nat
    BY <2>1, HostAssumption
  <2>3. Pending(q.id[1])' /\ ~Trying(q.id[1])' /\ InTime(q.id[1], q.expires + TrialTime)'
    BY <2>1, <2>2, <1>2, <1>3, <1>4 DEF WriteInv
  <2>4. QED
    BY <2>1, <2>3, <1>1 DEF WriteInv
<1>8. ASSUME NEW b \in Boards, trial'[b] # NoTrial, TrialStays(b, w) PROVE TrialInv(b, trial[b].run)'
  <2>1. trial'[b] = trial[b]
    BY <1>8 DEF TrialStays
  <2>2. PICK u \in Runs : u = trial[b].run /\ u # w /\ TrialInv(b, u)
    BY <1>8, <2>1, BoardType DEF Rest, TrialStays
  <2>3. PICK t \in Nat : t = trial[b].deadline
    BY <1>8, <2>1, BoardType
  <2>4. Pending(u)' /\ InTime(u, t)'
    BY <2>2, <2>3, <1>3, <1>4 DEF TrialInv
  <2>5. TrialInv(b, u)'
    BY <2>1, <2>2, <2>3, <2>4, <1>1, <1>8 DEF TrialInv, TrialStays
  <2>6. QED
    BY <2>1, <2>2, <2>5
<1>9. ASSUME NEW b \in Boards, ota'[b] # NoOta, OtaStays(b, w) PROVE OtaInv(b, ota[b].run)'
  <2>1. ota'[b].run = ota[b].run /\ ota'[b].run \in Runs
    BY <1>9 DEF OtaStays, TypeOK, NoOta, Ota
  <2>2. PICK u \in Runs : u = ota[b].run /\ OtaInv(b, u)
    BY <2>1, BoardType DEF Rest
  <2>3. ota'[b].state = "running" => u # w /\ Pending(u) /\ cur[u].boot = boot[b] /\ boot'[b] = boot[b]
    BY <1>9, <2>2 DEF OtaStays, OtaInv, OtaRunning
  <2>4. ota'[b].state = "running" => Pending(u)'
    BY <2>3, <1>3
  <2>5. ota'[b].state = "succeeded" => Did(u)'
    BY <1>9, <2>2, <1>2 DEF OtaStays, OtaInv
  <2>6. OtaInv(b, u)'
    BY <2>2, <2>3, <2>4, <2>5, <1>1, <1>9 DEF OtaInv, OtaStays
  <2>7. QED
    BY <2>1, <2>2, <2>6
<1>10. ASSUME NEW e \in effects PROVE EffectInv(e, e.run)'
  <2>1. e.run \in Runs /\ e.boot \in Nat /\ e.board \in Boards /\ EffectInv(e, e.run) /\ Did(e.run)
    BY DEF Rest, TypeOK, Effect, Did
  <2>2. \A f \in effects' : f.run = e.run => f = e
    BY <2>1 DEF EffectInv
  <2>3. boot[e.board] \in Nat /\ boot'[e.board] \in Nat
    BY <2>1 DEF TypeOK
  <2>4. boot[e.board] > e.boot => boot'[e.board] > e.boot
    BY <2>1, <2>3
  <2>5. QED
    BY <2>1, <2>2, <2>4, <1>1 DEF EffectInv
<1>11. ASSUME NEW a \in receipts PROVE ReceiptInv(a, a.id[1])'
  <2>1. a.id[1] \in Runs /\ a.at \in Nat /\ ReceiptInv(a, a.id[1])
    BY ReceiptType DEF Rest
  <2>2. WriteReceipt(a, a.id[1]) => WriteReceipt(a, a.id[1])'
    BY <2>1, <1>1, <1>2 DEF WriteReceipt
  <2>3. a.at <= clock'
    BY <2>1 DEF ReceiptInv, TypeOK
  <2>4. QED
    BY <2>1, <2>2, <2>3, <1>1 DEF ReceiptInv
<1>12. QED
  BY <1>5, <1>6, <1>7, <1>8, <1>9, <1>10, <1>11 DEF Rest

\* A write on the line is the only trace of its run.
LEMMA WriteFacts ==
    ASSUME IInv, NEW q \in requests, q.command \in Writes
    PROVE  /\ q.id[1] \in Runs /\ ~Inert(q.id[1]) /\ Pending(q.id[1]) /\ ~Trying(q.id[1]) /\ ~Did(q.id[1])
           /\ \A p \in requests \ {q} : p.command \in Writes => p.id[1] # q.id[1]
           /\ q.id = <<q.id[1], "reply">> /\ q.command = args[q.id[1]].command
           /\ q.op = args[q.id[1]].op /\ q.board = args[q.id[1]].board
           /\ q.boot = cur[q.id[1]].boot /\ q.revision = cur[q.id[1]].revision
           /\ q.expires \in Nat /\ InTime(q.id[1], q.expires + TrialTime)
<1>1. q.id[1] \in Runs /\ q.id = <<q.id[1], q.id[2]>> /\ q.expires \in Nat
  BY RequestType DEF IInv
<1>2. WriteInv(q, q.id[1])
  BY DEF IInv, Rest
<1>3. ~Inert(q.id[1])
  BY DEF Inert
<1>4. QED
  BY <1>1, <1>2, <1>3 DEF WriteInv, Pending

\* What a board answers is a receipt.
LEMMA ReplyType ==
    ASSUME TypeOK, NEW q \in requests, NEW b \in Boards, NEW state \in States,
           NEW facts \in [revision : Nat, at : Nat, ota : BOOLEAN]
    PROVE  /\ Reply(q, b, state, facts) \in Receipt
           /\ Reply(q, b, state, facts).id = q.id /\ Reply(q, b, state, facts).state = state
           /\ Reply(q, b, state, facts).at = facts.at /\ Reply(q, b, state, facts).board = b
<1>1. q.id \in Ids /\ boot[b] \in Nat
  BY DEF TypeOK, Request
<1>2. QED
  BY <1>1 DEF Reply, Receipt

LEMMA NoFactsType == NoFacts \in [revision : Nat, at : Nat, ota : BOOLEAN] /\ NoFacts.at = 0
  BY DEF NoFacts

\* A step that touches no board keeps what the boards try.
LEMMA BoardsStay ==
    ASSUME IInv, NEW w, w \in Runs => ~Trying(w), UNCHANGED <<boot, revision, trial, ota>>
    PROVE  /\ \A b \in Boards : boot[b] <= boot'[b]
           /\ \A b \in Boards : \A u \in Runs : Tries(b, u)' => Tries(b, u)
           /\ \A b \in Boards : trial'[b] # NoTrial => TrialStays(b, w)
           /\ \A b \in Boards : ota'[b] # NoOta => OtaStays(b, w)
<1>1. \A b \in Boards : boot[b] <= boot'[b]
  BY BoardType DEF IInv
<1>2. \A b \in Boards : \A u \in Runs : Tries(b, u)' => Tries(b, u)
  BY DEF Tries, OtaRunning
<1>3. \A b \in Boards : trial[b] # NoTrial => trial[b].run # w
  BY BoardType DEF IInv, Trying, Tries
<1>4. \A b \in Boards : OtaRunning(b) => ota[b].run # w
  BY BoardType DEF IInv, Trying, Tries, OtaRunning
<1>5. QED
  BY <1>1, <1>2, <1>3, <1>4 DEF TrialStays, OtaStays, OtaRunning

\* status, query and ota.result.
LEMMA HandleReadStep == ASSUME IInv, NEW q \in requests, HandleRead(q) PROVE IInv'
<1> USE DEF IInv
<1> DEFINE r == q.id[1]
<1>1. q.command \in Reads /\ requests' = requests \ {q} /\ UNCHANGED <<client, board, clock, effects>>
  BY DEF HandleRead
<1>2. r \in Runs /\ q.id[2] \in Phases /\ ReadInv(q) /\ attached \in Boards /\ clock \in Nat
         /\ revision[attached] \in Nat /\ boot[attached] \in Nat
  BY <1>1, RequestType, BoardType DEF Rest, TypeOK
<1> DEFINE facts == [revision |-> revision[attached], at |-> clock,
                     ota |-> ~OtaRunning(attached)]
<1>3. facts \in [revision : Nat, at : Nat, ota : BOOLEAN] /\ facts.at = clock
  BY <1>2
<1> HIDE DEF facts
<1>4. PICK f \in [revision : Nat, at : Nat, ota : BOOLEAN], state \in States :
         /\ f.at <= clock
         /\ receipts' = receipts \cup {Reply(q, attached, state, f)}
         /\ q.command = "ota.result" /\ state = "succeeded" =>
               ota[attached].op = q.op /\ ota[attached].state = "succeeded"
  <2>1. 0 <= clock /\ clock <= clock
    BY <1>2
  <2>2. {"succeeded", "unknown", "failed"} \subseteq States
    BY DEF States
  <2>3. q.op \in Runs
    BY RequestType
  <2>4. ota[attached].op = q.op => ota[attached].state \in States
    BY <1>2, <2>3, BoardType DEF Ota, States
  <2>5. \/ q.command = "status" /\ Emit(Reply(q, attached, "succeeded", facts))
        \/ q.command = "query" /\ Emit(Reply(q, attached, "succeeded", NoFacts))
        \/ /\ q.command = "ota.result" /\ ota[attached].op = q.op
           /\ Emit(Reply(q, attached, ota[attached].state, NoFacts))
        \/ Emit(Reply(q, attached, "unknown", NoFacts))
        \/ Emit(Reply(q, attached, "failed", NoFacts))
    BY DEF HandleRead, facts
  <2>6. QED
    BY <1>3, <2>1, <2>2, <2>4, <2>5, NoFactsType DEF Emit
<1>5. PICK x \in Receipt :
         /\ receipts' = receipts \cup {x}
         /\ x.id = q.id /\ x.state = state /\ x.at <= clock /\ x.board = attached
  BY <1>2, <1>4, ReplyType
<1>6. TypeOK'
  BY <1>1, <1>5 DEF TypeOK, client, board
<1>7. ReceiptInv(x, r)'
  <2>1. ASSUME x.id[2] = "reply" PROVE pc[r] = "reply" /\ args[r].command = q.command
    BY <2>1, <1>1, <1>2, <1>5 DEF ReadInv
  <2>2. ASSUME x.id[2] = "reply", args[r].command = "ota.result", x.state = "succeeded"
        PROVE  \E e \in effects : /\ args[e.run].command = "ota.start" /\ args[e.run].op = args[r].op
                                  /\ e.board = x.board
    <3>1. ota[attached].op = q.op /\ ota[attached].state = "succeeded" /\ q.op = args[r].op
      BY <2>1, <2>2, <1>1, <1>2, <1>4, <1>5 DEF ReadInv
    <3>2. OtaInv(attached, ota[attached].run)
      BY <3>1, <1>2 DEF Rest, NoOta
    <3>3. PICK e \in effects : e.run = ota[attached].run
      BY <3>1, <3>2 DEF OtaInv, Did
    <3>4. e.board = attached
      BY <3>2, <3>3 DEF Rest, EffectInv, OtaInv
    <3>5. QED
      BY <3>1, <3>2, <3>3, <3>4, <1>5 DEF OtaInv
  <2>3. args' = args /\ pc' = pc /\ effects' = effects /\ clock' = clock
    BY <1>1 DEF client
  <2>4. args[r].command = q.command => args[r].command \notin Writes
    BY <1>1 DEF Reads, Writes
  <2>5. QED
    BY <2>1, <2>2, <2>3, <2>4, <1>5 DEF ReceiptInv
<1>8. \A a \in receipts' : a \in receipts \/ ReceiptInv(a, a.id[1])'
  BY <1>5, <1>7
<1>9. \A p \in requests' : p.id[1] # NoRun
  BY <1>1, RequestType, HostAssumption
<1>10. NoRun \notin Runs /\ UNCHANGED <<boot, revision, trial, ota>>
  BY <1>1, HostAssumption DEF board
<1>11. requests' \subseteq requests /\ effects' = effects /\ clock <= clock'
  BY <1>1, <1>2
<1>12. QED
  BY <1>1, <1>6, <1>8, <1>9, <1>10, <1>11, BoardsStay, BoardStep

\* The receipt x of run r's write is a true one.
LEMMA TrueReceipt ==
    ASSUME IInv, NEW r \in Runs, UNCHANGED client, clock' \in Nat, NEW x, x.at = 0, args[r].command \in Writes,
           pc[r] \in {"reply", "done"},
           WriteReceipt(x, r)'
    PROVE  ReceiptInv(x, r)'
<1>1. args' = args /\ pc' = pc
  BY DEF client
<1>2. args[r].command # "ota.result"
  BY DEF Writes
<1>3. QED
  BY <1>1, <1>2 DEF ReceiptInv

\* A write that is refused was the only trace of its run.
LEMMA HandleRefusedStep == ASSUME IInv, NEW q \in requests, HandleRefused(q) PROVE IInv'
<1> DEFINE r == q.id[1]
<1>1. q.command \in Writes /\ requests' = requests \ {q} /\ UNCHANGED <<client, board, clock, effects>>
  BY DEF HandleRefused
<1>2. attached \in Boards /\ clock \in Nat /\ {"failed", "expired"} \subseteq States
  BY DEF IInv, TypeOK, States
<1>3. PICK x \in Receipt :
         receipts' = receipts \cup {x} /\ x.id = q.id /\ x.state \in {"failed", "expired"} /\ x.at = 0
  BY <1>2, ReplyType, NoFactsType DEF HandleRefused, Emit, IInv
<1>4. TypeOK'
  BY <1>1, <1>3 DEF IInv, TypeOK, client, board
<1>5. r \in Runs /\ ~Inert(r) /\ ~Trying(r) /\ ~Did(r) /\ Pending(r) /\ q.id = <<r, "reply">>
         /\ args[r].command \in Writes /\ \A p \in requests' : p.command \in Writes => p.id[1] # r
  BY <1>1, WriteFacts
<1>6. Inert(r)'
  BY <1>1, <1>5 DEF Inert, Did, Trying, Tries, OtaRunning, board
<1>7. WriteReceipt(x, r)'
  BY <1>3, <1>6 DEF WriteReceipt
<1>8. ReceiptInv(x, x.id[1])'
  BY <1>1, <1>2, <1>3, <1>5, <1>7, TrueReceipt DEF Pending
<1>9. \A a \in receipts' : a \in receipts \/ ReceiptInv(a, a.id[1])'
  BY <1>3, <1>8
<1>10. UNCHANGED <<boot, revision, trial, ota>> /\ requests' \subseteq requests /\ clock <= clock'
  BY <1>1, <1>2 DEF board
<1>11. QED
  BY <1>1, <1>4, <1>5, <1>9, <1>10, BoardsStay, BoardStep

\* What takes effect is recorded as such.
LEMMA TookType ==
    ASSUME NEW r \in Runs, NEW b \in Boards, boot[b] \in Nat, NEW n \in Nat
    PROVE  /\ Took(r, b, n) \in Effect
           /\ Took(r, b, n).run = r /\ Took(r, b, n).board = b
           /\ Took(r, b, n).boot = boot[b] /\ Took(r, b, n).revision = n
  BY DEF Took, Effect

\* A business action is done when it is answered.
LEMMA HandleBusinessStep == ASSUME IInv, NEW q \in requests, HandleBusiness(q) PROVE IInv'
<1> DEFINE r == q.id[1]
<1>1. q.command = "business" /\ Admitted(q) /\ requests' = requests \ {q} /\ UNCHANGED <<client, board, clock>>
  BY DEF HandleBusiness
<1>2. attached \in Boards /\ clock \in Nat /\ "succeeded" \in States /\ q.command \in Writes
         /\ boot[attached] \in Nat /\ revision[attached] \in Nat
  BY <1>1 DEF IInv, TypeOK, States, Writes
<1>3. PICK x \in Receipt : receipts' = receipts \cup {x} /\ x.id = q.id /\ x.state = "succeeded" /\ x.at = 0
  BY <1>2, ReplyType, NoFactsType DEF HandleBusiness, Emit, IInv
<1>4. r \in Runs /\ ~Inert(r) /\ ~Trying(r) /\ ~Did(r) /\ Pending(r) /\ q.id = <<r, "reply">>
         /\ args[r].command = "business" /\ q.board = args[r].board /\ q.boot = cur[r].boot
         /\ \A p \in requests' : p.command \in Writes => p.id[1] # r
  BY <1>1, <1>2, WriteFacts
<1>5. PICK e \in Effect : /\ effects' = effects \cup {e} /\ e.run = r
                          /\ e.board = attached /\ e.boot = boot[attached]
  BY <1>2, <1>4, TookType DEF HandleBusiness
<1>6. TypeOK'
  BY <1>1, <1>3, <1>5 DEF IInv, TypeOK, client, board
<1>7. args' = args /\ pc' = pc /\ cur' = cur
  BY <1>1 DEF client
<1>8. EffectInv(e, r)'
  BY <1>1, <1>4, <1>5, <1>7 DEF EffectInv, Admitted, Pending, Did, Writes
<1>9. WriteReceipt(x, r)'
  BY <1>3, <1>4, <1>5, <1>7 DEF WriteReceipt, Did
<1>10. ReceiptInv(x, x.id[1])'
  BY <1>1, <1>2, <1>3, <1>4, <1>9, TrueReceipt DEF Pending, Writes
<1>11. /\ \A a \in receipts' : a \in receipts \/ ReceiptInv(a, a.id[1])'
       /\ \A f \in effects' : f \in effects \/ (f.run = r /\ ~Did(r) /\ EffectInv(f, f.run)')
  BY <1>3, <1>4, <1>5, <1>8, <1>10
<1>12. UNCHANGED <<boot, revision, trial, ota>> /\ requests' \subseteq requests /\ clock <= clock'
          /\ effects \subseteq effects'
  BY <1>1, <1>2, <1>5 DEF board
<1>13. QED
  BY <1>1, <1>4, <1>6, <1>11, <1>12, BoardsStay, BoardStep

\* What begins later ends later.
LEMMA Later ==
    ASSUME NEW x \in Nat, NEW y \in Nat, NEW z \in Nat, x < y
    PROVE  x + z \in Nat /\ y + z \in Nat /\ x + z <= y + z
  OBVIOUS

\* A board begins to try the write of run r and answers that it is running.
LEMMA BeginStep ==
    ASSUME IInv, NEW q \in requests, q.command \in {"config.set", "ota.start"}, Admitted(q),
           requests' = requests \ {q}, Emit(Reply(q, attached, "running", NoFacts)),
           trial[attached] = NoTrial, ~OtaRunning(attached),
           UNCHANGED <<client, attached, boot, revision, clock, effects>>,
           q.command = "config.set" =>
              /\ q.revision = revision[attached] /\ UNCHANGED ota
              /\ trial' = [trial EXCEPT ![attached] =
                    [run |-> q.id[1], deadline |-> clock + TrialTime, boot |-> boot[attached]]],
           q.command = "ota.start" =>
              /\ UNCHANGED trial
              /\ ota' = [ota EXCEPT ![attached] = [run |-> q.id[1], op |-> q.op, state |-> "running"]]
    PROVE  IInv'
<1> DEFINE r == q.id[1]
           b == attached
<1>1. attached \in Boards /\ clock \in Nat /\ "running" \in States /\ q.command \in Writes
         /\ boot[attached] \in Nat /\ revision[attached] \in Nat
  BY DEF IInv, TypeOK, States, Writes
<1>2. PICK x \in Receipt : receipts' = receipts \cup {x} /\ x.id = q.id /\ x.state = "running" /\ x.at = 0
  BY <1>1, ReplyType, NoFactsType DEF Emit, IInv
<1>3. r \in Runs /\ ~Inert(r) /\ ~Trying(r) /\ ~Did(r) /\ Pending(r) /\ q.id = <<r, "reply">>
         /\ args[r].command = q.command /\ q.board = args[r].board /\ q.boot = cur[r].boot
         /\ q.revision = cur[r].revision /\ q.op = args[r].op
         /\ q.expires \in Nat /\ InTime(r, q.expires + TrialTime)
         /\ \A p \in requests' : p.command \in Writes => p.id[1] # r
  BY <1>1, WriteFacts
<1>4. clock + TrialTime \in Nat /\ clock + TrialTime <= q.expires + TrialTime
         /\ q.expires + TrialTime \in Nat
  <2>1. TrialTime \in Nat
    BY HostAssumption
  <2>2. clock < q.expires
    BY Zenon DEF Admitted
  <2>3. clock \in Nat /\ q.expires \in Nat
    BY <1>1, <1>3
  <2>4. QED
    BY <2>1, <2>2, <2>3, Later
<1>5. TypeOK'
  <2>1. q.command = "config.set" => trial' \in [Boards -> Trial \cup {NoTrial}] /\ ota' = ota
    BY <1>1, <1>3, <1>4 DEF IInv, TypeOK, Trial
  <2>2. q.command = "ota.start" => ota' \in [Boards -> Ota \cup {NoOta}] /\ trial' = trial
    BY <1>1, <1>3, RequestType DEF IInv, TypeOK, Ota
  <2>3. ota' \in [Boards -> Ota \cup {NoOta}] /\ trial' \in [Boards -> Trial \cup {NoTrial}]
    BY <2>1, <2>2 DEF IInv, TypeOK
  <2>4. QED
    BY <1>2, <2>3 DEF IInv, TypeOK, client
<1>6. args' = args /\ pc' = pc /\ cur' = cur /\ deadline' = deadline /\ outcome' = outcome
  BY DEF client
<1>7. Pending(r)'
  BY <1>3, <1>6 DEF Pending, Did
<1>8. WriteReceipt(x, r)'
  BY <1>2, <1>3, <1>6 DEF WriteReceipt
<1>9. ReceiptInv(x, x.id[1])'
  BY <1>1, <1>2, <1>3, <1>8, TrueReceipt DEF Pending
<1>10. \A a \in receipts' : a \in receipts \/ ReceiptInv(a, a.id[1])'
  BY <1>2, <1>9
<1>11. \A c \in Boards : \A u \in Runs : u # r /\ Tries(c, u)' => Tries(c, u)
  BY <1>1, <1>3 DEF IInv, TypeOK, Tries, OtaRunning
<1>12. \A c \in Boards : (trial[c] # NoTrial => trial[c].run # r) /\ (OtaRunning(c) => ota[c].run # r)
  BY <1>3 DEF Trying, Tries
<1>13. \A c \in Boards : trial'[c] # NoTrial => TrialStays(c, r) \/ TrialInv(c, trial[c].run)'
  <2> SUFFICES ASSUME NEW c \in Boards, trial'[c] # NoTrial
               PROVE  TrialStays(c, r) \/ TrialInv(c, trial[c].run)'
    OBVIOUS
  <2>1. CASE c = attached
    <3>1. q.command = "config.set" /\ trial'[c].run = r /\ trial'[c].deadline = clock + TrialTime
      BY <1>1, <2>1 DEF IInv, TypeOK
    <3>2. InTime(r, clock + TrialTime)'
      <4>1. deadline[r] \in Nat
        BY <1>3 DEF IInv, TypeOK
      <4>2. ASSUME args[r].command = "config.set", pc[r] = "reply" PROVE clock + TrialTime <= deadline[r]
        <5>1. q.expires + TrialTime <= deadline[r]
          BY <1>3, <4>2 DEF InTime
        <5>2. QED
          BY <1>4, <4>1, <5>1
      <4>3. ASSUME args[r].command = "config.set", outcome[r] = "timeout" PROVE clock + TrialTime <= clock
        <5>1. q.expires + TrialTime <= clock
          BY <1>3, <4>3 DEF InTime
        <5>2. QED
          BY <1>1, <1>4, <5>1
      <4>4. clock' = clock
        OBVIOUS
      <4>5. QED
        BY <1>6, <4>2, <4>3, <4>4 DEF InTime
    <3>3. ~OtaRunning(c)'
      BY <2>1, <3>1 DEF OtaRunning
    <3>4. QED
      BY <2>1, <3>1, <3>2, <3>3, <1>3, <1>6, <1>7 DEF TrialInv, Admitted
  <2>2. CASE c # attached
    <3>1. trial'[c] = trial[c] /\ ota'[c] = ota[c]
      BY <2>2 DEF IInv, TypeOK
    <3>2. QED
      BY <3>1, <1>12 DEF TrialStays, OtaRunning
  <2>3. QED
    BY <2>1, <2>2
<1>14. \A c \in Boards : ota'[c] # NoOta => OtaStays(c, r) \/ OtaInv(c, ota[c].run)'
  <2> SUFFICES ASSUME NEW c \in Boards, ota'[c] # NoOta
               PROVE  OtaStays(c, r) \/ OtaInv(c, ota[c].run)'
    OBVIOUS
  <2>1. CASE ota'[c] = ota[c]
    BY <2>1, <1>12 DEF OtaStays, OtaRunning
  <2>2. CASE ota'[c] # ota[c]
    <3>1. q.command = "ota.start" /\ c = attached /\ ota'[c].run = r /\ ota'[c].op = q.op
             /\ ota'[c].state = "running"
      BY <2>2, <1>1, <1>3 DEF IInv, TypeOK
    <3>2. QED
      BY <3>1, <1>3, <1>6, <1>7 DEF OtaInv, Admitted
  <2>3. QED
    BY <2>1, <2>2
<1>15. requests' \subseteq requests /\ clock <= clock' /\ \A c \in Boards : boot[c] <= boot'[c]
  BY <1>1, BoardType DEF IInv
<1>16. QED
  BY <1>3, <1>5, <1>10, <1>11, <1>13, <1>14, <1>15, BoardStep

\* config.set starts a trial, ...
LEMMA HandleConfigStep == ASSUME IInv, NEW q \in requests, HandleConfig(q) PROVE IInv'
  BY BeginStep DEF HandleConfig

\* ... and ota.start an upgrade.
LEMMA HandleOtaStep == ASSUME IInv, NEW q \in requests, HandleOta(q) PROVE IInv'
  BY BeginStep DEF HandleOta

\* A board that boots has lost its trial and given up its upgrade.
LEMMA BootStays ==
    ASSUME IInv, NEW c \in Boards, NewBoot(c), UNCHANGED revision, NEW w, w \in Runs => ~Trying(w)
    PROVE  /\ boot' \in [Boards -> Nat] /\ trial' \in [Boards -> Trial \cup {NoTrial}]
           /\ ota' \in [Boards -> Ota \cup {NoOta}]
           /\ \A b \in Boards : boot[b] <= boot'[b]
           /\ \A b \in Boards : \A u \in Runs : Tries(b, u)' => Tries(b, u)
           /\ \A b \in Boards : trial'[b] # NoTrial => TrialStays(b, w)
           /\ \A b \in Boards : ota'[b] # NoOta => OtaStays(b, w)
           /\ boot'[c] = boot[c] + 1
<1> USE DEF IInv
<1>1. boot' \in [Boards -> Nat] /\ trial' \in [Boards -> Trial \cup {NoTrial}] /\ boot'[c] = boot[c] + 1
  BY DEF TypeOK, NewBoot
<1>2. ota' = [ota EXCEPT ![c] = [ota[c] EXCEPT !.state = IF ota[c].state = "running" THEN "failed" ELSE ota[c].state]]
  BY DEF NewBoot
<1>3. \A b \in Boards : ota[b] \in Ota \cup {NoOta}
  BY DEF TypeOK
<1>4. /\ ota'[c] \in Ota \cup {NoOta} /\ ota'[c].run = ota[c].run /\ ota'[c].op = ota[c].op
      /\ ota'[c].state = IF ota[c].state = "running" THEN "failed" ELSE ota[c].state
  <2>1. ota'[c] = [ota[c] EXCEPT !.state = IF ota[c].state = "running" THEN "failed" ELSE ota[c].state]
    BY <1>2 DEF TypeOK
  <2>2. ota[c] \in Ota \cup {NoOta}
    BY <1>3
  <2>3. CASE ota[c] = NoOta
    BY <2>1, <2>3 DEF NoOta
  <2>4. CASE ota[c] \in Ota
    BY <2>1, <2>4 DEF Ota
  <2>5. QED
    BY <2>2, <2>3, <2>4
<1>5. \A b \in Boards : b # c => boot'[b] = boot[b] /\ trial'[b] = trial[b] /\ ota'[b] = ota[b]
  BY <1>2 DEF NewBoot, TypeOK
<1>6. ota' \in [Boards -> Ota \cup {NoOta}]
  BY <1>2, <1>3, <1>4 DEF TypeOK
<1>7. trial'[c] = NoTrial /\ ~OtaRunning(c)'
  BY <1>4 DEF NewBoot, TypeOK, OtaRunning
<1>8. \A b \in Boards : boot[b] <= boot'[b]
  BY <1>1, <1>5, BoardType
<1>9. \A u \in Runs : ~Tries(c, u)'
  BY <1>7, HostAssumption DEF Tries, NoTrial
<1>10. \A b \in Boards : \A u \in Runs : Tries(b, u)' => Tries(b, u)
  BY <1>5, <1>9 DEF Tries, OtaRunning
<1>11. \A b \in Boards : (trial[b] # NoTrial => trial[b].run # w) /\ (OtaRunning(b) => ota[b].run # w)
  BY BoardType DEF Trying, Tries, OtaRunning
<1>12. \A b \in Boards : trial'[b] # NoTrial => TrialStays(b, w)
  BY <1>5, <1>7, <1>11 DEF TrialStays, OtaRunning
<1>13. \A b \in Boards : OtaStays(b, w)
  <2> SUFFICES ASSUME NEW b \in Boards PROVE OtaStays(b, w)
    OBVIOUS
  <2>1. CASE b = c
    BY <1>4, <1>7, <2>1 DEF OtaStays
  <2>2. CASE b # c
    BY <1>5, <1>11, <2>2 DEF OtaStays, OtaRunning
  <2>3. QED
    BY <2>1, <2>2
<1>14. QED
  BY <1>1, <1>6, <1>8, <1>10, <1>12, <1>13

\* Power fails.
LEMMA PowerFailureStep == ASSUME IInv, PowerFailure PROVE IInv'
<1>1. attached \in Boards /\ NoRun \notin Runs /\ clock \in Nat
  BY HostAssumption DEF IInv, TypeOK
<1>2. NewBoot(attached) /\ UNCHANGED <<client, requests, receipts, attached, revision, clock, effects>>
  BY DEF PowerFailure
<1>3. TypeOK'
  BY <1>1, <1>2, BootStays DEF IInv, TypeOK, client
<1>4. \A q \in requests' : q.command \in Writes => q.id[1] # NoRun
  BY <1>1, <1>2, RequestType DEF IInv
<1>5. QED
  BY <1>1, <1>2, <1>3, <1>4, BootStays, BoardStep

\* Another board is connected, or time passes.
LEMMA ReplaceTickStep == ASSUME IInv, Replace \/ Tick PROVE IInv'
<1>1. NoRun \notin Runs /\ clock \in Nat
  BY HostAssumption DEF IInv, TypeOK
<1>2. UNCHANGED <<client, requests, receipts, boot, revision, trial, ota, effects>>
  BY DEF Replace, Tick, board
<1>3. clock' \in Nat /\ clock <= clock' /\ attached' \in Boards
  BY <1>1 DEF Replace, Tick, board, IInv, TypeOK
<1>4. TypeOK'
  BY <1>2, <1>3 DEF IInv, TypeOK, client
<1>5. \A q \in requests' : q.command \in Writes => q.id[1] # NoRun
  BY <1>1, <1>2, RequestType DEF IInv
<1>6. QED
  BY <1>1, <1>2, <1>3, <1>4, <1>5, BoardsStay, BoardStep

\* A restart is done when the next boot begins.
LEMMA HandleRestartStep == ASSUME IInv, NEW q \in requests, HandleRestart(q) PROVE IInv'
<1> DEFINE r == q.id[1]
<1>1. q.command = "restart" /\ Admitted(q) /\ requests' = requests \ {q} /\ NewBoot(attached)
         /\ UNCHANGED <<client, attached, revision, clock>>
  BY DEF HandleRestart
<1>2. attached \in Boards /\ clock \in Nat /\ "running" \in States /\ q.command \in Writes
         /\ boot[attached] \in Nat /\ revision[attached] \in Nat
  BY <1>1 DEF IInv, TypeOK, States, Writes
<1>3. PICK x \in Receipt : receipts' = receipts \cup {x} /\ x.id = q.id /\ x.state = "running" /\ x.at = 0
  BY <1>2, ReplyType, NoFactsType DEF HandleRestart, Emit, IInv
<1>4. r \in Runs /\ ~Inert(r) /\ ~Trying(r) /\ ~Did(r) /\ Pending(r) /\ q.id = <<r, "reply">>
         /\ args[r].command = "restart" /\ q.board = args[r].board /\ q.boot = cur[r].boot
         /\ \A p \in requests' : p.command \in Writes => p.id[1] # r
  BY <1>1, <1>2, WriteFacts
<1>5. PICK e \in Effect : /\ effects' = effects \cup {e} /\ e.run = r
                          /\ e.board = attached /\ e.boot = boot[attached]
  BY <1>2, <1>4, TookType DEF HandleRestart
<1>6. TypeOK'
  BY <1>1, <1>2, <1>3, <1>4, <1>5, BootStays DEF IInv, TypeOK, client
<1>7. args' = args /\ pc' = pc /\ cur' = cur
  BY <1>1 DEF client
<1>8. boot'[attached] > e.boot
  BY <1>1, <1>2, <1>4, <1>5, BootStays
<1>9. EffectInv(e, r)'
  BY <1>1, <1>4, <1>5, <1>7, <1>8 DEF EffectInv, Admitted, Pending, Did, Writes
<1>10. WriteReceipt(x, r)'
  BY <1>3, <1>4, <1>5, <1>7 DEF WriteReceipt, Did
<1>11. ReceiptInv(x, x.id[1])'
  BY <1>1, <1>2, <1>3, <1>4, <1>10, TrueReceipt DEF Pending, Writes
<1>12. /\ \A a \in receipts' : a \in receipts \/ ReceiptInv(a, a.id[1])'
       /\ \A f \in effects' : f \in effects \/ (f.run = r /\ ~Did(r) /\ EffectInv(f, f.run)')
  BY <1>3, <1>4, <1>5, <1>9, <1>11
<1>13. requests' \subseteq requests /\ clock <= clock' /\ effects \subseteq effects'
  BY <1>1, <1>2, <1>5
<1>14. QED
  BY <1>1, <1>2, <1>4, <1>6, <1>12, <1>13, BootStays, BoardStep

\* The late receipt of a write is a receipt.
LEMMA OutcomeType ==
    ASSUME TypeOK, NEW r \in Runs, NEW b \in Boards, NEW state \in States, NEW n \in Nat
    PROVE  /\ Outcome(r, b, state, n) \in Receipt
           /\ Outcome(r, b, state, n).id = <<r, "reply">> /\ Outcome(r, b, state, n).state = state
           /\ Outcome(r, b, state, n).at = 0
<1>1. boot[b] \in Nat /\ <<r, "reply">> \in Ids
  BY DEF TypeOK, Ids, Phases
<1>2. QED
  BY <1>1 DEF Outcome, Receipt

\* The trial of a run ends: committed, uncertain or refused.
LEMMA TrialEndsStep == ASSUME IInv, NEW b \in Boards, TrialEnds(b) PROVE IInv'
<1>1. trial[b] # NoTrial /\ trial' = [trial EXCEPT ![b] = NoTrial]
         /\ UNCHANGED <<client, requests, attached, boot, ota, clock>>
  BY DEF TrialEnds
<1>2. PICK r \in Runs : r = trial[b].run /\ TrialInv(b, r)
  BY <1>1, BoardType DEF IInv, Rest
<1>3. boot[b] \in Nat /\ revision[b] \in Nat /\ revision[b] + 1 \in Nat /\ clock \in Nat
         /\ {"succeeded", "unknown", "failed"} \subseteq States
  BY BoardType DEF IInv, TypeOK, States
<1>4. PICK x \in Receipt :
         /\ receipts' = receipts \cup {x} /\ x.id = <<r, "reply">> /\ x.at = 0
         /\ \/ /\ x.state \in {"succeeded", "unknown"}
               /\ revision' = [revision EXCEPT ![b] = revision[b] + 1]
               /\ effects' = effects \cup {Took(r, b, revision[b] + 1)}
            \/ x.state \in {"unknown", "failed"} /\ UNCHANGED <<revision, effects>>
  BY <1>2, <1>3, OutcomeType DEF TrialEnds, Emit, IInv
<1>5. args[r].command = "config.set" /\ args[r].command \in Writes /\ args[r].board = b /\ Pending(r) /\ ~Did(r)
         /\ cur[r].boot = boot[b] /\ cur[r].revision = revision[b] /\ ~OtaRunning(b)
  BY <1>2 DEF TrialInv, Pending, Writes
<1>6. ~Inert(r) /\ \A q \in requests : q.command \in Writes => q.id[1] # r
  <2>1. Trying(r)
    BY <1>2 DEF Trying, Tries
  <2>2. QED
    BY <2>1, WriteFacts DEF Inert
<1>7. args' = args /\ pc' = pc /\ cur' = cur
  BY <1>1 DEF client
<1>8. \A e \in effects' : e \in effects \/ (e \in Effect /\ e.run = r /\ ~Did(r) /\ EffectInv(e, e.run)')
  <2> SUFFICES ASSUME NEW e \in effects', e \notin effects
               PROVE  e \in Effect /\ e.run = r /\ EffectInv(e, e.run)'
    BY <1>5
  <2>1. /\ e \in Effect /\ e.run = r /\ e.board = b /\ e.boot = boot[b] /\ e.revision = revision[b] + 1
        /\ effects' = effects \cup {e}
    BY <1>2, <1>3, <1>4, TookType
  <2>2. QED
    BY <2>1, <1>5, <1>7 DEF EffectInv, Pending, Did
<1>9. effects \subseteq effects' /\ effects' \subseteq Effect /\ revision' \in [Boards -> Nat]
  BY <1>3, <1>4, <1>8 DEF IInv, TypeOK
<1>10. TypeOK'
  BY <1>1, <1>4, <1>9 DEF IInv, TypeOK, client
<1>11. \A c \in Boards : (trial[c] # NoTrial /\ trial[c].run = r => c = b) /\ (OtaRunning(c) => ota[c].run # r)
  BY <1>5, BoardType DEF IInv, Rest, TrialInv, OtaInv, OtaRunning
<1>12. \A c \in Boards : trial'[c] = IF c = b THEN NoTrial ELSE trial[c]
  BY <1>1 DEF IInv, TypeOK
<1>13. ~Trying(r)'
  BY <1>1, <1>11, <1>12, BoardType, HostAssumption DEF Trying, Tries, OtaRunning, NoTrial, IInv
<1>14. x.state = "failed" => Inert(r)'
  BY <1>1, <1>4, <1>5, <1>6, <1>13 DEF Inert, Did
<1>15. x.state = "succeeded" => Did(r)'
  BY <1>2, <1>3, <1>4, TookType DEF Did
<1>16. WriteReceipt(x, r)'
  BY <1>4, <1>5, <1>7, <1>14, <1>15 DEF WriteReceipt
<1>17. ReceiptInv(x, x.id[1])'
  BY <1>1, <1>3, <1>4, <1>5, <1>16, TrueReceipt DEF Pending
<1>18. \A a \in receipts' : a \in receipts \/ ReceiptInv(a, a.id[1])'
  BY <1>4, <1>17
<1>19. \A c \in Boards : \A u \in Runs : u # r /\ Tries(c, u)' => Tries(c, u)
  BY <1>1, <1>12, HostAssumption DEF Tries, OtaRunning, NoTrial
<1>20. \A c \in Boards : trial'[c] # NoTrial => TrialStays(c, r)
  BY <1>1, <1>4, <1>11, <1>12 DEF TrialStays, OtaRunning, IInv, TypeOK
<1>21. \A c \in Boards : OtaStays(c, r)
  BY <1>1, <1>11 DEF OtaStays, OtaRunning
<1>22. requests' \subseteq requests /\ clock <= clock' /\ \A c \in Boards : boot[c] <= boot'[c]
  BY <1>1, <1>3, BoardType DEF IInv
<1>23. QED
  BY <1>1, <1>6, <1>8, <1>9, <1>10, <1>18, <1>19, <1>20, <1>21, <1>22, BoardStep

\* The upgrade of a run ends: given up, or its candidate boots.
LEMMA OtaEndsStep == ASSUME IInv, NEW b \in Boards, OtaEnds(b) PROVE IInv'
<1>1. OtaRunning(b) /\ UNCHANGED <<client, requests, attached, revision, trial, clock>>
  BY DEF OtaEnds
<1>2. PICK r \in Runs : r = ota[b].run /\ OtaInv(b, r)
  BY <1>1, BoardType DEF IInv, Rest, OtaRunning
<1>3. boot[b] \in Nat /\ boot[b] + 1 \in Nat /\ revision[b] \in Nat /\ clock \in Nat
         /\ {"unknown", "failed"} \subseteq States
  BY BoardType DEF IInv, TypeOK, States
<1>4. \/ /\ ota' = [ota EXCEPT ![b].state = "failed"] /\ UNCHANGED <<boot, effects>>
         /\ \E x \in Receipt : /\ receipts' = receipts \cup {x} /\ x.id = <<r, "reply">> /\ x.at = 0
                               /\ x.state \in {"unknown", "failed"}
      \/ /\ ota' = [ota EXCEPT ![b].state = "succeeded"] /\ receipts' = receipts
         /\ boot' = [boot EXCEPT ![b] = boot[b] + 1]
         /\ effects' = effects \cup {Took(r, b, revision[b])}
  BY <1>2, <1>3, OutcomeType DEF OtaEnds, Emit, IInv
<1>5. args[r].command = "ota.start" /\ args[r].command \in Writes /\ args[r].board = b /\ Pending(r) /\ ~Did(r)
         /\ cur[r].boot = boot[b]
  BY <1>1, <1>2 DEF OtaInv, OtaRunning, Pending, Writes
<1>6. ~Inert(r) /\ \A q \in requests : q.command \in Writes => q.id[1] # r
  <2>1. Trying(r)
    BY <1>1, <1>2 DEF Trying, Tries
  <2>2. QED
    BY <2>1, WriteFacts DEF Inert
<1>7. args' = args /\ pc' = pc /\ cur' = cur
  BY <1>1 DEF client
<1>8. PICK state \in {"failed", "succeeded"} : ota' = [ota EXCEPT ![b] = [ota[b] EXCEPT !.state = state]]
         /\ (state = "succeeded" => Took(r, b, revision[b]) \in effects')
  BY <1>4
<1>9. /\ ota'[b] = [run |-> r, op |-> ota[b].op, state |-> state] /\ \A c \in Boards : c # b => ota'[c] = ota[c]
      /\ ota' \in [Boards -> Ota \cup {NoOta}]
  <2>1. ota[b] \in Ota
    BY <1>1, BoardType DEF IInv, OtaRunning
  <2>2. [ota[b] EXCEPT !.state = state] = [run |-> r, op |-> ota[b].op, state |-> state]
    BY <1>2, <2>1 DEF Ota
  <2>3. [run |-> r, op |-> ota[b].op, state |-> state] \in Ota
    BY <2>1 DEF Ota
  <2>4. QED
    BY <1>8, <2>2, <2>3 DEF IInv, TypeOK
<1>10. \A e \in effects' : e \in effects \/ (e \in Effect /\ e.run = r /\ ~Did(r) /\ EffectInv(e, e.run)')
  <2> SUFFICES ASSUME NEW e \in effects', e \notin effects
               PROVE  e \in Effect /\ e.run = r /\ EffectInv(e, e.run)'
    BY <1>5
  <2>1. e \in Effect /\ e.run = r /\ e.board = b /\ e.boot = boot[b] /\ effects' = effects \cup {e}
    BY <1>2, <1>3, <1>4, TookType
  <2>2. QED
    BY <2>1, <1>5, <1>7 DEF EffectInv, Pending, Did
<1>11. effects \subseteq effects' /\ effects' \subseteq Effect /\ boot' \in [Boards -> Nat]
          /\ receipts' \subseteq Receipt /\ \A c \in Boards : boot[c] <= boot'[c]
  <2>1. \A c \in Boards : boot[c] <= boot'[c]
    BY <1>3, <1>4, BoardType DEF IInv, TypeOK
  <2>2. QED
    BY <2>1, <1>3, <1>4, <1>10 DEF IInv, TypeOK
<1>12. TypeOK'
  BY <1>1, <1>9, <1>11 DEF IInv, TypeOK, client
<1>13. \A c \in Boards : (OtaRunning(c) /\ ota[c].run = r => c = b) /\ (trial[c] # NoTrial => trial[c].run # r)
  BY <1>5, BoardType DEF IInv, Rest, TrialInv, OtaInv, OtaRunning
<1>14. trial[b] = NoTrial
  BY <1>1 DEF IInv, Rest, TrialInv
<1>15. \A c \in Boards : OtaRunning(c)' => c # b /\ OtaRunning(c)
  BY <1>9 DEF OtaRunning
<1>16. ~Trying(r)'
  BY <1>1, <1>9, <1>13, <1>15, BoardType DEF Trying, Tries, IInv
<1>17. ASSUME NEW x \in Receipt, x.id = <<r, "reply">>, x.at = 0, x.state \in {"unknown", "failed"},
              UNCHANGED effects
       PROVE  ReceiptInv(x, x.id[1])'
  <2>1. Inert(r)'
    BY <1>1, <1>5, <1>6, <1>16, <1>17 DEF Inert, Did
  <2>2. WriteReceipt(x, r)'
    BY <2>1, <1>5, <1>7, <1>17 DEF WriteReceipt
  <2>3. QED
    BY <2>2, <1>1, <1>3, <1>5, <1>17, TrueReceipt DEF Pending
<1>18. \A a \in receipts' : a \in receipts \/ ReceiptInv(a, a.id[1])'
  BY <1>4, <1>17
<1>19. \A c \in Boards : \A u \in Runs : u # r /\ Tries(c, u)' => Tries(c, u)
  BY <1>1, <1>9, <1>15 DEF Tries
<1>20. \A c \in Boards : trial'[c] # NoTrial => TrialStays(c, r)
  BY <1>1, <1>4, <1>13, <1>14, <1>15 DEF TrialStays, IInv, TypeOK
<1>21. \A c \in Boards : c # b => OtaStays(c, r)
  BY <1>4, <1>9, <1>13 DEF OtaStays, OtaRunning, IInv, TypeOK
<1>22. OtaInv(b, r)'
  BY <1>2, <1>3, <1>5, <1>7, <1>8, <1>9, TookType DEF OtaInv, Did
<1>23. \A c \in Boards : ota'[c] # NoOta => OtaStays(c, r) \/ OtaInv(c, ota[c].run)'
  BY <1>9, <1>21, <1>22
<1>24. requests' \subseteq requests /\ clock <= clock'
  BY <1>1, <1>3
<1>25. QED
  BY <1>1, <1>6, <1>10, <1>11, <1>12, <1>18, <1>19, <1>20, <1>23, <1>24, BoardStep

-----------------------------------------------------------------------------
(* The theorems *)

\* Nothing has happened at first.
LEMMA InitIInv == Init => IInv
<1> SUFFICES ASSUME Init PROVE IInv
  OBVIOUS
<1>1. args \in [Runs -> Args]
  BY HostAssumption DEF Init
<1>2. \A r \in Runs : args[r].board \in Boards
  BY <1>1 DEF Args
<1>3. cur \in [Runs -> Status]
  BY <1>2 DEF Init, Status
<1>4. TypeOK
  BY <1>1, <1>3 DEF Init, TypeOK, Outcomes, NoTrial, NoOta
<1>5. \A r \in Runs : Inert(r)
  BY HostAssumption DEF Init, Inert, Trying, Tries, Did, OtaRunning, NoTrial, NoOta
<1>6. \A r \in Runs : RunInv(r)
  BY <1>5 DEF Init, RunInv
<1>7. QED
  BY <1>4, <1>6 DEF Init, IInv, Rest

\* Every step preserves the invariant.
LEMMA StepIInv == IInv /\ [Next]_vars => IInv'
<1> SUFFICES ASSUME IInv, [Next]_vars PROVE IInv'
  OBVIOUS
<1>1. ASSUME NEW q \in requests, Handle(q) PROVE IInv'
  BY <1>1, HandleReadStep, HandleRefusedStep, HandleBusinessStep, HandleConfigStep,
     HandleRestartStep, HandleOtaStep DEF Handle
<1>2. CASE UNCHANGED vars
  <2>1. UNCHANGED <<client, requests, receipts, boot, revision, trial, ota, effects, clock, attached>>
    BY <1>2 DEF vars, board
  <2>2. NoRun \notin Runs /\ clock \in Nat
    BY HostAssumption DEF IInv, TypeOK
  <2>3. TypeOK'
    BY <2>1 DEF IInv, TypeOK, client
  <2>4. \A q \in requests' : q.command \in Writes => q.id[1] # NoRun
    BY <2>1, <2>2, RequestType DEF IInv
  <2>5. QED
    BY <2>1, <2>2, <2>3, <2>4, BoardsStay, BoardStep
<1>3. QED
  BY <1>1, <1>2, ClientStep, TrialEndsStep, OtaEndsStep, PowerFailureStep, ReplaceTickStep DEF Next

\* The inductive invariant holds throughout.
LEMMA HostInvariant == Spec => []IInv
<1>1. QED
  BY InitIInv, StepIInv, PTL DEF Spec

\* Requests, receipts and what the boards try are always of their kinds.
THEOREM HostTypes == Spec => []TypeOK
<1>1. IInv => TypeOK
  BY DEF IInv
<1>2. QED
  BY <1>1, HostInvariant, PTL

\* A run of device_control.py that reports success tells the truth.
THEOREM HostSuccess == Spec => []SuccessIsReal
<1>1. IInv => SuccessIsReal
  <2> SUFFICES ASSUME IInv, NEW r \in Runs, outcome[r] = "succeeded"
               PROVE  /\ args[r].command \in Writes =>
                            \E e \in EffectsOf(r) :
                               /\ e.board = args[r].board
                               /\ args[r].command = "config.set" => e.revision = cur[r].revision + 1
                               /\ args[r].command = "restart" => boot[e.board] > e.boot
                      /\ args[r].command = "ota.result" =>
                            \E e \in effects :
                               /\ args[e.run].command = "ota.start" /\ args[e.run].op = args[r].op
                               /\ e.board = args[r].board
    BY DEF SuccessIsReal
  <2>1. Succeeded(r)
    BY DEF IInv, Rest, RunInv
  <2>2. \A e \in effects : e.run = r => EffectInv(e, r)
    BY DEF IInv, Rest
  <2>3. QED
    BY <2>1, <2>2 DEF Succeeded, Did, EffectInv, EffectsOf
<1>2. QED
  BY <1>1, HostInvariant, PTL

\* A run that ended before its command was sent, or was refused, has no effect.
THEOREM HostRefusal == Spec => []RefusalIsInert
<1>1. IInv => RefusalIsInert
  BY DEF IInv, Rest, RunInv, Inert, Did, EffectsOf, RefusalIsInert
<1>2. QED
  BY <1>1, HostInvariant, PTL

\* A run takes effect at most once, on the board the operator named and in the
\* boot it was shown.
THEOREM HostOneEffect == Spec => []OneEffect
<1>1. IInv => OneEffect
  BY DEF IInv, Rest, EffectInv, EffectsOf, OneEffect
<1>2. QED
  BY <1>1, HostInvariant, PTL

\* When config.set has given up waiting, neither its request nor a trial of it
\* can still change the board.
THEOREM HostNoLateCommit == Spec => NoLateCommit
<1> DEFINE Late(r) == outcome[r] = "timeout" /\ args[r].command = "config.set" => EffectsOf(r)' = EffectsOf(r)
<1>1. IInv /\ [Next]_vars => [\A r \in Runs : Late(r)]_vars
  <2> SUFFICES ASSUME IInv, Next, NEW r \in Runs, outcome[r] = "timeout", args[r].command = "config.set"
               PROVE  EffectsOf(r)' = EffectsOf(r)
    OBVIOUS
  <2>0. clock \in Nat
    BY DEF IInv, TypeOK
  <2>1. ASSUME effects' = effects PROVE EffectsOf(r)' = EffectsOf(r)
    BY <2>1 DEF EffectsOf
  <2>2. ASSUME NEW u \in Runs, u # r, NEW b, NEW n, effects' = effects \cup {Took(u, b, n)}
        PROVE  EffectsOf(r)' = EffectsOf(r)
    BY <2>2 DEF EffectsOf, Took
  <2>3. ASSUME NEW u \in Runs, Client(u) PROVE effects' = effects
    BY <2>3 DEF Client, Open, Ready, Current, Fresh, ConfigReply, RestartReply, Observed,
       OtaStartReply, AnswerReply, OtaResultReply, Timeout, Send, End, Finish, Leave
  <2>4. ASSUME NEW q \in requests, Handle(q) PROVE EffectsOf(r)' = EffectsOf(r)
    <3>1. CASE HandleBusiness(q) \/ HandleRestart(q)
      <4>1. q.command \in {"business", "restart"} /\ q.command \in Writes
        BY <3>1 DEF HandleBusiness, HandleRestart, Writes
      <4>2. q.id[1] \in Runs /\ q.id[1] # r
        BY <4>1, WriteFacts
      <4>3. QED
        BY <3>1, <4>2, <2>2 DEF HandleBusiness, HandleRestart
    <3>2. CASE HandleRead(q) \/ HandleRefused(q) \/ HandleConfig(q) \/ HandleOta(q)
      BY <3>2, <2>1 DEF HandleRead, HandleRefused, HandleConfig, HandleOta
    <3>3. QED
      BY <2>4, <3>1, <3>2 DEF Handle
  <2>5. ASSUME NEW b \in Boards, TrialEnds(b) PROVE EffectsOf(r)' = EffectsOf(r)
    <3>1. PICK u \in Runs : u = trial[b].run /\ TrialInv(b, u) /\ trial[b].deadline \in Nat
      BY <2>5, BoardType DEF TrialEnds, IInv, Rest
    <3>2. CASE u = r
      <4>1. trial[b].deadline <= clock
        BY <3>1, <3>2 DEF TrialInv, InTime
      <4>2. effects' = effects
        BY <2>0, <2>5, <3>1, <4>1 DEF TrialEnds
      <4>3. QED
        BY <4>2, <2>1
    <3>3. CASE u # r
      BY <2>1, <2>2, <2>5, <3>1, <3>3 DEF TrialEnds
    <3>4. QED
      BY <3>2, <3>3
  <2>6. ASSUME NEW b \in Boards, OtaEnds(b) PROVE EffectsOf(r)' = EffectsOf(r)
    <3>1. PICK u \in Runs : u = ota[b].run /\ args[u].command = "ota.start"
      BY <2>6, BoardType DEF OtaEnds, OtaRunning, IInv, Rest, OtaInv
    <3>2. u # r
      BY <3>1
    <3>3. QED
      BY <2>1, <2>2, <2>6, <3>1, <3>2 DEF OtaEnds
  <2>7. CASE PowerFailure \/ Replace \/ Tick
    BY <2>1, <2>7 DEF PowerFailure, Replace, Tick
  <2>8. QED
    BY <2>1, <2>3, <2>4, <2>5, <2>6, <2>7 DEF Next
<1>2. QED
  BY <1>1, HostInvariant, PTL DEF Spec, NoLateCommit
=============================================================================
