------------------------- MODULE NativeLayoutProofs -------------------------
(***************************************************************************)
(* A migration is backed, true and complete for any number of runs, images, *)
(* keys, bootloaders and well-formed flashes.                              *)
(***************************************************************************)
EXTENDS NativeLayout, TLAPS

-----------------------------------------------------------------------------
(* The inductive invariant *)

Memory ==
    [srckey : Key \cup {"none"}, key : Key \cup {"none"}, app : Image \cup {"none"},
     boot : Boot \cup {"none"}, selected : -1 .. 1]

\* prepare has inspected the source with command line a and copied keys m.
Inspected(a, m) ==
    /\ a.tool = "prepare" /\ a.layout = flash.layout /\ m.key \in Key
    /\ inspect_source(flash, a, m.srckey, m.selected)

\* ... and has read the app and the bootloader that go into the candidate.
Made(a, m) ==
    /\ Inspected(a, m)
    /\ Verified(m.app, m.key)
    /\ Target(flash.layout) = "esp32" => BootKey[m.boot] = m.key
    /\ KeepsSource(flash, a) => m.app = flash.slots[m.selected] /\ m.boot = flash.boot

Preparing(r) == pc[r] \in {"create", "write"} /\ args[r].tool = "prepare"
Archiving(r) == pc[r] \in {"create", "write"} /\ args[r].tool = "archive"

\* What a run knows where it is.
KnowsInv(r) ==
    /\ pc[r] = "inspected" => Inspected(args[r], mem[r])
    /\ pc[r] = "made" => Made(args[r], mem[r])
    /\ pc[r] \in {"start", "inspected", "made"} => done[r] = 0
    /\ pc[r] = "link" => \E a \in Requests, s \in Slots : audit(flash, a, s)
    /\ pc[r] \in {"create", "write"} => Preparing(r) \/ Archiving(r)
    /\ Preparing(r) => Made(args[r], mem[r]) /\ done[r] < Len(Outputs(args[r]))
    /\ Archiving(r) => Archivable(flash) /\ done[r] = 0

\* The files a run has written stand whole behind it.
WroteInv(r) ==
    Preparing(r) =>
        /\ done[r] >= 1 => IsWhole("source-flash")
        /\ done[r] >= 2 => /\ IsWhole("migration-receipt")
                           /\ Data("migration-receipt") = Report(flash, args[r], mem[r])
        /\ done[r] >= 3 => IsWhole("at-old-raw")

\* A file under way belongs to one run.
OpenInv ==
    \A r \in Run : pc[r] = "write" =>
        /\ files[File(r)] = Partial
        /\ \A q \in Run : pc[q] = "write" /\ File(q) = File(r) => q = r

\* What each finished file holds.
HoldsInv ==
    /\ IsWhole("source-flash") => Data("source-flash") = flash
    /\ IsWhole("migration-receipt") =>
          \E a \in Requests, m \in Memory :
              Made(a, m) /\ Data("migration-receipt") = Report(flash, a, m)
    /\ IsWhole("at-old-raw") => Data("at-old-raw") = [at |-> OldAt(flash)]
    /\ IsWhole("base-store") =>
          /\ \E a \in Requests, s \in Slots : audit(flash, a, s)
          /\ Data("base-store") = StoreCandidate(flash)
    /\ IsWhole("at-archive") => Archivable(flash) /\ Data("at-archive") = [at |-> OldAt(flash)]

\* What a run that knows the running slot has found there.
RightSlot(a, m) ==
    /\ Boots(flash.otadata, m.selected)
    /\ IF a.tool = "prepare" THEN Verified(flash.slots[m.selected], m.srckey)
       ELSE HasHeader(flash.slots[m.selected])

Rest ==
    /\ \A r \in Run : KnowsInv(r) /\ WroteInv(r)
    /\ OpenInv /\ HoldsInv /\ CandidateIsBacked /\ SelectionAgrees

IInv == TypeOK /\ Rest

-----------------------------------------------------------------------------
(* What the tools find in a flash *)

\* The slot of a sequence number.
LEMMA SlotIsSlot == \A n \in Nat : SlotOf(n) \in Slots
BY DEF SlotOf, Slots

\* The slot ota_selection takes is the one the bootloader starts, for every
\* pair of copies, also when both speak of the same slot.
LEMMA OtaSelectionBoots ==
    ASSUME NEW f, WellFormed(f), NEW s, ota_selection(f.otadata, s)
    PROVE  s \in Slots /\ Settled(f.otadata, s) /\ Boots(f.otadata, s)
<1> DEFINE o == f.otadata
<1>0. \A i \in Slots : o[i].seq \in Nat
  BY DEF WellFormed
<1>1. \A i \in Slots : o[i] = Erased \/ (o[i].kind = "entry" /\ o[i].state \in {"valid", "invalid"})
  BY DEF ota_selection
<1>2. PICK i \in Slots :
          /\ Newest(o, i) /\ o[i].state = "valid" /\ SlotOf(o[i].seq) = s
          /\ \A j \in Slots : (Newest(o, j) /\ o[j].state = "valid") => o[j].seq <= o[i].seq
  BY DEF ota_selection
<1>3. s \in Slots
  BY <1>0, <1>2, SlotIsSlot
<1>4. Settled(o, s)
  BY <1>2 DEF Settled
<1>5. o[i].kind = "entry"
  BY <1>2 DEF Newest
<1>6. ASSUME NEW j \in Slots, o[j].kind = "entry", o[j].state # "invalid" PROVE o[j].seq <= o[i].seq
  <2>1. o[j].state = "valid"
    BY <1>1, <1>6 DEF Erased
  <2>2. CASE Newest(o, j)
    BY <1>2, <2>1, <2>2
  <2>3. CASE ~Newest(o, j)
    <3>1. PICK k \in Slots \ {j} :
              /\ o[k].kind = "entry" /\ SlotOf(o[k].seq) = SlotOf(o[j].seq)
              /\ ~(o[k].seq < o[j].seq)
      BY <1>6, <2>3 DEF Newest
    <3>2. j # i
      BY <1>2, <2>3
    <3>3. k = i
      BY <3>1, <3>2 DEF Slots
    <3>4. QED
      BY <1>0, <3>1, <3>3
  <2>4. QED
    BY <2>2, <2>3
<1>7. Boots(o, s)
  BY <1>2, <1>5, <1>6 DEF Boots
<1>8. QED
  BY <1>3, <1>4, <1>7

\* What prepare found: the running slot, or a layout without one.
LEMMA InspectedSlot ==
    ASSUME NEW f, WellFormed(f), NEW a, NEW k, NEW s, inspect_source(f, a, k, s)
    PROVE  \/ s = -1 /\ Foreign(f.layout)
           \/ /\ s \in Slots /\ ~Foreign(f.layout) /\ Boots(f.otadata, s)
              /\ SlotsAreClean(f, k) /\ Verified(f.slots[s], k)
<1>1. CASE f.layout \in {"c3_mqtt_factory", "esp32_at"}
  BY <1>1 DEF inspect_source, Foreign
<1>2. CASE f.layout \notin {"c3_mqtt_factory", "esp32_at"}
  <2>1. ota_selection(f.otadata, s) /\ SlotsAreClean(f, k) /\ ~Foreign(f.layout)
    BY <1>2 DEF inspect_source
  <2>2. s \in Slots /\ Settled(f.otadata, s) /\ Boots(f.otadata, s)
    BY <2>1, OtaSelectionBoots
  <2>3. Verified(f.slots[s], k)
    BY <2>1, <2>2 DEF SlotsAreClean
  <2>4. QED
    BY <2>1, <2>2, <2>3
<1>3. QED
  BY <1>1, <1>2

\* The slot preflight audits is the one the bootloader starts.
LEMMA AuditedSlot ==
    ASSUME NEW f, WellFormed(f), NEW a, NEW s, audit(f, a, s)
    PROVE  Boots(f.otadata, s) /\ HasHeader(f.slots[s])
<1> DEFINE o == f.otadata
           selectable == {i \in Slots : o[i].kind = "entry" /\ o[i].state # "invalid"}
<1>0. \A i \in Slots : o[i].seq \in Nat
  BY DEF WellFormed
<1>1. PICK i \in selectable :
          /\ \A j \in selectable \ {i} : o[j].seq < o[i].seq \/ (o[j].seq = o[i].seq /\ i < j)
          /\ o[i].state = "valid" /\ SlotOf(o[i].seq) = s
  BY DEF audit, AuditSelects
<1>2. \A j \in Slots : (o[j].kind = "entry" /\ o[j].state # "invalid") => o[j].seq <= o[i].seq
  BY <1>0, <1>1
<1>3. HasHeader(f.slots[s])
  BY DEF audit, AuditSelects
<1>4. QED
  BY <1>1, <1>2, <1>3 DEF Boots

\* The files of a run, in the order it writes them.
LEMMA OutputsOf ==
    ASSUME NEW a
    PROVE  /\ a.tool = "archive" => Outputs(a) = <<"at-archive">>
           /\ a.tool = "prepare" /\ Target(a.layout) = "esp32" =>
                 Outputs(a) = <<"source-flash", "migration-receipt", "at-old-raw", "candidate-flash">>
           /\ a.tool = "prepare" /\ Target(a.layout) # "esp32" =>
                 Outputs(a) = <<"source-flash", "migration-receipt", "candidate-flash">>
BY DEF Outputs

\* The file a run is at.
LEMMA FileOf ==
    ASSUME IInv, NEW r \in Run, pc[r] \in {"create", "write"}
    PROVE  /\ File(r) \in Files
           /\ \/ /\ Archiving(r) /\ Archivable(flash) /\ done[r] = 0 /\ File(r) = "at-archive"
                 /\ Len(Outputs(args[r])) = 1
              \/ /\ Preparing(r) /\ Made(args[r], mem[r])
                 /\ \/ done[r] = 0 /\ File(r) = "source-flash"
                    \/ done[r] = 1 /\ File(r) = "migration-receipt"
                    \/ done[r] = 2 /\ File(r) = "at-old-raw" /\ Target(flash.layout) = "esp32"
                    \/ done[r] = 2 /\ File(r) = "candidate-flash" /\ Target(flash.layout) # "esp32"
                    \/ done[r] = 3 /\ File(r) = "candidate-flash" /\ Target(flash.layout) = "esp32"
<1>1. KnowsInv(r) /\ done[r] \in 0 .. 4
  BY DEF IInv, Rest, TypeOK
<1>2. CASE Archiving(r)
  <2>1. Outputs(args[r]) = <<"at-archive">> /\ done[r] = 0 /\ Archivable(flash)
    BY <1>1, <1>2, OutputsOf DEF KnowsInv, Archiving
  <2>2. QED
    BY <1>2, <2>1 DEF File, Files
<1>3. CASE Preparing(r)
  <2>1. args[r].tool = "prepare" /\ args[r].layout = flash.layout /\ Made(args[r], mem[r])
        /\ done[r] < Len(Outputs(args[r]))
    BY <1>1, <1>3 DEF KnowsInv, Made, Inspected
  <2>2. CASE Target(flash.layout) = "esp32"
    <3>1. Outputs(args[r]) = <<"source-flash", "migration-receipt", "at-old-raw", "candidate-flash">>
      BY <2>1, <2>2, OutputsOf
    <3>2. done[r] \in 0 .. 3
      BY <1>1, <2>1, <3>1
    <3>3. QED
      BY <1>3, <2>1, <2>2, <3>1, <3>2 DEF File, Files
  <2>3. CASE Target(flash.layout) # "esp32"
    <3>1. Outputs(args[r]) = <<"source-flash", "migration-receipt", "candidate-flash">>
      BY <2>1, <2>3, OutputsOf
    <3>2. done[r] \in 0 .. 2
      BY <1>1, <2>1, <3>1
    <3>3. QED
      BY <1>3, <2>1, <2>3, <3>1, <3>2 DEF File, Files
  <2>4. QED
    BY <2>2, <2>3
<1>4. QED
  BY <1>1, <1>2, <1>3 DEF KnowsInv

-----------------------------------------------------------------------------
(* Steps that write no file *)

\* q stands still while another run takes a step.
Still(q) == pc'[q] = pc[q] /\ args'[q] = args[q] /\ mem'[q] = mem[q] /\ done'[q] = done[q]

\* A run that stands still knows what it knew.
LEMMA StillKnows ==
    ASSUME IInv, NEW q \in Run, Still(q), flash' = flash
    PROVE  KnowsInv(q)' /\ File(q)' = File(q)
<1>1. KnowsInv(q)
  BY DEF IInv, Rest
<1>2. KnowsInv(q)'
  BY <1>1 DEF Still, KnowsInv, Inspected, Made, Preparing, Archiving
<1>3. QED
  BY <1>2 DEF Still, File

\* A step of r that leaves the files alone and does not begin to write one.
LEMMA QuietStep ==
    ASSUME IInv, TypeOK', NEW r \in Run, UNCHANGED <<flash, files>>,
           \A q \in Run : q # r => Still(q),
           pc'[r] # "write", KnowsInv(r)', WroteInv(r)',
           mem'[r].selected # -1 => RightSlot(args'[r], mem'[r])
    PROVE  IInv'
<1>1. ASSUME NEW q \in Run PROVE KnowsInv(q)' /\ WroteInv(q)'
  <2>1. CASE q = r
    BY <2>1
  <2>2. CASE q # r
    <3>1. KnowsInv(q)'
      BY <2>2, StillKnows
    <3>2. WroteInv(q)'
      BY <2>2 DEF IInv, Rest, WroteInv, Still, Preparing, IsWhole, Data
    <3>3. QED
      BY <3>1, <3>2
  <2>3. QED
    BY <2>1, <2>2
<1>2. OpenInv'
  <2> SUFFICES ASSUME NEW q \in Run, pc'[q] = "write"
               PROVE  /\ files'[File(q)'] = Partial
                      /\ \A u \in Run : pc'[u] = "write" /\ File(u)' = File(q)' => u = q
    BY DEF OpenInv
  <2>1. q # r /\ pc[q] = "write" /\ File(q)' = File(q)
    BY StillKnows DEF Still
  <2>2. \A u \in Run : pc'[u] = "write" => pc[u] = "write" /\ File(u)' = File(u)
    BY StillKnows DEF Still
  <2>3. QED
    BY <2>1, <2>2 DEF IInv, Rest, OpenInv
<1>3. HoldsInv'
  BY DEF IInv, Rest, HoldsInv, IsWhole, Data, Made, Inspected
<1>4. CandidateIsBacked'
  BY DEF IInv, Rest, CandidateIsBacked, Present, IsWhole, Data
<1>5. SelectionAgrees'
  BY DEF IInv, Rest, SelectionAgrees, RightSlot, Still
<1>6. QED
  BY <1>1, <1>2, <1>3, <1>4, <1>5 DEF IInv, Rest

\* prepare inspects the source.
LEMMA InspectSourceStep == ASSUME IInv, NEW r \in Run, InspectSource(r) PROVE IInv'
<1>0. TypeOK
  BY DEF IInv
<1>1. PICK a \in Requests, srckey \in Key \cup {"none"}, key \in Key, selected \in -1 .. 1 :
          /\ a.tool = "prepare" /\ (a.original => Native(a.layout))
          /\ inspect_source(flash, a, srckey, selected)
          /\ args' = [args EXCEPT ![r] = a]
          /\ mem' = [mem EXCEPT ![r].srckey = srckey, ![r].key = key, ![r].selected = selected]
  BY Zenon DEF InspectSource
<1>2. /\ mem' = [mem EXCEPT ![r] = mem'[r]] /\ mem'[r] \in Memory
      /\ mem'[r].srckey = srckey /\ mem'[r].key = key /\ mem'[r].selected = selected
  <2> DEFINE m == [mem[r] EXCEPT !.srckey = srckey, !.key = key, !.selected = selected]
  <2>1. mem' = [mem EXCEPT ![r] = m]
    BY <1>1
  <2>2. mem[r] \in Memory
    BY <1>0 DEF TypeOK, Memory
  <2>3. m \in Memory /\ m.srckey = srckey /\ m.key = key /\ m.selected = selected
    BY <2>2 DEF Memory
  <2> HIDE DEF m
  <2>4. mem'[r] = m
    BY <1>0, <2>1 DEF TypeOK
  <2>5. QED
    BY <2>1, <2>3, <2>4
<1>3. pc[r] = "start" /\ pc' = [pc EXCEPT ![r] = "inspected"] /\ UNCHANGED <<flash, done, dir, files>>
  BY DEF InspectSource
<1>4. TypeOK'
  BY <1>0, <1>1, <1>2, <1>3 DEF TypeOK, Memory, IsWhole, Data
<1>5. \A q \in Run : q # r => Still(q)
  BY <1>0, <1>1, <1>2, <1>3 DEF TypeOK, Still
<1>6. pc'[r] = "inspected" /\ args'[r] = a
  BY <1>0, <1>1, <1>3 DEF TypeOK
<1>7. KnowsInv(r)'
  <2>1. a.layout = flash.layout
    BY <1>1 DEF inspect_source
  <2>2. Inspected(args[r], mem[r])'
    BY <1>1, <1>2, <1>3, <1>6, <2>1 DEF Inspected
  <2>3. done'[r] = 0
    BY <1>3 DEF IInv, Rest, KnowsInv
  <2>4. QED
    BY <1>6, <2>2, <2>3 DEF KnowsInv, Preparing, Archiving
<1>8. WroteInv(r)'
  BY <1>6 DEF WroteInv, Preparing
<1>9. selected # -1 => RightSlot(a, mem'[r])
  BY <1>0, <1>1, <1>2, InspectedSlot, FlashAssumption DEF TypeOK, RightSlot
<1>10. QED
  BY <1>2, <1>3, <1>4, <1>5, <1>6, <1>7, <1>8, <1>9, QuietStep

\* ... then the new app and the bootloader.
LEMMA ReadNewStep == ASSUME IInv, NEW r \in Run, ReadNew(r) PROVE IInv'
<1>0. TypeOK
  BY DEF IInv
<1>1. PICK app \in Image, boot \in Boot :
          /\ Verified(app, mem[r].key)
          /\ Target(flash.layout) = "esp32" => BootKey[boot] = mem[r].key
          /\ KeepsSource(flash, args[r]) => app = flash.slots[mem[r].selected] /\ boot = flash.boot
          /\ mem' = [mem EXCEPT ![r].app = app, ![r].boot = boot]
  BY DEF ReadNew
<1>2. /\ mem' = [mem EXCEPT ![r] = mem'[r]] /\ mem'[r] \in Memory
      /\ mem'[r].app = app /\ mem'[r].boot = boot
      /\ mem'[r].srckey = mem[r].srckey /\ mem'[r].key = mem[r].key
      /\ mem'[r].selected = mem[r].selected
  <2> DEFINE m == [mem[r] EXCEPT !.app = app, !.boot = boot]
  <2>1. mem' = [mem EXCEPT ![r] = m]
    BY <1>1
  <2>2. mem[r] \in Memory
    BY <1>0 DEF TypeOK, Memory
  <2>3. /\ m \in Memory /\ m.app = app /\ m.boot = boot /\ m.srckey = mem[r].srckey
        /\ m.key = mem[r].key /\ m.selected = mem[r].selected
    BY <2>2 DEF Memory
  <2> HIDE DEF m
  <2>4. mem'[r] = m
    BY <1>0, <2>1 DEF TypeOK
  <2>5. QED
    BY <2>1, <2>3, <2>4
<1>3. pc[r] = "inspected" /\ pc' = [pc EXCEPT ![r] = "made"] /\ UNCHANGED <<flash, args, done, dir, files>>
  BY DEF ReadNew
<1>4. TypeOK'
  BY <1>0, <1>2, <1>3 DEF TypeOK, Memory, IsWhole, Data
<1>5. \A q \in Run : q # r => Still(q)
  BY <1>0, <1>2, <1>3 DEF TypeOK, Still
<1>6. pc'[r] = "made"
  BY <1>0, <1>3 DEF TypeOK
<1>7. KnowsInv(r)'
  <2>1. Inspected(args[r], mem[r]) /\ done[r] = 0
    BY <1>3 DEF IInv, Rest, KnowsInv
  <2>2. Made(args[r], mem[r])'
    BY <1>1, <1>2, <1>3, <2>1 DEF Made, Inspected
  <2>3. QED
    BY <1>3, <1>6, <2>1, <2>2 DEF KnowsInv, Preparing, Archiving
<1>8. WroteInv(r)'
  BY <1>6 DEF WroteInv, Preparing
<1>9. mem'[r].selected # -1 => RightSlot(args'[r], mem'[r])
  BY <1>2, <1>3 DEF IInv, Rest, SelectionAgrees, RightSlot
<1>10. QED
  BY <1>2, <1>3, <1>4, <1>5, <1>6, <1>7, <1>8, <1>9, QuietStep

\* The output directory is made by one run; nothing is written yet.
LEMMA MakeDirectoryStep == ASSUME IInv, NEW r \in Run, MakeDirectory(r) PROVE IInv'
<1>0. TypeOK
  BY DEF IInv
<1>1. pc[r] = "made" /\ pc' = [pc EXCEPT ![r] = "create"] /\ dir' = TRUE
      /\ UNCHANGED <<flash, args, mem, done, files>>
  BY DEF MakeDirectory
<1>2. TypeOK'
  BY <1>0, <1>1 DEF TypeOK, IsWhole, Data
<1>3. \A q \in Run : q # r => Still(q)
  BY <1>0, <1>1 DEF TypeOK, Still
<1>4. pc'[r] = "create"
  BY <1>0, <1>1 DEF TypeOK
<1>5. Made(args[r], mem[r]) /\ done[r] = 0
  BY <1>1 DEF IInv, Rest, KnowsInv
<1>6. KnowsInv(r)'
  <2>1. Made(args[r], mem[r])'
    BY <1>1, <1>5 DEF Made, Inspected
  <2>2. args'[r].tool = "prepare" /\ args[r].tool = "prepare"
    BY <1>1, <1>5 DEF Made, Inspected
  <2>3. 0 < Len(Outputs(args[r]))
    <3>1. CASE Target(args[r].layout) = "esp32"
      <4>1. Outputs(args[r]) = <<"source-flash", "migration-receipt", "at-old-raw", "candidate-flash">>
        BY <2>2, <3>1, OutputsOf
      <4>2. QED
        BY <4>1
    <3>2. CASE Target(args[r].layout) # "esp32"
      <4>1. Outputs(args[r]) = <<"source-flash", "migration-receipt", "candidate-flash">>
        BY <2>2, <3>2, OutputsOf
      <4>2. QED
        BY <4>1
    <3>3. QED
      BY <3>1, <3>2
  <2>4. (done[r] < Len(Outputs(args[r])))'
    BY <1>1, <1>5, <2>3
  <2>5. Preparing(r)' /\ ~Archiving(r)'
    BY <1>4, <2>2 DEF Preparing, Archiving
  <2>6. QED
    BY <1>4, <2>1, <2>4, <2>5 DEF KnowsInv
<1>7. WroteInv(r)'
  BY <1>1, <1>5 DEF WroteInv
<1>8. mem[r].selected # -1 => RightSlot(args[r], mem[r])
  BY DEF IInv, Rest, SelectionAgrees, RightSlot
<1>9. QED
  BY <1>1, <1>2, <1>3, <1>4, <1>6, <1>7, <1>8, QuietStep

\* preflight audits the source.
LEMMA AuditStep == ASSUME IInv, NEW r \in Run, Audit(r) PROVE IInv'
<1>0. TypeOK
  BY DEF IInv
<1>1. PICK a \in Requests, selected \in Slots :
          /\ a.tool = "preflight" /\ audit(flash, a, selected)
          /\ args' = [args EXCEPT ![r] = a]
          /\ mem' = [mem EXCEPT ![r].selected = selected]
  BY DEF Audit
<1>2. mem' = [mem EXCEPT ![r] = mem'[r]] /\ mem'[r] \in Memory /\ mem'[r].selected = selected
  <2> DEFINE m == [mem[r] EXCEPT !.selected = selected]
  <2>1. mem' = [mem EXCEPT ![r] = m]
    BY <1>1
  <2>2. mem[r] \in Memory
    BY <1>0 DEF TypeOK, Memory
  <2>3. m \in Memory /\ m.selected = selected
    BY <2>2 DEF Memory, Slots
  <2> HIDE DEF m
  <2>4. mem'[r] = m
    BY <1>0, <2>1 DEF TypeOK
  <2>5. QED
    BY <2>1, <2>3, <2>4
<1>3. pc[r] = "start" /\ pc' = [pc EXCEPT ![r] = "link"] /\ UNCHANGED <<flash, done, dir, files>>
  BY DEF Audit
<1>4. TypeOK'
  BY <1>0, <1>1, <1>2, <1>3 DEF TypeOK, Memory, IsWhole, Data
<1>5. \A q \in Run : q # r => Still(q)
  BY <1>0, <1>1, <1>2, <1>3 DEF TypeOK, Still
<1>6. pc'[r] = "link"
  BY <1>0, <1>3 DEF TypeOK
<1>7. KnowsInv(r)'
  BY <1>1, <1>3, <1>6 DEF KnowsInv, Preparing, Archiving
<1>8. WroteInv(r)'
  BY <1>6 DEF WroteInv, Preparing
<1>9. RightSlot(a, mem'[r]) /\ args'[r] = a
  BY <1>0, <1>1, <1>2, AuditedSlot, FlashAssumption DEF TypeOK, RightSlot
<1>10. QED
  BY <1>2, <1>3, <1>4, <1>5, <1>6, <1>7, <1>8, <1>9, QuietStep

\* archive reads the old AT pages.
LEMMA MakeArchiveStep == ASSUME IInv, NEW r \in Run, MakeArchive(r) PROVE IInv'
<1>0. TypeOK
  BY DEF IInv
<1>1. PICK a \in Requests :
          a.tool = "archive" /\ Archivable(flash) /\ args' = [args EXCEPT ![r] = a]
  BY DEF MakeArchive
<1>2. pc[r] = "start" /\ pc' = [pc EXCEPT ![r] = "create"] /\ UNCHANGED <<flash, mem, done, dir, files>>
  BY DEF MakeArchive
<1>3. TypeOK'
  BY <1>0, <1>1, <1>2 DEF TypeOK, IsWhole, Data
<1>4. \A q \in Run : q # r => Still(q)
  BY <1>0, <1>1, <1>2 DEF TypeOK, Still
<1>5. pc'[r] = "create" /\ args'[r] = a
  BY <1>0, <1>1, <1>2 DEF TypeOK
<1>6. KnowsInv(r)'
  <2>1. done'[r] = 0
    BY <1>2 DEF IInv, Rest, KnowsInv
  <2>2. QED
    BY <1>1, <1>2, <1>5, <2>1 DEF KnowsInv, Preparing, Archiving
<1>7. WroteInv(r)'
  BY <1>1, <1>5 DEF WroteInv, Preparing
<1>8. mem'[r].selected # -1 => RightSlot(args'[r], mem'[r])
  <2>1. \A content : Verified(content, mem[r].srckey) => HasHeader(content)
    BY DEF Verified, HasHeader
  <2>2. QED
    BY <1>1, <1>2, <1>5, <2>1 DEF IInv, Rest, SelectionAgrees, RightSlot
<1>9. QED
  BY <1>2, <1>3, <1>4, <1>5, <1>6, <1>7, <1>8, QuietStep

\* A refusal, an error or a kill leaves everything where it is.
LEMMA StopStep == ASSUME IInv, NEW r \in Run, Stop(r) PROVE IInv'
<1>0. TypeOK
  BY DEF IInv
<1>1. pc' = [pc EXCEPT ![r] = "stopped"] /\ UNCHANGED <<flash, args, mem, done, dir, files>>
  BY DEF Stop
<1>2. TypeOK'
  BY <1>0, <1>1 DEF TypeOK, IsWhole, Data
<1>3. \A q \in Run : q # r => Still(q)
  BY <1>0, <1>1 DEF TypeOK, Still
<1>4. pc'[r] = "stopped"
  BY <1>0, <1>1 DEF TypeOK
<1>5. KnowsInv(r)' /\ WroteInv(r)'
  BY <1>4 DEF KnowsInv, WroteInv, Preparing, Archiving
<1>6. mem[r].selected # -1 => RightSlot(args[r], mem[r])
  BY DEF IInv, Rest, SelectionAgrees, RightSlot
<1>7. QED
  BY <1>1, <1>2, <1>3, <1>4, <1>5, <1>6, QuietStep

-----------------------------------------------------------------------------
(* Steps that write a file *)

\* The unfinished file f becomes v.
Becomes(f, v) == files[f] \in {Absent, Partial} /\ files' = [files EXCEPT ![f] = v]

\* A step on an unfinished file leaves the finished ones as they are.
LEMMA WholeStays ==
    ASSUME IInv, NEW f \in Files, NEW v, Becomes(f, v)
    PROVE  /\ files'[f] = v
           /\ \A g \in Files : g # f => files'[g] = files[g]
           /\ \A g \in Files : IsWhole(g) => files'[g] = files[g]
<1>1. DOMAIN files = Files
  BY DEF IInv, TypeOK
<1>2. ~IsWhole(f)
  BY DEF Becomes, IsWhole, Absent, Partial
<1>3. \A g \in Files : g # f => files'[g] = files[g]
  BY <1>1 DEF Becomes
<1>4. files'[f] = v
  BY <1>1 DEF Becomes
<1>5. QED
  BY <1>2, <1>3, <1>4

\* The state types survive a step on one file.
LEMMA FileTypes ==
    ASSUME IInv, NEW f \in Files, NEW v, Becomes(f, v),
           v \in {Absent, Partial} \/ \E d : v = Whole(d)
    PROVE  /\ DOMAIN files' = Files
           /\ \A g \in Files : files'[g] \in {Absent, Partial} \/ (IsWhole(g) /\ files[g] = Whole(Data(g)))'
<1>1. DOMAIN files' = Files
  BY DEF IInv, TypeOK, Becomes
<1>2. files'[f] \in {Absent, Partial} \/ (IsWhole(f) /\ files[f] = Whole(Data(f)))'
  BY WholeStays DEF IsWhole, Data, Whole
<1>3. ASSUME NEW g \in Files, g # f
      PROVE  files'[g] \in {Absent, Partial} \/ (IsWhole(g) /\ files[g] = Whole(Data(g)))'
  <2>1. files'[g] = files[g]
    BY <1>3, WholeStays
  <2>2. files[g] \in {Absent, Partial} \/ (IsWhole(g) /\ files[g] = Whole(Data(g)))
    BY DEF IInv, TypeOK
  <2>3. QED
    BY <2>1, <2>2 DEF IsWhole, Data
<1>4. QED
  BY <1>1, <1>2, <1>3

\* What the other runs need of a step on one file.
LEMMA FileStep ==
    ASSUME IInv, TypeOK', NEW r \in Run, NEW f \in Files, NEW v,
           UNCHANGED <<flash, args, mem>>, Becomes(f, v),
           \A q \in Run : q # r => Still(q),
           KnowsInv(r)', WroteInv(r)', OpenInv', HoldsInv', CandidateIsBacked'
    PROVE  IInv'
<1>1. ASSUME NEW q \in Run PROVE KnowsInv(q)' /\ WroteInv(q)'
  <2>1. CASE q = r
    BY <2>1
  <2>2. CASE q # r
    <3>1. KnowsInv(q)'
      BY <2>2, StillKnows
    <3>2. \A g \in Files : IsWhole(g) => files'[g] = files[g]
      BY WholeStays
    <3>3. WroteInv(q)'
      BY <2>2, <3>2 DEF IInv, Rest, WroteInv, Still, Preparing, IsWhole, Data, Files
    <3>4. QED
      BY <3>1, <3>3
  <2>3. QED
    BY <2>1, <2>2
<1>2. SelectionAgrees'
  BY DEF IInv, Rest, SelectionAgrees
<1>3. QED
  BY <1>1, <1>2 DEF IInv, Rest

\* A step on another file leaves the candidate backed.
LEMMA BackedStays ==
    ASSUME IInv, NEW f \in Files, NEW v, Becomes(f, v), flash' = flash,
           f # "candidate-flash"
    PROVE  CandidateIsBacked'
<1>1. files'["candidate-flash"] = files["candidate-flash"]
  BY WholeStays DEF Files
<1>2. \A g \in Files : IsWhole(g) => files'[g] = files[g]
  BY WholeStays
<1>3. QED
  BY <1>1, <1>2 DEF IInv, Rest, CandidateIsBacked, Present, IsWhole, Data, Files

\* While no file is finished, the finished ones hold what they held.
LEMMA HoldsStays ==
    ASSUME IInv, NEW f \in Files, NEW v \in {Absent, Partial}, Becomes(f, v),
           flash' = flash
    PROVE  HoldsInv'
<1>1. \A g \in Files : (IsWhole(g))' => IsWhole(g) /\ files'[g] = files[g]
  <2> SUFFICES ASSUME NEW g \in Files, (IsWhole(g))' PROVE IsWhole(g) /\ files'[g] = files[g]
    OBVIOUS
  <2>1. g # f
    BY WholeStays DEF IsWhole, Absent, Partial
  <2>2. QED
    BY <2>1, WholeStays DEF IsWhole
<1>2. HoldsInv
  BY DEF IInv, Rest
<1>3. QED
  BY <1>1, <1>2 DEF HoldsInv, IsWhole, Data, Files, Made, Inspected

\* The files other runs have open stay open while r leaves its own.
LEMMA OpenStays ==
    ASSUME IInv, NEW r \in Run, NEW f \in Files, NEW v, Becomes(f, v), flash' = flash,
           \A q \in Run : q # r => Still(q), pc'[r] # "write",
           \A q \in Run : q # r /\ pc[q] = "write" => File(q) # f
    PROVE  OpenInv'
<1> SUFFICES ASSUME NEW q \in Run, pc'[q] = "write"
             PROVE  /\ files'[File(q)'] = Partial
                    /\ \A u \in Run : pc'[u] = "write" /\ File(u)' = File(q)' => u = q
  BY DEF OpenInv
<1>1. q # r /\ pc[q] = "write" /\ File(q)' = File(q)
  BY StillKnows DEF Still
<1>2. \A u \in Run : pc'[u] = "write" => pc[u] = "write" /\ File(u)' = File(u)
  BY StillKnows DEF Still
<1>3. File(q) # f /\ File(q) \in Files
  BY <1>1, FileOf
<1>4. files'[File(q)] = files[File(q)]
  BY <1>3, WholeStays
<1>5. files[File(q)] = Partial /\ \A u \in Run : pc[u] = "write" /\ File(u) = File(q) => u = q
  BY <1>1 DEF IInv, Rest, OpenInv
<1>6. QED
  BY <1>1, <1>2, <1>4, <1>5

\* preflight links its finished store to a free name.
LEMMA LinkStep == ASSUME IInv, NEW r \in Run, Link(r) PROVE IInv'
<1>0. TypeOK
  BY DEF IInv
<1> DEFINE d == StoreCandidate(flash)
<1>1. pc[r] = "link" /\ Becomes("base-store", Whole(d)) /\ pc' = [pc EXCEPT ![r] = "end"]
      /\ UNCHANGED <<flash, args, mem, done, dir>>
  BY DEF Link, Becomes
<1> HIDE DEF d
<1>2. "base-store" \in Files
  BY DEF Files
<1>3. DOMAIN files' = Files
      /\ \A g \in Files : files'[g] \in {Absent, Partial} \/ (IsWhole(g) /\ files[g] = Whole(Data(g)))'
  BY <1>1, <1>2, FileTypes
<1>4. TypeOK'
  BY <1>0, <1>1, <1>3 DEF TypeOK
<1>5. \A q \in Run : q # r => Still(q)
  BY <1>0, <1>1 DEF TypeOK, Still
<1>6. pc'[r] = "end"
  BY <1>0, <1>1 DEF TypeOK
<1>7. KnowsInv(r)' /\ WroteInv(r)'
  BY <1>6 DEF KnowsInv, WroteInv, Preparing, Archiving
<1>8. OpenInv'
  <2>1. \A q \in Run : q # r /\ pc[q] = "write" => File(q) # "base-store"
    BY FileOf
  <2>2. QED
    BY <1>1, <1>2, <1>5, <1>6, <2>1, OpenStays
<1>9. HoldsInv'
  <2>1. \A g \in Files : g # "base-store" => files'[g] = files[g]
    BY <1>1, <1>2, WholeStays
  <2>2. files'["base-store"] = Whole(d)
    BY <1>1, <1>2, WholeStays
  <2>3. (Data("base-store"))' = d
    BY <2>2 DEF Data, Whole
  <2>4. \E a \in Requests, s \in Slots : audit(flash, a, s)
    BY <1>1 DEF IInv, Rest, KnowsInv
  <2>5. HoldsInv
    BY DEF IInv, Rest
  <2>6. (IsWhole("base-store") => /\ \E a \in Requests, s \in Slots : audit(flash, a, s)
                                  /\ Data("base-store") = StoreCandidate(flash))'
    BY <1>1, <2>3, <2>4 DEF d
  <2>7. QED
    BY <1>1, <2>1, <2>5, <2>6 DEF HoldsInv, IsWhole, Data, Files, Made, Inspected
<1>10. CandidateIsBacked'
  BY <1>1, <1>2, BackedStays
<1>11. QED
  BY <1>1, <1>2, <1>4, <1>5, <1>7, <1>8, <1>9, <1>10, FileStep

\* prepare or archive creates its next file; for the candidate everything
\* that backs it is finished by then.
LEMMA CreateFileStep == ASSUME IInv, NEW r \in Run, CreateFile(r) PROVE IInv'
<1>0. TypeOK
  BY DEF IInv
<1> DEFINE f == File(r)
<1>1. pc[r] = "create" /\ files[f] = Absent /\ Becomes(f, Partial) /\ pc' = [pc EXCEPT ![r] = "write"]
      /\ UNCHANGED <<flash, args, mem, done, dir>>
  BY DEF CreateFile, Becomes
<1>2. f \in Files
  BY <1>1, FileOf
<1>3. DOMAIN files' = Files
      /\ \A g \in Files : files'[g] \in {Absent, Partial} \/ (IsWhole(g) /\ files[g] = Whole(Data(g)))'
  BY <1>1, <1>2, FileTypes
<1>4. TypeOK'
  BY <1>0, <1>1, <1>3 DEF TypeOK
<1>5. \A q \in Run : q # r => Still(q)
  BY <1>0, <1>1 DEF TypeOK, Still
<1>6. pc'[r] = "write"
  BY <1>0, <1>1 DEF TypeOK
<1>7. KnowsInv(r)'
  <2>1. KnowsInv(r)
    BY DEF IInv, Rest
  <2>2. QED
    BY <1>1, <1>6, <2>1 DEF KnowsInv, Preparing, Archiving, Made, Inspected
<1>8. \A g \in Files : IsWhole(g) => files'[g] = files[g]
  BY <1>1, <1>2, WholeStays
<1>9. WroteInv(r)'
  <2>1. WroteInv(r)
    BY DEF IInv, Rest
  <2>2. QED
    BY <1>1, <1>6, <1>8, <2>1 DEF WroteInv, Preparing, IsWhole, Data, Files
<1>10. File(r)' = f
  BY <1>1 DEF File
<1>11. OpenInv'
  <2>1. files'[f] = Partial
    BY <1>1, <1>2, WholeStays
  <2>2. ASSUME NEW q \in Run, q # r, pc'[q] = "write"
        PROVE  /\ pc[q] = "write" /\ File(q)' = File(q) /\ File(q) # f
               /\ files'[File(q)] = Partial
    <3>1. pc[q] = "write" /\ File(q)' = File(q)
      BY <1>1, <1>5, <2>2, StillKnows DEF Still
    <3>2. files[File(q)] = Partial
      BY <3>1 DEF IInv, Rest, OpenInv
    <3>3. File(q) # f
      BY <1>1, <3>2 DEF Absent, Partial
    <3>4. File(q) \in Files
      BY <3>1, FileOf
    <3>5. QED
      BY <1>1, <1>2, <3>1, <3>2, <3>3, <3>4, WholeStays
  <2>3. \A q, u \in Run : pc[q] = "write" /\ pc[u] = "write" /\ File(u) = File(q) => u = q
    BY DEF IInv, Rest, OpenInv
  <2> HIDE DEF f
  <2>4. QED
    BY <1>10, <2>1, <2>2, <2>3 DEF OpenInv
<1>12. HoldsInv'
  BY <1>1, <1>2, HoldsStays
<1>13. CandidateIsBacked'
  <2>1. CASE f # "candidate-flash"
    BY <1>1, <1>2, <2>1, BackedStays
  <2>2. CASE f = "candidate-flash"
    <3>1. Preparing(r) /\ done[r] \in {2, 3} /\ (Target(flash.layout) = "esp32" => done[r] = 3)
      BY <1>1, <2>2, FileOf
    <3>2. WroteInv(r)
      BY DEF IInv, Rest
    <3>3. /\ IsWhole("source-flash") /\ IsWhole("migration-receipt")
          /\ Data("migration-receipt") = Report(flash, args[r], mem[r])
          /\ Target(flash.layout) = "esp32" => IsWhole("at-old-raw")
      BY <3>1, <3>2 DEF WroteInv
    <3>4. Data("source-flash") = flash
      BY <3>3 DEF IInv, Rest, HoldsInv
    <3>5. Data("migration-receipt").source = flash
      BY <3>3 DEF Report
    <3>6. ~IsWhole("candidate-flash")'
      BY <1>1, <1>2, <2>2, WholeStays DEF IsWhole, Partial
    <3>7. QED
      BY <1>1, <1>8, <3>3, <3>4, <3>5, <3>6 DEF CandidateIsBacked, IsWhole, Data, Files
  <2>3. QED
    BY <2>1, <2>2
<1>14. QED
  BY <1>1, <1>2, <1>4, <1>5, <1>7, <1>9, <1>11, <1>12, <1>13, FileStep

\* archive takes an unfinished file away.
LEMMA UnlinkStep == ASSUME IInv, NEW r \in Run, Unlink(r) PROVE IInv'
<1>0. TypeOK
  BY DEF IInv
<1>1. pc[r] = "write" /\ args[r].tool = "archive" /\ pc' = [pc EXCEPT ![r] = "stopped"]
      /\ files' = [files EXCEPT !["at-archive"] = Absent]
      /\ UNCHANGED <<flash, args, mem, done, dir>>
  BY DEF Unlink
<1>2. "at-archive" \in Files /\ File(r) = "at-archive"
  BY <1>1, FileOf DEF Preparing
<1>3. Becomes("at-archive", Absent)
  BY <1>1, <1>2 DEF IInv, Rest, OpenInv, Becomes
<1>4. DOMAIN files' = Files
      /\ \A g \in Files : files'[g] \in {Absent, Partial} \/ (IsWhole(g) /\ files[g] = Whole(Data(g)))'
  BY <1>2, <1>3, FileTypes
<1>5. TypeOK'
  BY <1>0, <1>1, <1>4 DEF TypeOK
<1>6. \A q \in Run : q # r => Still(q)
  BY <1>0, <1>1 DEF TypeOK, Still
<1>7. pc'[r] = "stopped"
  BY <1>0, <1>1 DEF TypeOK
<1>8. KnowsInv(r)' /\ WroteInv(r)'
  BY <1>7 DEF KnowsInv, WroteInv, Preparing, Archiving
<1>9. OpenInv'
  <2>1. \A q \in Run : q # r /\ pc[q] = "write" => File(q) # "at-archive"
    BY <1>1, <1>2 DEF IInv, Rest, OpenInv
  <2>2. QED
    BY <1>1, <1>2, <1>3, <1>6, <1>7, <2>1, OpenStays
<1>10. HoldsInv'
  BY <1>1, <1>2, <1>3, HoldsStays
<1>11. CandidateIsBacked'
  BY <1>1, <1>2, <1>3, BackedStays
<1>12. QED
  BY <1>1, <1>2, <1>3, <1>5, <1>6, <1>8, <1>9, <1>10, <1>11, FileStep

\* A file is finished with its contents; the candidate is the one its receipt
\* names.
LEMMA WriteFileStep == ASSUME IInv, NEW r \in Run, WriteFile(r) PROVE IInv'
<1>0. TypeOK
  BY DEF IInv
<1> DEFINE f == File(r)
           d == Contents(r)
<1>1. pc[r] = "write" /\ files' = [files EXCEPT ![f] = Whole(d)]
      /\ done' = [done EXCEPT ![r] = done[r] + 1]
      /\ pc' = [pc EXCEPT ![r] = IF done'[r] = Len(Outputs(args[r])) THEN "end" ELSE "create"]
      /\ UNCHANGED <<flash, args, mem, dir>>
  BY DEF WriteFile
<1>2. f \in Files
  BY <1>1, FileOf
<1>3. files[f] = Partial /\ \A q \in Run : q # r /\ pc[q] = "write" => File(q) # f
  BY <1>1 DEF IInv, Rest, OpenInv
<1>4. Becomes(f, Whole(d))
  BY <1>1, <1>3 DEF Becomes
<1> HIDE DEF f, d
<1>5. DOMAIN files' = Files
      /\ \A g \in Files : files'[g] \in {Absent, Partial} \/ (IsWhole(g) /\ files[g] = Whole(Data(g)))'
  BY <1>2, <1>4, FileTypes
<1>6. done[r] \in 0 .. 3
  BY <1>1, FileOf
<1>7. done'[r] = done[r] + 1
  BY <1>0, <1>1 DEF TypeOK
<1>8. TypeOK'
  <2>1. done' \in [Run -> 0 .. 4]
    BY <1>0, <1>1, <1>6 DEF TypeOK
  <2>2. QED
    BY <1>0, <1>1, <1>5, <2>1 DEF TypeOK
<1>9. \A q \in Run : q # r => Still(q)
  BY <1>0, <1>1 DEF TypeOK, Still
<1>10. pc'[r] = IF done[r] + 1 = Len(Outputs(args[r])) THEN "end" ELSE "create"
  BY <1>0, <1>1, <1>7 DEF TypeOK
<1>11. \A g \in Files : g # f => files'[g] = files[g]
  BY <1>2, <1>4, WholeStays
<1>12. \A g \in Files : IsWhole(g) => files'[g] = files[g]
  BY <1>2, <1>4, WholeStays
<1>13. \A g \in Files : g = f => (IsWhole(g))' /\ (Data(g))' = d
  <2>1. files'[f] = Whole(d)
    BY <1>2, <1>4, WholeStays
  <2>2. \A g \in Files : g = f => files'[g] = Whole(d)
    BY <2>1
  <2>3. QED
    BY <2>2 DEF IsWhole, Data, Whole
<1>14. KnowsInv(r)'
  <2>1. CASE Archiving(r)
    <3>1. pc'[r] = "end"
      <4>1. ~Preparing(r)
        BY <2>1 DEF Archiving, Preparing
      <4>2. done[r] = 0 /\ Len(Outputs(args[r])) = 1
        BY <1>1, <4>1, FileOf
      <4>3. QED
        BY <1>10, <4>2
    <3>2. QED
      BY <3>1 DEF KnowsInv, Preparing, Archiving
  <2>2. CASE Preparing(r)
    <3>1. Made(args[r], mem[r]) /\ done[r] < Len(Outputs(args[r])) /\ args[r].tool = "prepare"
      BY <2>2 DEF IInv, Rest, KnowsInv, Preparing
    <3>2. Made(args[r], mem[r])'
      BY <1>1, <3>1 DEF Made, Inspected
    <3>3. CASE pc'[r] = "end"
      BY <3>3 DEF KnowsInv, Preparing, Archiving
    <3>4. CASE pc'[r] = "create"
      <4>1. done[r] + 1 # Len(Outputs(args[r]))
        BY <1>10, <3>4
      <4>2. Len(Outputs(args[r])) \in Nat
        <5>1. CASE Target(args[r].layout) = "esp32"
          BY <3>1, <5>1, OutputsOf
        <5>2. CASE Target(args[r].layout) # "esp32"
          BY <3>1, <5>2, OutputsOf
        <5>3. QED
          BY <5>1, <5>2
      <4>3. done[r] + 1 < Len(Outputs(args[r]))
        BY <1>6, <3>1, <4>1, <4>2
      <4>4. (done[r] < Len(Outputs(args[r])))'
        BY <1>1, <1>7, <4>3
      <4>5. Preparing(r)' /\ ~Archiving(r)'
        BY <1>1, <3>1, <3>4 DEF Preparing, Archiving
      <4>6. QED
        BY <3>2, <3>4, <4>4, <4>5 DEF KnowsInv
    <3>5. QED
      BY <1>10, <3>3, <3>4
  <2>3. QED
    BY <1>1, <2>1, <2>2, FileOf
<1>15. WroteInv(r)'
  <2> SUFFICES ASSUME Preparing(r)'
               PROVE  /\ done'[r] >= 1 => (IsWhole("source-flash"))'
                      /\ done'[r] >= 2 => (IsWhole("migration-receipt"))'
                                          /\ (Data("migration-receipt") = Report(flash, args[r], mem[r]))'
                      /\ done'[r] >= 3 => (IsWhole("at-old-raw"))'
    BY DEF WroteInv
  <2>1. Preparing(r) /\ WroteInv(r)
    BY <1>1 DEF Preparing, IInv, Rest
  <2>2. pc'[r] = "create" /\ done[r] + 1 < Len(Outputs(args[r]))
    <3>1. pc'[r] = "create"
      BY <1>10 DEF Preparing
    <3>2. QED
      BY <1>1, <1>7, <1>14, <3>1 DEF KnowsInv, Preparing
  <2>3. /\ done[r] = 0 => f = "source-flash"
        /\ done[r] = 1 => f = "migration-receipt"
        /\ done[r] = 2 => f = "at-old-raw"
        /\ done[r] # 3
    <3>1. args[r].tool = "prepare" /\ args[r].layout = flash.layout
      BY <2>1 DEF IInv, Rest, KnowsInv, Made, Inspected
    <3>2. CASE Target(flash.layout) = "esp32"
      <4>1. Outputs(args[r]) = <<"source-flash", "migration-receipt", "at-old-raw", "candidate-flash">>
        BY <3>1, <3>2, OutputsOf
      <4>2. QED
        BY <1>6, <2>2, <4>1 DEF f, File
    <3>3. CASE Target(flash.layout) # "esp32"
      <4>1. Outputs(args[r]) = <<"source-flash", "migration-receipt", "candidate-flash">>
        BY <3>1, <3>3, OutputsOf
      <4>2. QED
        BY <1>6, <2>2, <4>1 DEF f, File
    <3>4. QED
      BY <3>2, <3>3
  <2>4. /\ done[r] >= 1 => files'["source-flash"] = files["source-flash"]
        /\ done[r] >= 2 => files'["migration-receipt"] = files["migration-receipt"]
        /\ done[r] >= 3 => files'["at-old-raw"] = files["at-old-raw"]
    BY <1>12, <2>1 DEF WroteInv, Files
  <2>5. done[r] = 1 => d = Report(flash, args[r], mem[r])
    BY <2>3 DEF d, Contents, f
  <2>6. CASE done[r] = 0
    BY <1>7, <1>13, <2>3, <2>6 DEF Files
  <2>7. CASE done[r] = 1
    <3>1. (IsWhole("source-flash"))'
      BY <2>1, <2>4, <2>7 DEF WroteInv, IsWhole
    <3>2. (IsWhole("migration-receipt"))' /\ (Data("migration-receipt"))' = Report(flash, args[r], mem[r])
      BY <1>13, <2>3, <2>5, <2>7 DEF Files
    <3>3. QED
      BY <1>1, <1>7, <2>7, <3>1, <3>2
  <2>8. CASE done[r] = 2
    <3>1. (IsWhole("source-flash"))'
      BY <2>1, <2>4, <2>8 DEF WroteInv, IsWhole
    <3>2. (IsWhole("migration-receipt"))' /\ (Data("migration-receipt"))' = Report(flash, args[r], mem[r])
      BY <2>1, <2>4, <2>8 DEF WroteInv, IsWhole, Data
    <3>3. (IsWhole("at-old-raw"))'
      BY <1>13, <2>3, <2>8 DEF Files
    <3>4. QED
      BY <1>1, <1>7, <2>8, <3>1, <3>2, <3>3
  <2>9. QED
    BY <1>6, <2>3, <2>6, <2>7, <2>8
<1>16. OpenInv'
  <2>1. pc'[r] # "write"
    BY <1>10
  <2>2. QED
    BY <1>1, <1>2, <1>3, <1>4, <1>9, <2>1, OpenStays
<1>17. HoldsInv'
  <2>1. HoldsInv
    BY DEF IInv, Rest
  <2>2. CASE f = "source-flash"
    <3>1. d = flash
      BY <2>2 DEF d, Contents, f
    <3>2. (Data("source-flash"))' = flash'
      BY <1>1, <1>13, <2>2, <3>1 DEF Files
    <3>3. QED
      BY <1>1, <1>11, <2>1, <2>2, <3>2 DEF HoldsInv, IsWhole, Data, Files, Made, Inspected
  <2>3. CASE f = "migration-receipt"
    <3>1. d = Report(flash, args[r], mem[r])
      BY <2>3 DEF d, Contents, f
    <3>2. Made(args[r], mem[r]) /\ args[r].tool = "prepare"
      BY <1>1, <2>3, FileOf DEF f, Made, Inspected
    <3>3. args[r] \in Requests /\ mem[r] \in Memory
      BY <1>0, <3>2 DEF TypeOK, NoArgs, Memory
    <3>4. (\E a \in Requests, m \in Memory :
              Made(a, m) /\ Data("migration-receipt") = Report(flash, a, m))'
      BY <1>1, <1>13, <2>3, <3>1, <3>2, <3>3 DEF Made, Inspected, Files
    <3>5. QED
      BY <1>1, <1>11, <2>1, <2>3, <3>4 DEF HoldsInv, IsWhole, Data, Files
  <2>4. CASE f = "at-old-raw"
    <3>1. d = [at |-> OldAt(flash)]
      BY <2>4 DEF d, Contents, f
    <3>2. (Data("at-old-raw"))' = [at |-> OldAt(flash')]
      BY <1>1, <1>13, <2>4, <3>1 DEF Files
    <3>3. QED
      BY <1>1, <1>11, <2>1, <2>4, <3>2 DEF HoldsInv, IsWhole, Data, Files, Made, Inspected
  <2>5. CASE f = "candidate-flash"
    BY <1>1, <1>11, <2>1, <2>5 DEF HoldsInv, IsWhole, Data, Files, Made, Inspected
  <2>6. CASE f = "at-archive"
    <3>1. d = [at |-> OldAt(flash)]
      BY <2>6 DEF d, Contents, f
    <3>2. Archivable(flash)
      BY <1>1, <2>6, FileOf DEF f
    <3>3. (Data("at-archive"))' = [at |-> OldAt(flash')]
      BY <1>1, <1>13, <2>6, <3>1 DEF Files
    <3>4. QED
      BY <1>1, <1>11, <2>1, <2>6, <3>2, <3>3 DEF HoldsInv, IsWhole, Data, Files, Made, Inspected
  <2>7. QED
    BY <1>1, <2>2, <2>3, <2>4, <2>5, <2>6, FileOf DEF f
<1>18. CandidateIsBacked'
  <2>1. CASE f # "candidate-flash"
    BY <1>1, <1>2, <1>4, <2>1, BackedStays
  <2>2. CASE f = "candidate-flash"
    <3>1. Preparing(r) /\ done[r] \in {2, 3}
      BY <1>1, <2>2, FileOf DEF f
    <3>2. Data("migration-receipt") = Report(flash, args[r], mem[r])
      BY <3>1 DEF IInv, Rest, WroteInv
    <3>3. d = Candidate(flash, args[r], mem[r])
      BY <2>2 DEF d, Contents, f
    <3>4. Data("migration-receipt").candidate = d
      BY <3>2, <3>3 DEF Report
    <3>5. Present("candidate-flash")
      BY <1>3, <2>2 DEF Present, Absent, Partial
    <3>6. /\ IsWhole("source-flash") /\ Data("source-flash") = flash
          /\ IsWhole("migration-receipt") /\ Data("migration-receipt").source = flash
          /\ Target(flash.layout) = "esp32" => IsWhole("at-old-raw")
      BY <3>5 DEF IInv, Rest, CandidateIsBacked
    <3>7. (Data("candidate-flash"))' = d
      BY <1>13, <2>2 DEF Files
    <3>8. \A g \in {"source-flash", "migration-receipt", "at-old-raw"} :
              IsWhole(g) => (IsWhole(g))' /\ (Data(g))' = Data(g)
      BY <1>12 DEF IsWhole, Data, Files
    <3>9. QED
      BY <1>1, <3>4, <3>6, <3>7, <3>8 DEF CandidateIsBacked
  <2>3. QED
    BY <2>1, <2>2
<1>19. QED
  BY <1>1, <1>2, <1>4, <1>8, <1>9, <1>14, <1>15, <1>16, <1>17, <1>18, FileStep

-----------------------------------------------------------------------------
(* The invariant *)

LEMMA InitIInv == Init => IInv
<1> SUFFICES ASSUME Init PROVE IInv
  OBVIOUS
<1>1. \A r \in Run : pc[r] = "start" /\ args[r] = NoArgs /\ mem[r] = NoMem /\ done[r] = 0
  BY DEF Init
<1>2. \A f \in Files : files[f] = Absent
  BY DEF Init
<1>3. TypeOK
  <2>1. NoMem \in Memory
    BY DEF NoMem, Memory
  <2>2. mem \in [Run -> Memory]
    BY <2>1 DEF Init
  <2>3. args \in [Run -> Requests \cup {NoArgs}] /\ done \in [Run -> 0 .. 4]
    BY DEF Init
  <2>4. flash \in Backups /\ dir \in BOOLEAN /\ DOMAIN files = Files
        /\ pc \in [Run -> {"start", "inspected", "made", "link", "create", "write", "end", "stopped"}]
    BY DEF Init
  <2>5. QED
    BY <1>2, <2>2, <2>3, <2>4 DEF TypeOK, Memory
<1>4. \A f \in Files : ~IsWhole(f) /\ ~Present(f)
  BY <1>2 DEF IsWhole, Present, Absent
<1>5. \A r \in Run : KnowsInv(r) /\ WroteInv(r)
  BY <1>1 DEF KnowsInv, WroteInv, Preparing, Archiving
<1>6. OpenInv
  BY <1>1 DEF OpenInv
<1>7. HoldsInv /\ CandidateIsBacked
  BY <1>4 DEF HoldsInv, CandidateIsBacked, Files
<1>8. SelectionAgrees
  BY <1>1 DEF SelectionAgrees, NoMem
<1>9. QED
  BY <1>3, <1>5, <1>6, <1>7, <1>8 DEF IInv, Rest

LEMMA StepIInv == IInv /\ [Next]_vars => IInv'
<1> SUFFICES ASSUME IInv, [Next]_vars PROVE IInv'
  OBVIOUS
<1>1. CASE UNCHANGED vars
  BY <1>1 DEF vars, IInv, Rest, TypeOK, KnowsInv, WroteInv, OpenInv, HoldsInv, CandidateIsBacked,
              SelectionAgrees, Preparing, Archiving, Made, Inspected, File, IsWhole, Data, Present
<1>2. CASE Next
  BY <1>2, InspectSourceStep, ReadNewStep, MakeDirectoryStep, AuditStep, LinkStep, MakeArchiveStep,
     CreateFileStep, WriteFileStep, UnlinkStep, StopStep DEF Next
<1>3. QED
  BY <1>1, <1>2

\* The inductive invariant holds throughout.
LEMMA LayoutInvariant == Spec => []IInv
<1>1. QED
  BY InitIInv, StepIInv, PTL DEF Spec

\* What a run holds always fits where it is (TypeOK).
THEOREM LayoutTypes == Spec => []TypeOK
<1>1. IInv => TypeOK
  BY DEF IInv
<1>2. QED
  BY <1>1, LayoutInvariant, PTL

\* From the creation of a candidate on, the original flash, the receipt and the
\* old AT pages stand complete beside it and speak of it: the order of
\* write_verified's calls in prepare suffices, for any number of runs.
THEOREM CandidateBacked == Spec => []CandidateIsBacked
<1>1. IInv => CandidateIsBacked
  BY DEF IInv, Rest
<1>2. QED
  BY <1>1, LayoutInvariant, PTL

\* ota_selection and audit_otadata_and_slots take the slot the bootloader
\* starts, for every pair of otadata copies of any sequence numbers.
THEOREM SelectionCorrect == Spec => []SelectionAgrees
<1>1. IInv => SelectionAgrees
  BY DEF IInv, Rest
<1>2. QED
  BY <1>1, LayoutInvariant, PTL

-----------------------------------------------------------------------------
(* What a finished candidate is *)

\* A finished candidate and its receipt come from one inspected source.
LEMMA CandidateOf ==
    ASSUME IInv, IsWhole("candidate-flash")
    PROVE  /\ WellFormed(flash) /\ (Target(flash.layout) = "esp32" => IsWhole("at-old-raw"))
           /\ \E a \in Requests, m \in Memory :
                 /\ Made(a, m) /\ Data("migration-receipt") = Report(flash, a, m)
                 /\ Data("candidate-flash") = Candidate(flash, a, m)
<1>1. Present("candidate-flash")
  BY DEF IsWhole, Present, Absent
<1>2. /\ IsWhole("migration-receipt") /\ Data("candidate-flash") = Data("migration-receipt").candidate
      /\ Target(flash.layout) = "esp32" => IsWhole("at-old-raw")
  BY <1>1 DEF IInv, Rest, CandidateIsBacked
<1>3. PICK a \in Requests, m \in Memory :
          Made(a, m) /\ Data("migration-receipt") = Report(flash, a, m)
  BY <1>2 DEF IInv, Rest, HoldsInv
<1>4. Data("candidate-flash") = Candidate(flash, a, m)
  BY <1>2, <1>3 DEF Report
<1>5. WellFormed(flash)
  BY FlashAssumption DEF IInv, TypeOK
<1>6. QED
  BY <1>2, <1>3, <1>4, <1>5

\* The two fresh otadata copies start slot 1.
LEMMA FreshBoots == Boots([i \in Slots |-> Valid(i + 1)], 1)
<1> DEFINE o == [i \in Slots |-> Valid(i + 1)]
<1>1. o[0] = Valid(1) /\ o[1] = Valid(2)
  BY DEF Slots
<1>2. o[1].kind = "entry" /\ o[1].state = "valid" /\ o[1].seq = 2 /\ o[0].seq = 1
  BY <1>1 DEF Valid
<1> HIDE DEF o
<1>3. SlotOf(2) = 1
  BY DEF SlotOf
<1>4. \A j \in Slots : o[j].seq <= o[1].seq
  BY <1>2 DEF Slots
<1>5. Boots(o, 1)
  BY <1>2, <1>3, <1>4 DEF Boots, Slots
<1>6. QED
  BY <1>5 DEF o

\* The bootloader starts what the receipt names.
LEMMA TrueReceipt == IInv => ReceiptIsTrue
<1> SUFFICES ASSUME IInv, IsWhole("candidate-flash") PROVE ReceiptIsTrue
  BY DEF ReceiptIsTrue
<1> DEFINE c == Data("candidate-flash")
           w == Data("migration-receipt")
<1>1. PICK a \in Requests, m \in Memory :
          Made(a, m) /\ w = Report(flash, a, m) /\ c = Candidate(flash, a, m)
  BY CandidateOf
<1>2. WellFormed(flash)
  BY CandidateOf
<1> HIDE DEF c, w
<1>3. w.app = m.app /\ w.key = m.key /\ w.srckey = m.srckey
      /\ w.slot = IF KeepsSource(flash, a) THEN m.selected ELSE 1
  BY <1>1 DEF Report
<1>4. /\ Signer[m.app] = m.key /\ m.app \in Image
      /\ Target(flash.layout) = "esp32" => BootKey[m.boot] = m.key
  BY <1>1 DEF Made, Verified
<1> DEFINE Goal == /\ Native(c.layout) /\ Boots(c.otadata, w.slot)
                   /\ c.slots[w.slot] = w.app /\ Signer[w.app] = w.key
                   /\ Target(c.layout) = "esp32" => BootKey[c.boot] = w.key
                   /\ \A s \in Slots : c.slots[s] = "erased" \/ Verified(c.slots[s], w.key)
                                                             \/ Verified(c.slots[s], w.srckey)
<1>5. CASE KeepsSource(flash, a)
  <2>1. c = flash /\ w.slot = m.selected /\ m.app = flash.slots[m.selected] /\ m.boot = flash.boot
    BY <1>1, <1>3, <1>5 DEF Candidate, Made
  <2>2. Native(flash.layout) /\ ~Foreign(flash.layout)
    BY <1>5 DEF KeepsSource, Native, Foreign
  <2>3. Boots(flash.otadata, m.selected) /\ SlotsAreClean(flash, m.srckey)
    BY <1>1, <1>2, <2>2, InspectedSlot DEF Made, Inspected
  <2>4. \A s \in Slots : flash.slots[s] = "erased" \/ Verified(flash.slots[s], m.srckey)
    BY <2>3 DEF SlotsAreClean
  <2>5. Goal
    BY <1>3, <1>4, <2>1, <2>2, <2>3, <2>4
  <2>6. QED
    BY <2>5 DEF ReceiptIsTrue, c, w
<1>6. CASE ~KeepsSource(flash, a)
  <2>1. /\ c.layout = IF Target(flash.layout) = "esp32" THEN "esp32_native" ELSE "c3_native"
        /\ c.slots = [s \in Slots |-> m.app]
        /\ c.otadata = [i \in Slots |-> Valid(i + 1)] /\ c.boot = m.boot /\ w.slot = 1
    BY <1>1, <1>3, <1>6 DEF Candidate, build_candidate
  <2>2. Native(c.layout) /\ (Target(c.layout) = "esp32" => Target(flash.layout) = "esp32")
    BY <2>1 DEF Native, Target
  <2>3. Boots(c.otadata, w.slot)
    BY <2>1, FreshBoots
  <2>4. \A s \in Slots : c.slots[s] = m.app
    BY <2>1
  <2>5. c.slots[w.slot] = m.app
    BY <2>1, <2>4 DEF Slots
  <2>6. Goal
    BY <1>3, <1>4, <2>1, <2>2, <2>3, <2>4, <2>5 DEF Verified
  <2>7. QED
    BY <2>6 DEF ReceiptIsTrue, c, w
<1>7. QED
  BY <1>5, <1>6

\* A board written with a finished candidate starts the slot, the app and the
\* key its receipt names, although the input files change between reads.
THEOREM ReceiptTrue == Spec => []ReceiptIsTrue
<1>1. QED
  BY TrueReceipt, LayoutInvariant, PTL

-----------------------------------------------------------------------------
(* What a migration carries over *)

\* The five AT pages of the candidate and of at-old-raw are those of the flash.
LEMMA PagesKept ==
    ASSUME NEW f, WellFormed(f), Target(f.layout) = "esp32", ~f.more
    PROVE  SamePages(f, OldAt(f))
<1>1. CASE f.layout = "esp32_product"
  <2>1. PICK p, q, x, y : f.at = <<p, q, x, y>>
    BY <1>1 DEF WellFormed
  <2>2. Len(f.at) = 4 /\ f.at[1] = p /\ f.at[2] = q /\ f.at[3] = x /\ f.at[4] = y
    BY <2>1
  <2>3. OldAt(f) = <<f.at[1], f.at[2], "erased", f.at[3], f.at[4]>>
    BY <1>1 DEF OldAt
  <2>4. OldAt(f) = <<p, q, "erased", x, y>>
    BY <2>2, <2>3
  <2>5. NvsPage(f, 1) = p /\ NvsPage(f, 2) = q /\ NvsPage(f, 3) = "erased"
    BY <1>1, <2>2 DEF NvsPage
  <2>6. CustomPage(f, 1) = x /\ CustomPage(f, 2) = y
    BY <2>2 DEF CustomPage
  <2>7. QED
    BY <2>4, <2>5, <2>6 DEF SamePages
<1>2. CASE f.layout # "esp32_product"
  <2>1. f.layout \in {"esp32_at", "esp32_native"}
    BY <1>2 DEF Target
  <2>2. PICK p, q, z, x, y : f.at = <<p, q, z, x, y>>
    BY <2>1 DEF WellFormed
  <2>3. OldAt(f) = <<p, q, z, x, y>>
    BY <1>2, <2>2 DEF OldAt
  <2>4. Len(f.at) = 5 /\ f.at[1] = p /\ f.at[2] = q /\ f.at[3] = z /\ f.at[4] = x /\ f.at[5] = y
    BY <2>2
  <2>5. NvsPage(f, 1) = p /\ NvsPage(f, 2) = q /\ NvsPage(f, 3) = z
    BY <1>2, <2>4 DEF NvsPage
  <2>6. CustomPage(f, 1) = x /\ CustomPage(f, 2) = y
    BY <2>4 DEF CustomPage
  <2>7. QED
    BY <2>3, <2>5, <2>6 DEF SamePages
<1>3. QED
  BY <1>1, <1>2

\* A conversion changes the version of a configuration and nothing else.
LEMMA Converted ==
    ASSUME NEW k \in [v : Nat, rev : Nat, wifi : BOOLEAN, mqtt : BOOLEAN], k.v \in 0 .. 3
    PROVE  SameConfig(k, Convert(k)) /\ (Convert(k).v = 0 <=> k.v = 0)
<1>1. CASE k.v \in {1, 2}
  <2>1. Convert(k) = [v |-> 3, rev |-> k.rev, wifi |-> k.wifi, mqtt |-> k.mqtt]
    BY <1>1 DEF Convert
  <2>2. QED
    BY <1>1, <2>1 DEF SameConfig
<1>2. CASE k.v \notin {1, 2}
  BY <1>2 DEF Convert, SameConfig
<1>3. QED
  BY <1>1, <1>2

\* Nothing is open in a source that prepare takes.
LEMMA SourceSettled ==
    ASSUME NEW f, WellFormed(f), NEW a, NEW k, NEW s, inspect_source(f, a, k, s)
    PROVE  /\ f.ota.state # "prepared" /\ f.ecs.phase # "busy" /\ f.ledger # "prepared"
           /\ \A i \in Slots : f.otadata[i].state # "pending"
           /\ ~f.more
           /\ f.config = NoConfig \/ f.config.v = 3 \/ (f.layout = "c3_v1" /\ f.config.v \in {1, 2})
           /\ Foreign(f.layout) => f.config = NoConfig
           /\ Native(f.layout) => f.ecs = NoPackages /\ f.ledger = "none"
<1>1. CASE Foreign(f.layout)
  <2>1. f.ota = NoReceipt /\ f.ecs = NoPackages /\ f.ledger = "none" /\ \A i \in Slots : f.otadata[i] = Erased
    BY <1>1 DEF WellFormed
  <2>2. ~f.more
    BY <1>1 DEF inspect_source, Archivable
  <2>3. f.config = NoConfig
    BY <1>1 DEF inspect_source, WellFormed, Foreign
  <2>4. f.ota.state # "prepared" /\ f.ecs.phase # "busy" /\ f.ledger # "prepared"
    BY <2>1 DEF NoReceipt, NoPackages
  <2>5. \A i \in Slots : f.otadata[i].state # "pending"
    BY <2>1 DEF Erased
  <2>6. ~Native(f.layout)
    BY <1>1 DEF Native, Foreign
  <2>7. QED
    BY <2>2, <2>3, <2>4, <2>5, <2>6
<1>2. CASE ~Foreign(f.layout)
  <2>1. /\ ConfigIsValid(f.layout, f.config) /\ ota_selection(f.otadata, s)
        /\ IF Native(f.layout)
           THEN /\ f.ecs = NoPackages /\ f.ledger = "none"
                /\ f.ota = NoReceipt \/ V4Settled(f, a.id, s)
           ELSE /\ EcsIsSettled(f) /\ LedgerIsSettled(f)
                /\ f.ota = NoReceipt \/ V3Settled(f, a.id, s)
    BY <1>2 DEF inspect_source, Foreign
  <2>2. ~f.more
    BY <1>2 DEF WellFormed
  <2>3. \A i \in Slots : f.otadata[i].state # "pending"
    BY <2>1 DEF ota_selection, Erased
  <2>4. f.ota = NoReceipt \/ f.ota.state \in {"succeeded", "failed"}
    BY <2>1 DEF V3Settled, V4Settled
  <2>5. f.ota.state # "prepared"
    BY <2>4 DEF NoReceipt
  <2>6. f.ecs = NoPackages \/ f.ecs.phase \in {"idle", "confirmed"}
    BY <2>1 DEF EcsIsSettled
  <2>7. f.ecs.phase # "busy"
    BY <2>6 DEF NoPackages
  <2>8. f.ledger # "prepared"
    BY <2>1 DEF LedgerIsSettled
  <2>9. f.config = NoConfig \/ f.config.v = 3 \/ (f.layout = "c3_v1" /\ f.config.v \in {1, 2})
    BY <2>1 DEF ConfigIsValid
  <2>10. QED
    BY <1>2, <2>1, <2>2, <2>3, <2>5, <2>7, <2>8, <2>9
<1>3. QED
  BY <1>1, <1>2

\* Each finished file carries over what the source held.
LEMMA AllKept == IInv => NothingIsLost
<1> SUFFICES ASSUME IInv PROVE NothingIsLost
  OBVIOUS
<1>0. WellFormed(flash) /\ HoldsInv
  BY FlashAssumption DEF IInv, TypeOK, Rest
<1>1. flash.config \in [v : Nat, rev : Nat, wifi : BOOLEAN, mqtt : BOOLEAN]
  BY <1>0 DEF WellFormed
<1>2. ASSUME IsWhole("at-archive") PROVE SamePages(flash, Data("at-archive").at)
  <2>1. Archivable(flash) /\ Data("at-archive") = [at |-> OldAt(flash)]
    BY <1>0, <1>2 DEF HoldsInv
  <2>2. Target(flash.layout) = "esp32" /\ ~flash.more
    BY <2>1 DEF Archivable, Target
  <2>3. QED
    BY <1>0, <2>1, <2>2, PagesKept
<1>3. ASSUME IsWhole("base-store")
      PROVE  SameConfig(flash.config, Data("base-store").config) /\ Data("base-store").ota = flash.ota
  <2>1. flash.config.v \in {0, 1, 2} /\ Data("base-store") = StoreCandidate(flash)
    BY <1>0, <1>3 DEF HoldsInv, audit
  <2>2. CASE flash.config = NoConfig
    <3>1. Data("base-store").config = Convert([NoConfig EXCEPT !.v = 1])
      BY <2>1, <2>2 DEF StoreCandidate
    <3>2. Convert([NoConfig EXCEPT !.v = 1]) = [v |-> 3, rev |-> 0, wifi |-> FALSE, mqtt |-> FALSE]
      BY DEF Convert, NoConfig
    <3>3. SameConfig(NoConfig, [v |-> 3, rev |-> 0, wifi |-> FALSE, mqtt |-> FALSE])
      BY DEF SameConfig, NoConfig
    <3>4. Data("base-store").ota = flash.ota
      BY <2>1 DEF StoreCandidate
    <3>5. QED
      BY <2>2, <3>1, <3>2, <3>3, <3>4
  <2>3. CASE flash.config # NoConfig
    <3>1. Data("base-store").config = Convert(flash.config)
      BY <2>1, <2>3 DEF StoreCandidate
    <3>2. QED
      BY <1>1, <2>1, <3>1, Converted DEF StoreCandidate
  <2>4. QED
    BY <2>2, <2>3
<1>4. ASSUME IsWhole("candidate-flash")
      PROVE  LET c == Data("candidate-flash")
                 w == Data("migration-receipt")
             IN /\ flash.ota.state # "prepared" /\ flash.ecs.phase # "busy" /\ flash.ledger # "prepared"
                /\ \A i \in Slots : flash.otadata[i].state # "pending"
                /\ SameConfig(flash.config, c.config) /\ (c.config.v = 0 <=> flash.config.v = 0)
                /\ ~Foreign(flash.layout) => c.id = flash.id
                /\ flash.ota \in {c.ota, w.retired.ota} /\ flash.ecs \in {c.ecs, w.retired.ecs}
                /\ flash.ledger \in {c.ledger, w.retired.ledger}
                /\ Native(flash.layout) => flash.ota = c.ota
                /\ Target(flash.layout) = "esp32"
                      => SamePages(flash, c.at) /\ SamePages(flash, Data("at-old-raw").at)
  <2> DEFINE c == Data("candidate-flash")
             w == Data("migration-receipt")
  <2>1. PICK a \in Requests, m \in Memory :
            Made(a, m) /\ w = Report(flash, a, m) /\ c = Candidate(flash, a, m)
    BY <1>4, CandidateOf
  <2>2. Target(flash.layout) = "esp32" => IsWhole("at-old-raw")
    BY <1>4, CandidateOf
  <2> HIDE DEF c, w
  <2>3. inspect_source(flash, a, m.srckey, m.selected)
    BY <2>1 DEF Made, Inspected
  <2>4. /\ flash.ota.state # "prepared" /\ flash.ecs.phase # "busy" /\ flash.ledger # "prepared"
        /\ \A i \in Slots : flash.otadata[i].state # "pending"
        /\ ~flash.more
    BY <1>0, <2>3, SourceSettled
  <2>5. /\ flash.config = NoConfig \/ flash.config.v = 3
           \/ (flash.layout = "c3_v1" /\ flash.config.v \in {1, 2})
        /\ Foreign(flash.layout) => flash.config = NoConfig
        /\ Native(flash.layout) => flash.ecs = NoPackages /\ flash.ledger = "none"
    BY <1>0, <2>3, SourceSettled
  <2>6. Target(flash.layout) = "esp32" => SamePages(flash, OldAt(flash))
    BY <1>0, <2>4, PagesKept
  <2>7. Target(flash.layout) = "esp32" => SamePages(flash, Data("at-old-raw").at)
    BY <1>0, <2>2, <2>6 DEF HoldsInv
  <2>8. CASE KeepsSource(flash, a)
    <3>1. c = flash /\ Native(flash.layout)
      BY <2>1, <2>8 DEF Candidate, KeepsSource
    <3>2. SameConfig(flash.config, flash.config)
      BY <2>5, <3>1 DEF SameConfig, NoConfig, Native
    <3>3. OldAt(flash) = flash.at
      BY <3>1 DEF OldAt, Native
    <3>4. QED
      BY <2>4, <2>6, <2>7, <3>1, <3>2, <3>3 DEF c, w
  <2>9. CASE ~KeepsSource(flash, a)
    <3>1. c = build_candidate(flash, m)
      BY <2>1, <2>9 DEF Candidate
    <3>2. /\ c.id = IF Foreign(flash.layout) THEN "none" ELSE flash.id
          /\ c.config = IF Foreign(flash.layout) THEN NoConfig ELSE Convert(flash.config)
          /\ c.ota = NoReceipt /\ c.ecs = NoPackages /\ c.ledger = "none"
          /\ c.at = IF Target(flash.layout) = "esp32" THEN OldAt(flash) ELSE <<>>
      BY <3>1 DEF build_candidate
    <3>3. w.retired = IF Native(flash.layout) \/ Foreign(flash.layout)
                      THEN [ota |-> NoReceipt, ecs |-> NoPackages, ledger |-> "none"]
                      ELSE [ota |-> flash.ota, ecs |-> flash.ecs, ledger |-> flash.ledger]
      BY <2>1 DEF Report
    <3>4. SameConfig(flash.config, c.config) /\ (c.config.v = 0 <=> flash.config.v = 0)
      <4>1. CASE Foreign(flash.layout)
        <5>1. SameConfig(NoConfig, NoConfig)
          BY DEF SameConfig, NoConfig
        <5>2. flash.config = NoConfig /\ c.config = NoConfig
          BY <2>5, <3>2, <4>1
        <5>3. QED
          BY <5>1, <5>2
      <4>2. CASE ~Foreign(flash.layout)
        <5>1. flash.config.v \in 0 .. 3
          BY <2>5 DEF NoConfig
        <5>2. QED
          BY <1>1, <3>2, <4>2, <5>1, Converted
      <4>3. QED
        BY <4>1, <4>2
    <3>5. Native(flash.layout) => flash.ota = NoReceipt
      BY <2>9 DEF KeepsSource
    <3>6. Foreign(flash.layout) => flash.ota = NoReceipt /\ flash.ecs = NoPackages /\ flash.ledger = "none"
      BY <1>0 DEF WellFormed
    <3>7. /\ flash.ota \in {c.ota, w.retired.ota} /\ flash.ecs \in {c.ecs, w.retired.ecs}
          /\ flash.ledger \in {c.ledger, w.retired.ledger}
      BY <2>5, <3>2, <3>3, <3>5, <3>6
    <3>8. QED
      BY <2>4, <2>6, <2>7, <3>2, <3>4, <3>5, <3>7 DEF c, w
  <2>10. QED
    BY <2>8, <2>9
<1>5. QED
  BY <1>2, <1>3, <1>4 DEF NothingIsLost

\* No migration, preflight or archive loses or settles anything on its own.
THEOREM NothingLost == Spec => []NothingIsLost
<1>1. QED
  BY AllKept, LayoutInvariant, PTL
=============================================================================
