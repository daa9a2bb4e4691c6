------------------------- MODULE BuildPackageProofs -------------------------
(***************************************************************************)
(* A build receipt stands for the frozen inputs alone and a package is of  *)
(* one piece, for any number of processes, Core runs, edits and touches,   *)
(* whatever is put back and whatever signed images there are.              *)
(***************************************************************************)
EXTENDS BuildPackage, TLAPS

-----------------------------------------------------------------------------
(* Types *)

Optional(S) == {<<>>} \cup {<<x>> : x \in S}

BindingSet == [value : Input, id : CoreRun]
ReceiptSet == [binding : BindingSet, native : Output]
ManifestSet == [binding : BindingSet, firmware : Output, products : Output]
PackageSet ==
    [manifest : ManifestSet, firmware : Output, products : Output, countersigned : ManifestSet,
     seen : Output, accepted : BOOLEAN]

\* Edits count up from 1, so their sum bounds each of them.
TypeInv ==
    /\ inputs \in Input /\ inputs.src >= 1 /\ inputs.comp >= 1
    /\ inputs.src + inputs.comp <= MaxEdits + 2
    /\ stray \in BOOLEAN /\ output \in Output /\ undone \in 0 .. MaxUndone
    /\ lock \in Process \cup {NoProcess}
    /\ proc \in [Process -> Memory]
    /\ snapshot \in [CoreRun -> Optional(Input)]
    /\ frozen \in Optional(Input) /\ binding \in Optional(BindingSet)
    /\ receipt \in Optional(ReceiptSet) /\ signed \in Optional(Output) /\ signed # <<>>
    /\ manifest \in Optional(ManifestSet) /\ countersigned \in Optional(ManifestSet)
    /\ artifact \in Optional(PackageSet)

-----------------------------------------------------------------------------
(* The inductive invariant *)

Bound == {"configure", "compile", "facts", "receipt"}
Packing == {"read", "manifest", "countersign", "recheck", "publish", "verify"}
Locked == {"build", "check"} \cup Bound \cup Packing
Validated == {"lock"} \cup Locked

\* i was the tree before j was.
AtMost(i, j) == i.src <= j.src /\ i.comp <= j.comp

\* o is the products n, perhaps touched since.
Later(o, n) ==
    /\ o.from = n.from /\ o.id = n.id /\ o.whole = n.whole
    /\ undone = 0 => n.touched <= o.touched

\* What the files say of each other, whoever runs.  Edits and touches only go
\* forward as long as none was put back.
FrozenInv == frozen # <<>> /\ undone = 0 => AtMost(frozen[1], inputs)

BindingInv ==
    binding # <<>> =>
        /\ frozen = <<binding[1].value>>
        /\ snapshot[binding[1].id] = <<binding[1].value>>

\* Nothing was compiled into an unbound directory that was empty; what was
\* compiled into a bound one was read after the freeze.
OutputInv ==
    /\ binding = <<>> => ~output.whole /\ (~stray => output.from = {})
    /\ binding # <<>> /\ undone = 0 =>
          \A i \in output.from : AtMost(binding[1].value, i) /\ AtMost(i, inputs)

\* How far a process has come tells what it has seen and what still holds.
LockInv(p) == proc[p].pc \in Locked => lock = p

ValueInv(p) ==
    /\ proc[p].pc = "write" =>
          proc[p].value # <<>> /\ (undone = 0 => AtMost(proc[p].value[1], inputs))
    /\ proc[p].pc \in Validated =>
          /\ proc[p].run # <<>>
          /\ proc[p].value # <<>> /\ frozen = proc[p].value
          /\ snapshot[proc[p].run[1]] = proc[p].value

BuildInv(p) ==
    /\ proc[p].pc \in Bound => binding = <<Binding(p)>>
    /\ proc[p].pc \in {"compile", "facts", "receipt"} => output.from # {}
    /\ proc[p].pc = "receipt" =>
          /\ proc[p].native # <<>>
          /\ undone = 0 => proc[p].native[1].from = {proc[p].value[1]}
          /\ proc[p].native[1].id = {proc[p].run[1]}

\* The products that were read for the package are those that were checked,
\* touched at most as often as they are now.
ProductsOf(p) ==
    /\ Later(proc[p].products[1], proc[p].native[1])
    /\ undone = 0 => proc[p].products[1].touched <= output.touched

PackInv(p) ==
    /\ proc[p].pc \in Packing =>
          /\ proc[p].native # <<>> /\ Later(output, proc[p].native[1])
          /\ proc[p].seen = proc[p].native
          /\ receipt = <<[binding |-> Binding(p), native |-> proc[p].native[1]]>>
    /\ proc[p].pc \in Packing \ {"read"} => proc[p].image # <<>> /\ proc[p].products # <<>>
    /\ proc[p].pc \in {"manifest", "countersign", "recheck"} => ProductsOf(p)
    /\ proc[p].pc \in {"publish", "verify"} /\ undone = 0 => proc[p].products = proc[p].native
    /\ proc[p].pc \in {"countersign", "recheck", "publish", "verify"} => manifest = <<Manifest(p)>>
    /\ proc[p].pc \in {"recheck", "publish", "verify"} => countersigned = manifest

\* A package, accepted or not: all but the identity of its image is settled when
\* it is published.
PublishedInv ==
    artifact # <<>> =>
        LET a == artifact[1]
        IN /\ receipt # <<>> /\ receipt[1].binding = a.manifest.binding
           /\ manifest = <<a.manifest>> /\ countersigned = manifest /\ a.countersigned = a.manifest
           /\ a.firmware = a.manifest.firmware /\ a.products = a.manifest.products
           /\ undone = 0 => a.products = receipt[1].native
           /\ a.seen = receipt[1].native
           /\ a.accepted => a.firmware.id = {a.manifest.binding.id}

IInv ==
    /\ TypeInv /\ FrozenInv /\ BindingInv /\ OutputInv
    /\ \A p \in Process : LockInv(p) /\ ValueInv(p) /\ BuildInv(p) /\ PackInv(p)
    /\ BuildIsFrozen /\ PublishedInv

-----------------------------------------------------------------------------
(* Optional files and records *)

\* A file that exists holds one value of its kind.
LEMMA Some ==
    ASSUME NEW S, NEW f \in Optional(S), f # <<>>
    PROVE  f[1] \in S /\ f = <<f[1]>>
BY DEF Optional

\* What was written is a file of that kind.
LEMMA Written == ASSUME NEW S, NEW x \in S PROVE <<x>> \in Optional(S) /\ <<x>> # <<>> /\ <<x>>[1] = x
BY DEF Optional

\* A file that does not exist is of every kind.
LEMMA Empty == \A S : <<>> \in Optional(S)
BY DEF Optional

\* A process's memory, with its files by name.
LEMMA MemoryFields ==
    ASSUME TypeInv, NEW p \in Process
    PROVE  /\ proc[p] \in Memory
           /\ proc[p].run \in Optional(CoreRun) /\ proc[p].value \in Optional(Input)
           /\ proc[p].native \in Optional(Output) /\ proc[p].seen \in Optional(Output)
           /\ proc[p].image \in Optional(Output) /\ proc[p].products \in Optional(Output)
BY DEF TypeInv, Memory, Optional

\* A process that goes on and remembers more.
LEMMA MemoryUpdates ==
    ASSUME NEW m \in Memory, NEW l \in {"read", "write", "lock", "receipt", "manifest"},
           NEW cmd \in {"freeze", "build", "package"}, NEW run \in Optional(CoreRun),
           NEW v \in Optional(Input), NEW n \in Optional(Output), NEW g \in Optional(Output)
    PROVE  /\ [m EXCEPT !.pc = l, !.cmd = cmd, !.value = v] \in Memory
           /\ [m EXCEPT !.pc = l, !.cmd = cmd, !.run = run, !.value = v] \in Memory
           /\ [m EXCEPT !.pc = l, !.native = n] \in Memory
           /\ [m EXCEPT !.pc = l, !.native = n, !.seen = g] \in Memory
           /\ [m EXCEPT !.pc = l, !.image = n, !.products = g] \in Memory
<1>1. \A k \in Memory : [k EXCEPT !.pc = l] \in Memory
  BY DEF Memory
<1>2. \A k \in Memory : [k EXCEPT !.cmd = cmd] \in Memory
  BY DEF Memory
<1>3. \A k \in Memory : [k EXCEPT !.run = run] \in Memory
  BY DEF Memory, Optional
<1>4. \A k \in Memory : [k EXCEPT !.value = v] \in Memory
  BY DEF Memory, Optional
<1>5. \A k \in Memory : [k EXCEPT !.native = n] \in Memory
  BY DEF Memory, Optional
<1>6. \A k \in Memory : [k EXCEPT !.seen = g] \in Memory
  BY DEF Memory, Optional
<1>7. \A k \in Memory : [k EXCEPT !.image = n] \in Memory
  BY DEF Memory, Optional
<1>8. \A k \in Memory : [k EXCEPT !.products = g] \in Memory
  BY DEF Memory, Optional
<1>9. QED
  BY <1>1, <1>2, <1>3, <1>4, <1>5, <1>6, <1>7, <1>8

\* The initial tree, empty directory and idle processes satisfy the invariant.
LEMMA InitIInv == Init => IInv
<1> SUFFICES ASSUME Init PROVE IInv
  OBVIOUS
<1> USE BuildAssumption
<1>1. TypeInv
  <2>1. Idle \in Memory
    BY DEF Idle, Memory
  <2>2. NoOutput \in Output
    BY DEF NoOutput, Output
  <2>3. [src |-> 0, comp |-> 0] \in Input
    BY DEF Input
  <2>4. [src |-> 1, comp |-> 1] \in Input /\ 1 + 1 <= MaxEdits + 2
    BY DEF Input
  <2>5. StrayOutput \in Output
    BY <2>2, <2>3 DEF StrayOutput, Output
  <2>6. QED
    BY <2>1, <2>2, <2>4, <2>5, ElsewhereAssumption DEF Init, TypeInv, Optional
<1>2. FrozenInv /\ BindingInv /\ OutputInv /\ BuildIsFrozen /\ PublishedInv
  BY DEF Init, FrozenInv, BindingInv, OutputInv, BuildIsFrozen, PublishedInv, NoOutput, StrayOutput
<1>3. ASSUME NEW p \in Process PROVE LockInv(p) /\ ValueInv(p) /\ BuildInv(p) /\ PackInv(p)
  BY DEF Init, Idle, LockInv, ValueInv, BuildInv, PackInv, Locked, Validated, Bound, Packing
<1>4. QED
  BY <1>1, <1>2, <1>3 DEF IInv

-----------------------------------------------------------------------------
(* What steps do to those who do not take them *)

\* A frozen input and a collected one are never replaced; edits go forward
\* unless one is put back.
Grows ==
    /\ frozen # <<>> => frozen' = frozen
    /\ \A c \in CoreRun : snapshot[c] # <<>> => snapshot'[c] = snapshot[c]
    /\ undone' = 0 => undone = 0 /\ AtMost(inputs, inputs')

FileInv == FrozenInv /\ BindingInv /\ OutputInv /\ BuildIsFrozen /\ PublishedInv

ProcInv(p) == LockInv(p) /\ ValueInv(p) /\ BuildInv(p) /\ PackInv(p)

\* Edits are ordered.
LEMMA AtMostOrder ==
    /\ \A i \in Input : AtMost(i, i)
    /\ \A i, j, k \in Input : AtMost(i, j) /\ AtMost(j, k) => AtMost(i, k)
    /\ \A i, j \in Input : AtMost(i, j) /\ AtMost(j, i) => i = j
BY BuildAssumption DEF AtMost, Input

\* Whoever stands still keeps its invariant while it is outside the lock, or
\* while nobody writes to the build directory.
LEMMA Bystander ==
    ASSUME IInv, TypeInv', Grows, NEW q \in Process, proc'[q] = proc[q],
           \/ proc[q].pc \notin Locked
           \/ UNCHANGED <<lock, binding, output, receipt, manifest, countersigned>>
    PROVE  ProcInv(q)'
<1>1. ProcInv(q)
  BY DEF IInv, ProcInv
<1>2. proc[q].run \in Optional(CoreRun) /\ proc[q].value \in Optional(Input)
  BY MemoryFields DEF IInv
<1>3. LockInv(q)'
  BY <1>1 DEF ProcInv, LockInv
<1>4. ValueInv(q)'
  <2>1. proc[q].pc = "write" /\ undone' = 0 => AtMost(proc[q].value[1], inputs')
    <3> SUFFICES ASSUME proc[q].pc = "write", undone' = 0 PROVE AtMost(proc[q].value[1], inputs')
      OBVIOUS
    <3>1. proc[q].value[1] \in Input /\ AtMost(proc[q].value[1], inputs)
      BY <1>1, <1>2, Some DEF ProcInv, ValueInv, Grows
    <3>2. inputs \in Input /\ inputs' \in Input
      BY DEF IInv, TypeInv
    <3>3. QED
      BY <3>1, <3>2, AtMostOrder DEF Grows
  <2>2. proc[q].pc \in Validated => proc[q].run[1] \in CoreRun
    BY <1>1, <1>2, Some DEF ProcInv, ValueInv
  <2>3. QED
    BY <1>1, <2>1, <2>2 DEF ProcInv, ValueInv, Grows
<1>5. BuildInv(q)'
  BY <1>1 DEF ProcInv, BuildInv, Binding, Locked, Bound, Grows
<1>6. PackInv(q)'
  <2> SUFFICES ASSUME proc[q].pc \in Packing PROVE PackInv(q)'
    BY DEF PackInv, Packing
  <2>1. UNCHANGED <<output, receipt, manifest, countersigned>>
    BY DEF Locked
  <2>2. ASSUME NEW o, NEW n, Later(o, n) PROVE Later(o, n)'
    BY <2>2 DEF Later, Grows
  <2>3. Later(output, proc[q].native[1])' /\ (ProductsOf(q) => ProductsOf(q)')
    BY <1>1, <2>1, <2>2 DEF ProcInv, PackInv, ProductsOf, Grows
  <2>4. QED
    BY <1>1, <2>1, <2>3 DEF ProcInv, PackInv, Binding, Manifest, Grows
<1>7. QED
  BY <1>3, <1>4, <1>5, <1>6 DEF ProcInv

\* The files agree as before when the build directory is left alone.
LEMMA FilesKept ==
    ASSUME IInv, TypeInv', Grows, stray => stray',
           UNCHANGED <<frozen, binding, output, receipt, manifest, countersigned, artifact>>
    PROVE  FileInv'
<1>0. inputs \in Input /\ inputs' \in Input
  BY DEF IInv, TypeInv
<1>1. FrozenInv'
  <2> SUFFICES ASSUME frozen # <<>>, undone' = 0 PROVE AtMost(frozen[1], inputs')
    BY DEF FrozenInv
  <2>1. frozen[1] \in Input /\ AtMost(frozen[1], inputs)
    BY Some DEF IInv, TypeInv, FrozenInv, Grows
  <2>2. QED
    BY <1>0, <2>1, AtMostOrder DEF Grows
<1>2. BindingInv'
  <2>1. binding # <<>> => binding[1].id \in CoreRun
    BY Some DEF IInv, TypeInv, BindingSet
  <2>2. QED
    BY <2>1 DEF IInv, BindingInv, Grows
<1>3. OutputInv'
  <2>1. ASSUME undone' = 0, NEW i \in output.from, AtMost(i, inputs) PROVE AtMost(i, inputs')
    <3>1. i \in Input
      BY DEF IInv, TypeInv, Output
    <3>2. QED
      BY <1>0, <2>1, <3>1, AtMostOrder DEF Grows
  <2>2. QED
    BY <2>1 DEF IInv, OutputInv, Grows
<1>4. BuildIsFrozen'
  <2>1. receipt # <<>> => receipt[1].binding.id \in CoreRun
    BY Some DEF IInv, TypeInv, ReceiptSet, BindingSet
  <2>2. QED
    BY <2>1 DEF IInv, BuildIsFrozen, Grows
<1>5. PublishedInv'
  BY DEF IInv, PublishedInv, Grows
<1>6. QED
  BY <1>1, <1>2, <1>3, <1>4, <1>5 DEF FileInv

\* While p is inside the lock nobody else is.
LEMMA OneInside ==
    ASSUME IInv, NEW p \in Process, lock = p \/ lock = NoProcess, NEW q \in Process, q # p
    PROVE  proc[q].pc \notin Locked
BY BuildAssumption DEF IInv, LockInv

\* A process that left remembers nothing.
LEMMA IdleInv ==
    ASSUME NEW p \in Process, TypeInv', proc'[p] = Idle
    PROVE  ProcInv(p)'
BY DEF ProcInv, Idle, LockInv, ValueInv, BuildInv, PackInv, Locked, Validated, Bound, Packing

-----------------------------------------------------------------------------
(* Types *)

\* What a process remembers at each stage is of its kind.
LEMMA Remembers ==
    ASSUME IInv, NEW p \in Process
    PROVE  /\ proc[p].pc \in Validated \cup {"write"} =>
                 proc[p].value[1] \in Input /\ proc[p].value = <<proc[p].value[1]>>
           /\ proc[p].pc \in Validated => proc[p].run[1] \in CoreRun /\ Binding(p) \in BindingSet
           /\ proc[p].pc \in {"receipt"} \cup Packing => proc[p].native[1] \in Output
           /\ proc[p].pc \in Packing =>
                 proc[p].native = <<proc[p].native[1]>> /\ proc[p].seen[1] = proc[p].native[1]
           /\ proc[p].pc \in Packing \ {"read"} =>
                 /\ proc[p].image[1] \in Output
                 /\ proc[p].products[1] \in Output /\ proc[p].products = <<proc[p].products[1]>>
                 /\ Manifest(p) \in ManifestSet
<1>1. LockInv(p) /\ ValueInv(p) /\ BuildInv(p) /\ PackInv(p)
  BY DEF IInv
<1>2. /\ proc[p].run \in Optional(CoreRun) /\ proc[p].value \in Optional(Input)
      /\ proc[p].native \in Optional(Output) /\ proc[p].image \in Optional(Output)
      /\ proc[p].products \in Optional(Output)
  BY MemoryFields DEF IInv
<1>3. proc[p].pc \in Validated => proc[p].run[1] \in CoreRun
  BY <1>1, <1>2, Some DEF ValueInv
<1>4. proc[p].pc \in Validated \cup {"write"} =>
          proc[p].value[1] \in Input /\ proc[p].value = <<proc[p].value[1]>>
  BY <1>1, <1>2, Some DEF ValueInv
<1>5. proc[p].pc \in Validated => Binding(p) \in BindingSet
  BY <1>3, <1>4 DEF Binding, BindingSet
<1>6. proc[p].pc \in {"receipt"} \cup Packing => proc[p].native[1] \in Output
  BY <1>1, <1>2, Some DEF BuildInv, PackInv
<1>7. proc[p].pc \in Packing =>
          proc[p].native = <<proc[p].native[1]>> /\ proc[p].seen[1] = proc[p].native[1]
  BY <1>1, <1>2, Some DEF PackInv
<1>8. proc[p].pc \in Packing \ {"read"} =>
          /\ proc[p].image[1] \in Output
          /\ proc[p].products[1] \in Output /\ proc[p].products = <<proc[p].products[1]>>
  BY <1>1, <1>2, Some DEF PackInv
<1>9. proc[p].pc \in Packing \ {"read"} => Manifest(p) \in ManifestSet
  BY <1>5, <1>8 DEF Manifest, ManifestSet, Validated, Locked
<1>10. QED
  BY <1>3, <1>4, <1>5, <1>6, <1>7, <1>8, <1>9

\* Edits, touches and signatures stay within their bounds.
LEMMA EnvironmentTypes ==
    ASSUME IInv, Edit \/ Touch \/ Undo \/ Sign \/ \E c \in CoreRun : Collect(c) PROVE TypeInv'
<1> USE BuildAssumption
<1>0. TypeInv
  BY DEF IInv
<1>1. CASE Edit
  <2>1. PICK part \in {"src", "comp"} : inputs' = [inputs EXCEPT ![part] = @ + 1]
    BY <1>1 DEF Edit
  <2>2. /\ inputs' \in Input /\ inputs'.src >= 1 /\ inputs'.comp >= 1
        /\ inputs'.src + inputs'.comp <= MaxEdits + 2
    <3>1. CASE part = "src"
      BY <1>0, <1>1, <2>1, <3>1 DEF Edit, TypeInv, Input
    <3>2. CASE part = "comp"
      BY <1>0, <1>1, <2>1, <3>2 DEF Edit, TypeInv, Input
    <3>3. QED
      BY <3>1, <3>2
  <2>3. QED
    BY <1>0, <1>1, <2>2 DEF Edit, TypeInv, files
<1>2. CASE Touch
  <2>1. output' \in Output
    BY <1>0, <1>2 DEF Touch, TypeInv, Output
  <2>2. QED
    BY <1>0, <1>2, <2>1 DEF Touch, TypeInv
<1>3. CASE Sign
  <2>1. PICK image \in Output : signed' = <<image>>
    BY <1>0, <1>3, ElsewhereAssumption DEF Sign, TypeInv
  <2>2. signed' \in Optional(Output) /\ signed' # <<>>
    BY <2>1, Written
  <2>3. QED
    BY <1>0, <1>3, <2>2 DEF Sign, TypeInv, files
<1>4. ASSUME NEW c \in CoreRun, Collect(c) PROVE TypeInv'
  <2>1. <<inputs>> \in Optional(Input)
    BY <1>0, Written DEF TypeInv
  <2>2. QED
    BY <1>0, <1>4, <2>1 DEF Collect, TypeInv, files
<1>5. CASE Undo
  <2>1. /\ inputs' \in Input /\ inputs'.src >= 1 /\ inputs'.comp >= 1
        /\ inputs'.src + inputs'.comp <= MaxEdits + 2
    <3>1. CASE UNCHANGED inputs
      BY <1>0, <3>1 DEF TypeInv
    <3>2. ASSUME NEW part \in {"src", "comp"}, inputs[part] > 1,
                 inputs' = [inputs EXCEPT ![part] = @ - 1]
          PROVE  /\ inputs' \in Input /\ inputs'.src >= 1 /\ inputs'.comp >= 1
                 /\ inputs'.src + inputs'.comp <= MaxEdits + 2
      <4>1. CASE part = "src"
        BY <1>0, <3>2, <4>1 DEF TypeInv, Input
      <4>2. CASE part = "comp"
        BY <1>0, <3>2, <4>2 DEF TypeInv, Input
      <4>3. QED
        BY <3>2, <4>1, <4>2
    <3>3. QED
      BY <1>5, <3>1, <3>2 DEF Undo
  <2>2. output' \in Output
    <3>1. CASE UNCHANGED output
      BY <1>0, <3>1 DEF TypeInv
    <3>2. CASE output.touched > 0 /\ output' = [output EXCEPT !.touched = @ - 1]
      BY <1>0, <3>2 DEF TypeInv, Output
    <3>3. QED
      BY <1>5, <3>1, <3>2 DEF Undo
  <2>3. undone' \in 0 .. MaxUndone
    BY <1>0, <1>5 DEF Undo, TypeInv
  <2>4. QED
    BY <1>0, <1>5, <2>1, <2>2, <2>3 DEF Undo, TypeInv
<1>6. QED
  BY <1>1, <1>2, <1>3, <1>4, <1>5

\* A process that leaves.
LEMMA LeaveTypes ==
    ASSUME TypeInv, NEW p \in Process, Leave(p)
    PROVE  /\ proc' \in [Process -> Memory] /\ lock' \in Process \cup {NoProcess}
           /\ proc'[p] = Idle /\ \A q \in Process : q # p => proc'[q] = proc[q]
<1>1. Idle \in Memory
  BY DEF Idle, Memory
<1>2. QED
  BY <1>1 DEF Leave, TypeInv

\* A process that only goes on.
LEMMA GotoTypes ==
    ASSUME TypeInv, NEW p \in Process,
           NEW label \in {"build", "configure", "compile", "facts", "check", "countersign", "recheck",
                          "publish", "verify"},
           Goto(p, label)
    PROVE  /\ proc' \in [Process -> Memory]
           /\ proc'[p] = [proc[p] EXCEPT !.pc = label]
           /\ \A q \in Process : q # p => proc'[q] = proc[q]
<1>1. [proc[p] EXCEPT !.pc = label] \in Memory
  BY DEF TypeInv, Memory
<1>2. QED
  BY <1>1 DEF Goto, TypeInv

-----------------------------------------------------------------------------
(* Steps around the tools *)

\* The invariant is its types, its files and its processes.
LEMMA Assemble ==
    /\ IInv => TypeInv /\ FileInv /\ \A p \in Process : ProcInv(p)
    /\ TypeInv' /\ FileInv' /\ (\A p \in Process : ProcInv(p)') => IInv'
BY DEF IInv, FileInv, ProcInv

\* An edit is seen by nobody until it is looked for.
LEMMA EditStep == ASSUME IInv, Edit PROVE IInv'
<1>1. TypeInv'
  BY EnvironmentTypes
<1>2. Grows
  <2>1. PICK part \in {"src", "comp"} : inputs' = [inputs EXCEPT ![part] = @ + 1]
    BY DEF Edit
  <2>2. AtMost(inputs, inputs')
    <3>1. CASE part = "src"
      BY <2>1, <3>1, BuildAssumption DEF IInv, TypeInv, Input, AtMost
    <3>2. CASE part = "comp"
      BY <2>1, <3>2, BuildAssumption DEF IInv, TypeInv, Input, AtMost
    <3>3. QED
      BY <3>1, <3>2
  <2>3. QED
    BY <2>2 DEF Edit, Grows, files
<1>3. FileInv'
  BY <1>1, <1>2, FilesKept DEF Edit, files
<1>4. ASSUME NEW q \in Process PROVE ProcInv(q)'
  <2>1. UNCHANGED <<lock, binding, output, receipt, manifest, countersigned>>
    BY DEF Edit, files
  <2>2. proc'[q] = proc[q]
    BY DEF Edit
  <2>3. QED
    BY <1>1, <1>2, <2>1, <2>2, Bystander
<1>5. QED
  BY <1>1, <1>3, <1>4, Assemble

\* Nor is the collection of a run's inputs.
LEMMA CollectStep == ASSUME IInv, NEW c \in CoreRun, Collect(c) PROVE IInv'
<1>1. TypeInv'
  BY EnvironmentTypes
<1>2. Grows
  <2>1. AtMost(inputs, inputs')
    BY AtMostOrder DEF Collect, IInv, TypeInv
  <2>2. QED
    BY <2>1 DEF Collect, Grows, files, IInv, TypeInv
<1>3. FileInv'
  BY <1>1, <1>2, FilesKept DEF Collect, files
<1>4. ASSUME NEW q \in Process PROVE ProcInv(q)'
  <2>1. UNCHANGED <<lock, binding, output, receipt, manifest, countersigned>>
    BY DEF Collect, files
  <2>2. proc'[q] = proc[q]
    BY DEF Collect
  <2>3. QED
    BY <1>1, <1>2, <2>1, <2>2, Bystander
<1>5. QED
  BY <1>1, <1>3, <1>4, Assemble

\* A touched product is what it was, touched once more.
LEMMA TouchStep == ASSUME IInv, Touch PROVE IInv'
<1>1. TypeInv'
  BY EnvironmentTypes
<1>2. Later(output', output) /\ output'.touched = output.touched + 1 /\ output.touched \in Nat
  <2>1. output \in Output /\ output' = [output EXCEPT !.touched = @ + 1]
    BY DEF Touch, IInv, TypeInv
  <2>2. output.touched \in Nat /\ output'.touched = output.touched + 1
    BY <2>1, BuildAssumption DEF Output
  <2>3. output'.from = output.from /\ output'.id = output.id /\ output'.whole = output.whole
    BY <2>1 DEF Output
  <2>4. QED
    BY <2>2, <2>3 DEF Later
<1>3. FileInv'
  <2>1. binding # <<>>
    BY DEF Touch, IInv, OutputInv
  <2>2. OutputInv'
    BY <1>2, <2>1 DEF Touch, IInv, OutputInv, Later
  <2>3. FrozenInv' /\ BindingInv' /\ BuildIsFrozen' /\ PublishedInv'
    BY DEF Touch, IInv, FrozenInv, BindingInv, BuildIsFrozen, PublishedInv
  <2>4. QED
    BY <2>2, <2>3 DEF FileInv
<1>4. ASSUME NEW q \in Process PROVE ProcInv(q)'
  <2>1. ProcInv(q)
    BY Assemble
  <2>2. LockInv(q)' /\ ValueInv(q)'
    BY <2>1 DEF Touch, ProcInv, LockInv, ValueInv
  <2>3. BuildInv(q)'
    BY <2>1, <1>2 DEF Touch, ProcInv, BuildInv, Binding, Later
  <2>4. ASSUME NEW n \in Output, Later(output, n) PROVE Later(output, n)'
    BY <1>2, <2>4, BuildAssumption DEF Touch, Later, Output
  <2>5. ASSUME NEW m \in Output, m.touched <= output.touched PROVE m.touched <= output'.touched
    BY <1>2, <2>5, BuildAssumption DEF Output
  <2>6. proc[q].pc \in Packing => Later(output, proc[q].native[1])'
    BY <2>1, <2>4, Remembers DEF Touch, ProcInv, PackInv
  <2>7. proc[q].pc \in {"manifest", "countersign", "recheck"} => ProductsOf(q)'
    <3>1. proc[q].pc \in {"manifest", "countersign", "recheck"} => proc[q].products[1] \in Output
      BY Remembers DEF Packing
    <3>2. QED
      BY <2>1, <2>5, <3>1 DEF Touch, ProcInv, PackInv, ProductsOf, Later
  <2>8. PackInv(q)'
    BY <2>1, <2>6, <2>7 DEF Touch, ProcInv, PackInv, Binding, Manifest
  <2>9. QED
    BY <2>2, <2>3, <2>8 DEF ProcInv
<1>5. QED
  BY <1>1, <1>3, <1>4, Assemble

\* Once something was put back nothing is said any more of what came first.
LEMMA UndoStep == ASSUME IInv, Undo PROVE IInv'
<1>1. TypeInv'
  BY EnvironmentTypes
<1>2. undone' # 0
  BY BuildAssumption DEF Undo, IInv, TypeInv
<1>3. output'.from = output.from /\ output'.id = output.id /\ output'.whole = output.whole
  BY DEF Undo, IInv, TypeInv, Output
<1>4. FileInv'
  <2>1. OutputInv'
    BY <1>2, <1>3 DEF Undo, IInv, OutputInv
  <2>2. FrozenInv' /\ BindingInv' /\ BuildIsFrozen' /\ PublishedInv'
    BY <1>2 DEF Undo, IInv, FrozenInv, BindingInv, BuildIsFrozen, PublishedInv
  <2>3. QED
    BY <2>1, <2>2 DEF FileInv
<1>5. ASSUME NEW q \in Process PROVE ProcInv(q)'
  <2>1. ProcInv(q)
    BY Assemble
  <2>2. LockInv(q)' /\ ValueInv(q)'
    BY <1>2, <2>1 DEF Undo, ProcInv, LockInv, ValueInv
  <2>3. BuildInv(q)'
    BY <1>2, <1>3, <2>1 DEF Undo, ProcInv, BuildInv, Binding
  <2>4. ASSUME NEW n, Later(output, n) PROVE Later(output, n)'
    BY <1>2, <1>3, <2>4 DEF Later
  <2>5. ProductsOf(q) => ProductsOf(q)'
    BY <1>2 DEF Undo, ProductsOf, Later
  <2>6. proc[q].pc \in Packing => Later(output, proc[q].native[1])'
    BY <2>1, <2>4 DEF Undo, ProcInv, PackInv
  <2>7. PackInv(q)'
    BY <1>2, <2>1, <2>5, <2>6 DEF Undo, ProcInv, PackInv, Binding, Manifest
  <2>8. QED
    BY <2>2, <2>3, <2>7 DEF ProcInv
<1>6. QED
  BY <1>1, <1>4, <1>5, Assemble

\* Whatever becomes the signed image, nobody has read it yet.
LEMMA SignStep == ASSUME IInv, Sign PROVE IInv'
<1>1. TypeInv'
  BY EnvironmentTypes
<1>2. Grows
  <2>1. AtMost(inputs, inputs')
    BY AtMostOrder DEF Sign, IInv, TypeInv
  <2>2. QED
    BY <2>1 DEF Sign, Grows, files
<1>3. FileInv'
  BY <1>1, <1>2, FilesKept DEF Sign, files
<1>4. ASSUME NEW q \in Process PROVE ProcInv(q)'
  <2>1. UNCHANGED <<lock, binding, output, receipt, manifest, countersigned>>
    BY DEF Sign, files
  <2>2. proc'[q] = proc[q]
    BY DEF Sign
  <2>3. QED
    BY <1>1, <1>2, <2>1, <2>2, Bystander
<1>5. QED
  BY <1>1, <1>3, <1>4, Assemble

-----------------------------------------------------------------------------
(* Steps before the lock *)

\* A step of p outside the build directory disturbs nobody else.
LEMMA Aside ==
    ASSUME IInv, TypeInv', NEW p \in Process,
           UNCHANGED <<inputs, snapshot, undone, binding, output, receipt, manifest, countersigned>>,
           frozen # <<>> => frozen' = frozen,
           \A q \in Process : q # p => proc'[q] = proc[q],
           \/ lock' = lock
           \/ lock = NoProcess
           \/ lock = p
    PROVE  \A q \in Process : q # p => ProcInv(q)'
<1> SUFFICES ASSUME NEW q \in Process, q # p PROVE ProcInv(q)'
  OBVIOUS
<1>1. Grows
  BY AtMostOrder DEF Grows, IInv, TypeInv
<1>2. proc[q].pc \notin Locked \/ lock' = lock
  BY OneInside
<1>3. QED
  BY <1>1, <1>2, Bystander

\* Steps that only change a process, the lock and perhaps leave a stray file.
LEMMA FilesAside ==
    ASSUME IInv, TypeInv', stray => stray',
           UNCHANGED <<inputs, snapshot, undone, frozen, binding, output, receipt, manifest,
                       countersigned, artifact>>
    PROVE  FileInv'
<1>1. Grows
  BY AtMostOrder DEF Grows, IInv, TypeInv
<1>2. QED
  BY <1>1, FilesKept

\* freeze reads the inputs as they are.
LEMMA ReadInputsStep == ASSUME IInv, NEW p \in Process, ReadInputs(p) PROVE IInv'
<1> DEFINE m == [proc[p] EXCEPT !.pc = "write", !.cmd = "freeze", !.value = <<inputs>>]
<1>1. m \in Memory
  <2>1. proc[p] \in Memory /\ inputs \in Input
    BY DEF IInv, TypeInv
  <2>2. <<inputs>> \in Optional(Input)
    BY <2>1, Written
  <2>3. QED
    BY <2>1, <2>2, MemoryUpdates, Empty
<1>2. proc' = [proc EXCEPT ![p] = m]
  BY DEF ReadInputs
<1>3. TypeInv'
  BY <1>1, <1>2 DEF IInv, TypeInv, ReadInputs, files
<1>4. proc'[p].pc = "write" /\ proc'[p].value = <<inputs>>
  BY <1>2 DEF IInv, TypeInv, Memory
<1>5. ProcInv(p)'
  <2>1. AtMost(inputs, inputs)
    BY AtMostOrder DEF IInv, TypeInv
  <2>3. ValueInv(p)'
    <3>1. proc'[p].value # <<>> /\ proc'[p].pc \notin Validated
      BY <1>4 DEF Locked, Validated, Bound, Packing
    <3>2. AtMost(proc'[p].value[1], inputs')
      <4>1. inputs' = inputs
        BY DEF ReadInputs
      <4>2. proc'[p].value[1] = inputs
        BY <1>4
      <4>3. QED
        BY <2>1, <4>1, <4>2
    <3>3. QED
      BY <3>1, <3>2 DEF ValueInv
  <2>4. QED
    BY <1>4, <2>3 DEF ProcInv, LockInv, BuildInv, PackInv, Locked, Bound, Packing
<1>6. \A q \in Process : q # p => proc'[q] = proc[q]
  BY <1>2 DEF IInv, TypeInv
<1>7. \A q \in Process : q # p => ProcInv(q)'
  BY <1>3, <1>6, Aside DEF ReadInputs, files
<1>8. FileInv'
  BY <1>3, FilesAside DEF ReadInputs, files
<1>9. QED
  BY <1>3, <1>5, <1>7, <1>8, Assemble

\* build and package read inputs that are the frozen and the collected ones.
LEMMA ValidateStep ==
    ASSUME IInv, NEW p \in Process, NEW cmd \in {"build", "package"}, NEW c \in CoreRun,
           Validate(p, cmd, c)
    PROVE  IInv'
<1> DEFINE m == [proc[p] EXCEPT !.pc = "lock", !.cmd = cmd, !.run = <<c>>, !.value = <<inputs>>]
<1>1. m \in Memory
  <2>1. proc[p] \in Memory /\ inputs \in Input
    BY DEF IInv, TypeInv
  <2>2. <<inputs>> \in Optional(Input) /\ <<c>> \in Optional(CoreRun)
    BY <2>1, Written
  <2>3. QED
    BY <2>1, <2>2, MemoryUpdates, Empty
<1>2. proc' = [proc EXCEPT ![p] = m]
  BY DEF Validate
<1>3. TypeInv'
  BY <1>1, <1>2 DEF IInv, TypeInv, Validate, files
<1>4. proc'[p].pc = "lock" /\ proc'[p].value = <<inputs>> /\ proc'[p].run = <<c>>
  BY <1>2 DEF IInv, TypeInv, Memory
<1>5. ProcInv(p)'
  <2>2. frozen = <<inputs>> /\ snapshot[c] = <<inputs>>
    BY DEF Validate, ValidInput, Collected
  <2>3. ValueInv(p)'
    <3>1. proc'[p].value # <<>> /\ proc'[p].run # <<>> /\ proc'[p].pc # "write"
      BY <1>4
    <3>2. frozen' = proc'[p].value /\ snapshot'[proc'[p].run[1]] = proc'[p].value
      <4>1. UNCHANGED <<frozen, snapshot>>
        BY DEF Validate, files
      <4>2. proc'[p].run[1] = c
        BY <1>4
      <4>3. QED
        BY <1>4, <2>2, <4>1, <4>2
    <3>3. QED
      BY <3>1, <3>2 DEF ValueInv
  <2>4. QED
    BY <1>4, <2>3 DEF ProcInv, LockInv, BuildInv, PackInv, Locked, Bound, Packing
<1>6. \A q \in Process : q # p => proc'[q] = proc[q]
  BY <1>2 DEF IInv, TypeInv
<1>7. \A q \in Process : q # p => ProcInv(q)'
  BY <1>3, <1>6, Aside DEF Validate, files
<1>8. FileInv'
  BY <1>3, FilesAside DEF Validate, files
<1>9. QED
  BY <1>3, <1>5, <1>7, <1>8, Assemble

\* The lock is taken when nobody is inside.
LEMMA LockStep == ASSUME IInv, NEW p \in Process, Lock(p) PROVE IInv'
<1> DEFINE l == IF proc[p].cmd = "build" THEN "build" ELSE "check"
<1>1. /\ proc' \in [Process -> Memory] /\ proc'[p] = [proc[p] EXCEPT !.pc = l]
      /\ \A q \in Process : q # p => proc'[q] = proc[q]
  BY GotoTypes DEF Lock, IInv
<1>2. TypeInv'
  BY <1>1 DEF IInv, TypeInv, Lock, files
<1>3. proc'[p].pc = l /\ proc'[p].value = proc[p].value /\ proc'[p].run = proc[p].run
  BY <1>1 DEF IInv, TypeInv, Memory
<1>4. ProcInv(p)'
  <2>1. ValueInv(p)
    BY DEF IInv
  <2>2. QED
    BY <1>3, <2>1
    DEF Lock, files, ProcInv, LockInv, ValueInv, BuildInv, PackInv, Locked, Validated, Bound, Packing
<1>5. \A q \in Process : q # p => ProcInv(q)'
  BY <1>1, <1>2, Aside DEF Lock, files
<1>6. FileInv'
  BY <1>2, FilesAside DEF Lock, files
<1>7. QED
  BY <1>2, <1>4, <1>5, <1>6, Assemble

\* Whoever ends leaves the files as they are and releases its lock.
LEMMA LeaveStep ==
    ASSUME IInv, NEW p \in Process, Leave(p), stray' \in BOOLEAN, stray => stray',
           UNCHANGED <<inputs, snapshot, undone, signed, frozen, binding, output, receipt, manifest,
                       countersigned, artifact>>
    PROVE  IInv'
<1>1. /\ proc' \in [Process -> Memory] /\ lock' \in Process \cup {NoProcess}
      /\ proc'[p] = Idle /\ \A q \in Process : q # p => proc'[q] = proc[q]
  BY LeaveTypes DEF IInv
<1>2. TypeInv'
  BY <1>1 DEF IInv, TypeInv
<1>3. \A q \in Process : q # p => ProcInv(q)'
  BY <1>1, <1>2, Aside DEF Leave
<1>4. FileInv'
  BY <1>2, FilesAside
<1>5. QED
  BY <1>1, <1>2, <1>3, <1>4, IdleInv, Assemble

\* Errors, kills and a build found finished.
LEMMA EndStep ==
    ASSUME IInv, NEW p \in Process, Stop(p) \/ Rebuilt(p)
    PROVE  IInv'
<1>1. stray \in BOOLEAN
  BY DEF IInv, TypeInv
<1>2. Leave(p) /\ stray' \in BOOLEAN /\ (stray => stray')
  <2>1. CASE Stop(p)
    <3>1. stray' = stray \/ stray' = TRUE
      BY <2>1 DEF Stop
    <3>2. Leave(p)
      BY <2>1 DEF Stop
    <3>3. QED
      BY <1>1, <3>1, <3>2
  <2>2. CASE Rebuilt(p)
    BY <1>1, <2>2 DEF Rebuilt, files
  <2>3. QED
    BY <2>1, <2>2
<1>3. UNCHANGED <<inputs, snapshot, undone, signed, frozen, binding, output, receipt, manifest,
                  countersigned, artifact>>
  BY DEF Stop, Rebuilt, files
<1>4. QED
  BY <1>2, <1>3, LeaveStep

\* The frozen file is written once, with inputs of the past.
LEMMA WriteFrozenStep == ASSUME IInv, NEW p \in Process, WriteFrozen(p) PROVE IInv'
<1>1. /\ proc' \in [Process -> Memory] /\ lock' \in Process \cup {NoProcess}
      /\ proc'[p] = Idle /\ \A q \in Process : q # p => proc'[q] = proc[q]
  BY LeaveTypes DEF IInv, WriteFrozen
<1>2. proc[p].value[1] \in Input /\ proc[p].value = <<proc[p].value[1]>>
  BY Remembers DEF WriteFrozen
<1>3. frozen' = <<proc[p].value[1]>> /\ (frozen # <<>> => frozen' = frozen)
  BY <1>2 DEF WriteFrozen, WriteOnce
<1>4. TypeInv'
  <2>1. frozen' \in Optional(Input)
    BY <1>2, <1>3, Written
  <2>2. QED
    BY <1>1, <2>1 DEF IInv, TypeInv, WriteFrozen
<1>5. \A q \in Process : q # p => ProcInv(q)'
  BY <1>1, <1>3, <1>4, Aside DEF WriteFrozen, Leave
<1>6. FileInv'
  <2>1. FrozenInv'
    <3>1. undone = 0 => AtMost(proc[p].value[1], inputs)
      BY DEF WriteFrozen, IInv, ValueInv
    <3>2. QED
      BY <1>3, <3>1 DEF FrozenInv, WriteFrozen
  <2>2. BindingInv' /\ OutputInv'
    BY <1>3 DEF WriteFrozen, IInv, BindingInv, OutputInv
  <2>3. BuildIsFrozen' /\ PublishedInv'
    BY <1>3 DEF WriteFrozen, IInv, BuildIsFrozen, PublishedInv
  <2>4. QED
    BY <2>1, <2>2, <2>3 DEF FileInv
<1>7. QED
  BY <1>1, <1>4, <1>5, <1>6, IdleInv, Assemble

-----------------------------------------------------------------------------
(* Steps of a build *)

\* While p is inside the lock and the inputs are left alone, what p writes to
\* the build directory disturbs nobody.
LEMMA Inside ==
    ASSUME IInv, TypeInv', NEW p \in Process, proc[p].pc \in Locked,
           UNCHANGED <<inputs, snapshot, undone, frozen>>,
           \A q \in Process : q # p => proc'[q] = proc[q]
    PROVE  \A q \in Process : q # p => ProcInv(q)'
<1> SUFFICES ASSUME NEW q \in Process, q # p PROVE ProcInv(q)'
  OBVIOUS
<1>1. Grows
  BY AtMostOrder DEF Grows, IInv, TypeInv
<1>2. proc[q].pc \notin Locked
  BY OneInside DEF IInv, LockInv
<1>3. QED
  BY <1>1, <1>2, Bystander

\* The directory is bound to a build of the frozen inputs, and only when it is
\* empty or bound to that build already.
LEMMA AdoptStep == ASSUME IInv, NEW p \in Process, Adopt(p) PROVE IInv'
<1>0. proc[p].pc = "build"
  BY DEF Adopt
<1>1. /\ proc' \in [Process -> Memory] /\ proc'[p] = [proc[p] EXCEPT !.pc = "configure"]
      /\ \A q \in Process : q # p => proc'[q] = proc[q]
  BY GotoTypes DEF Adopt, IInv
<1>2. Binding(p) \in BindingSet /\ proc[p].value = <<proc[p].value[1]>>
  BY <1>0, Remembers DEF Validated, Locked
<1>3. TypeInv'
  <2>1. binding' \in Optional(BindingSet)
    BY <1>2, Written DEF Adopt
  <2>2. QED
    BY <1>1, <2>1 DEF IInv, TypeInv, Adopt
<1>4. proc'[p].pc = "configure" /\ proc'[p].value = proc[p].value /\ proc'[p].run = proc[p].run
  BY <1>1 DEF IInv, TypeInv, Memory
<1>5. /\ proc[p].value # <<>> /\ frozen = proc[p].value /\ proc[p].run # <<>>
      /\ snapshot[proc[p].run[1]] = proc[p].value /\ lock = p
  BY <1>0 DEF IInv, ValueInv, LockInv, Validated, Locked
<1>6. ProcInv(p)'
  <2>1. LockInv(p)' /\ ValueInv(p)'
    BY <1>4, <1>5 DEF Adopt, LockInv, ValueInv
  <2>2. BuildInv(p)'
    BY <1>4 DEF Adopt, BuildInv, Binding
  <2>3. PackInv(p)'
    BY <1>4 DEF PackInv, Packing
  <2>4. QED
    BY <2>1, <2>2, <2>3 DEF ProcInv
<1>7. \A q \in Process : q # p => ProcInv(q)'
  BY <1>0, <1>1, <1>3, Inside DEF Adopt, Locked
<1>8. FileInv'
  <2>1. binding' = <<Binding(p)>> /\ Binding(p).value = proc[p].value[1] /\ Binding(p).id = proc[p].run[1]
    BY DEF Adopt, Binding
  <2>2. BindingInv'
    BY <1>2, <1>5, <2>1 DEF Adopt, BindingInv
  <2>3. OutputInv'
    <3>1. CASE binding = <<>>
      BY <2>1, <3>1 DEF Adopt, IInv, OutputInv
    <3>2. CASE binding # <<>>
      BY <2>1, <3>2 DEF Adopt, WriteOnce, IInv, OutputInv
    <3>3. QED
      BY <3>1, <3>2
  <2>4. FrozenInv' /\ BuildIsFrozen'
    BY DEF Adopt, IInv, FrozenInv, BuildIsFrozen
  <2>5. PublishedInv'
    BY DEF Adopt, IInv, PublishedInv
  <2>6. QED
    BY <2>2, <2>3, <2>4, <2>5 DEF FileInv
<1>9. QED
  BY <1>3, <1>6, <1>7, <1>8, Assemble

\* What idf.py compiles was frozen or is newer.
LEMMA CompiledFiles ==
    ASSUME IInv, NEW p \in Process, proc[p].pc \in Bound, NEW w \in BOOLEAN, Compiled(p, w),
           UNCHANGED <<inputs, snapshot, undone, frozen, stray, binding, receipt, manifest,
                       countersigned, artifact>>
    PROVE  FileInv' /\ output' \in Output /\ output'.from # {}
<1>1. output \in Output /\ inputs \in Input
  BY DEF IInv, TypeInv
<1>2. proc[p].run[1] \in CoreRun
  BY Remembers DEF Validated, Locked
<1>3. /\ output'.from = output.from \cup {inputs} /\ output'.id = {proc[p].run[1]}
      /\ output'.whole = w /\ output' \in Output
  BY <1>1, <1>2 DEF Compiled, Output
<1>4. binding = <<Binding(p)>> /\ Binding(p).value = proc[p].value[1]
  BY DEF IInv, BuildInv, Binding
<1>5. undone = 0 => AtMost(proc[p].value[1], inputs)
  BY DEF IInv, ValueInv, FrozenInv, Validated, Locked
<1>6. AtMost(inputs, inputs)
  BY <1>1, AtMostOrder
<1>7. OutputInv'
  <2>1. binding # <<>> /\ binding[1].value = proc[p].value[1]
    BY <1>4
  <2>2. undone = 0 => \A i \in output.from : AtMost(binding[1].value, i) /\ AtMost(i, inputs)
    BY <2>1 DEF IInv, OutputInv
  <2>3. undone = 0 => \A i \in output'.from : AtMost(binding[1].value, i) /\ AtMost(i, inputs)
    BY <1>3, <1>5, <1>6, <2>1, <2>2
  <2>4. QED
    BY <2>1, <2>3 DEF OutputInv
<1>8. FrozenInv' /\ BindingInv' /\ BuildIsFrozen'
  BY DEF IInv, FrozenInv, BindingInv, BuildIsFrozen
<1>9. PublishedInv'
  BY DEF IInv, PublishedInv
<1>10. QED
  BY <1>3, <1>7, <1>8, <1>9 DEF FileInv

\* Configuring and compiling, when the process goes on.
LEMMA CompileStep == ASSUME IInv, NEW p \in Process, Configure(p) \/ Compile(p) PROVE IInv'
<1> DEFINE l == IF proc[p].pc = "configure" THEN "compile" ELSE "facts"
<1>0. proc[p].pc \in {"configure", "compile"} /\ Goto(p, l) /\ Compiled(p, proc[p].pc # "configure")
  <2>1. CASE Configure(p)
    BY <2>1 DEF Configure
  <2>2. CASE Compile(p)
    BY <2>2 DEF Compile
  <2>3. QED
    BY <2>1, <2>2
<1>1. UNCHANGED <<inputs, snapshot, undone, signed, lock, frozen, stray, binding, receipt, manifest,
                  countersigned, artifact>>
  BY DEF Configure, Compile
<1>2. /\ proc' \in [Process -> Memory] /\ proc'[p] = [proc[p] EXCEPT !.pc = l]
      /\ \A q \in Process : q # p => proc'[q] = proc[q]
  BY <1>0, GotoTypes DEF IInv
<1>3. FileInv' /\ output' \in Output /\ output'.from # {}
  BY <1>0, <1>1, CompiledFiles DEF Bound
<1>4. TypeInv'
  BY <1>1, <1>2, <1>3 DEF IInv, TypeInv
<1>5. proc'[p].pc = l /\ proc'[p].value = proc[p].value /\ proc'[p].run = proc[p].run
  BY <1>2 DEF IInv, TypeInv, Memory
<1>6. LockInv(p) /\ ValueInv(p) /\ BuildInv(p)
  BY DEF IInv
<1>7. ProcInv(p)'
  <2>1. LockInv(p)' /\ ValueInv(p)'
    BY <1>0, <1>1, <1>5, <1>6 DEF LockInv, ValueInv, Validated, Locked, Bound
  <2>2. BuildInv(p)'
    BY <1>0, <1>1, <1>3, <1>5, <1>6 DEF BuildInv, Binding, Bound
  <2>3. PackInv(p)'
    BY <1>5 DEF PackInv, Packing
  <2>4. QED
    BY <2>1, <2>2, <2>3 DEF ProcInv
<1>8. \A q \in Process : q # p => ProcInv(q)'
  BY <1>0, <1>1, <1>2, <1>4, Inside DEF Locked, Bound
<1>9. QED
  BY <1>3, <1>4, <1>7, <1>8, Assemble

\* A configuration that found changed components: the process ends.
LEMMA ConfigureFailsStep == ASSUME IInv, NEW p \in Process, ConfigureFails(p) PROVE IInv'
<1>1. /\ proc' \in [Process -> Memory] /\ lock' \in Process \cup {NoProcess}
      /\ proc'[p] = Idle /\ \A q \in Process : q # p => proc'[q] = proc[q]
  BY LeaveTypes DEF IInv, ConfigureFails
<1>2. FileInv' /\ output' \in Output
  BY CompiledFiles DEF ConfigureFails, Bound
<1>3. TypeInv'
  BY <1>1, <1>2 DEF IInv, TypeInv, ConfigureFails
<1>4. \A q \in Process : q # p => ProcInv(q)'
  BY <1>1, <1>3, Inside DEF ConfigureFails, Locked, Bound
<1>5. QED
  BY <1>1, <1>2, <1>3, <1>4, IdleInv, Assemble

\* The products are described while the inputs are what they were at the
\* freeze: whatever was compiled in between was compiled from them.
LEMMA FactsStep == ASSUME IInv, NEW p \in Process, Facts(p) PROVE IInv'
<1>0. proc[p].pc = "facts" /\ proc[p].value = <<inputs>> /\ output.id = {proc[p].run[1]}
  BY DEF Facts, BuiltFacts, Identified
<1> DEFINE m == [proc[p] EXCEPT !.pc = "receipt", !.native = <<output>>]
<1>1. m \in Memory
  <2>1. proc[p] \in Memory /\ output \in Output
    BY DEF IInv, TypeInv
  <2>2. <<output>> \in Optional(Output)
    BY <2>1, Written
  <2>3. QED
    BY <2>1, <2>2, MemoryUpdates, Empty
<1>2. proc' = [proc EXCEPT ![p] = m]
  BY DEF Facts
<1>3. TypeInv'
  BY <1>1, <1>2 DEF IInv, TypeInv, Facts, files
<1>4. /\ proc'[p].pc = "receipt" /\ proc'[p].value = proc[p].value /\ proc'[p].run = proc[p].run
      /\ proc'[p].native = <<output>>
  BY <1>2 DEF IInv, TypeInv, Memory
<1>5. undone = 0 => output.from = {inputs}
  <2> SUFFICES ASSUME undone = 0 PROVE output.from = {inputs}
    OBVIOUS
  <2>1. inputs \in Input /\ output.from \subseteq Input
    BY DEF IInv, TypeInv, Output
  <2>2. binding # <<>> /\ binding[1].value = inputs /\ output.from # {}
    BY <1>0 DEF IInv, BuildInv, Binding, Bound
  <2>3. \A i \in output.from : AtMost(inputs, i) /\ AtMost(i, inputs)
    BY <2>2 DEF IInv, OutputInv
  <2>4. \A i \in output.from : i = inputs
    BY <2>1, <2>3, AtMostOrder
  <2>5. QED
    BY <2>2, <2>4
<1>6. LockInv(p) /\ ValueInv(p) /\ BuildInv(p)
  BY DEF IInv
<1>7. ProcInv(p)'
  <2>1. LockInv(p)' /\ ValueInv(p)'
    BY <1>0, <1>4, <1>6 DEF Facts, files, LockInv, ValueInv, Validated, Locked, Bound
  <2>2. binding = <<Binding(p)>> /\ output.from # {}
    BY <1>0, <1>6 DEF BuildInv, Bound
  <2>3. proc'[p].native # <<>> /\ (undone = 0 => proc'[p].native[1].from = {proc[p].value[1]})
    BY <1>0, <1>4, <1>5
  <2>4. proc'[p].native[1].id = {proc[p].run[1]}
    BY <1>0, <1>4
  <2>5. BuildInv(p)'
    BY <1>4, <2>2, <2>3, <2>4 DEF Facts, files, BuildInv, Binding
  <2>6. PackInv(p)'
    BY <1>4 DEF PackInv, Packing
  <2>7. QED
    BY <2>1, <2>5, <2>6 DEF ProcInv
<1>8. \A q \in Process : q # p => proc'[q] = proc[q]
  BY <1>2 DEF IInv, TypeInv
<1>9. \A q \in Process : q # p => ProcInv(q)'
  BY <1>3, <1>8, Aside DEF Facts, files
<1>10. FileInv'
  BY <1>3, FilesAside DEF Facts, files
<1>11. QED
  BY <1>3, <1>7, <1>9, <1>10, Assemble

\* The receipt is written once, for those products.
LEMMA WriteReceiptStep == ASSUME IInv, NEW p \in Process, WriteReceipt(p) PROVE IInv'
<1> DEFINE r == [binding |-> Binding(p), native |-> proc[p].native[1]]
<1>0. proc[p].pc = "receipt" /\ receipt' = <<r>> /\ (receipt # <<>> => receipt' = receipt)
  BY DEF WriteReceipt, WriteOnce
<1>1. /\ proc' \in [Process -> Memory] /\ lock' \in Process \cup {NoProcess}
      /\ proc'[p] = Idle /\ \A q \in Process : q # p => proc'[q] = proc[q]
  BY LeaveTypes DEF IInv, WriteReceipt
<1>2. TypeInv'
  <2>1. Binding(p) \in BindingSet /\ proc[p].native[1] \in Output
    BY <1>0, Remembers DEF Validated, Locked, Bound
  <2>2. r \in ReceiptSet
    BY <2>1 DEF ReceiptSet
  <2>3. receipt' \in Optional(ReceiptSet)
    BY <1>0, <2>2, Written
  <2>4. QED
    BY <1>1, <2>3 DEF IInv, TypeInv, WriteReceipt
<1>3. \A q \in Process : q # p => ProcInv(q)'
  BY <1>0, <1>1, <1>2, Inside DEF WriteReceipt, Locked, Bound
<1>4. FileInv'
  <2>1. /\ binding = <<Binding(p)>> /\ frozen = proc[p].value
        /\ snapshot[proc[p].run[1]] = proc[p].value /\ proc[p].value = <<proc[p].value[1]>>
    BY <1>0, Remembers DEF IInv, BuildInv, ValueInv, Validated, Locked, Bound
  <2>2. (undone = 0 => r.native.from = {proc[p].value[1]}) /\ r.native.id = {proc[p].run[1]}
    BY <1>0 DEF IInv, BuildInv
  <2>3. BuildIsFrozen'
    <3>1. UNCHANGED <<binding, frozen, snapshot, undone>>
      BY DEF WriteReceipt
    <3>2. receipt'[1] = r /\ r.binding = Binding(p)
      BY <1>0
    <3>3. Binding(p).value = proc[p].value[1] /\ Binding(p).id = proc[p].run[1]
      BY DEF Binding
    <3> HIDE DEF r
    <3>4. QED
      BY <2>1, <2>2, <3>1, <3>2, <3>3 DEF BuildIsFrozen
  <2>4. PublishedInv'
    BY <1>0 DEF WriteReceipt, IInv, PublishedInv
  <2>5. FrozenInv' /\ BindingInv' /\ OutputInv'
    BY DEF WriteReceipt, IInv, FrozenInv, BindingInv, OutputInv
  <2>6. QED
    BY <2>3, <2>4, <2>5 DEF FileInv
<1>5. QED
  BY <1>1, <1>2, <1>3, <1>4, IdleInv, Assemble

-----------------------------------------------------------------------------
(* Steps of a package *)

\* The products are those of the receipt and the image is signed for them.
LEMMA CheckStep == ASSUME IInv, NEW p \in Process, Check(p) PROVE IInv'
<1>0. /\ proc[p].pc = "check" /\ receipt = <<[binding |-> Binding(p), native |-> output]>>
      /\ signed = <<output>>
  BY DEF Check, SignatureOf
<1> DEFINE m == [proc[p] EXCEPT !.pc = "read", !.native = <<output>>, !.seen = signed]
<1>1. m \in Memory
  <2>1. proc[p] \in Memory /\ output \in Output
    BY DEF IInv, TypeInv
  <2>2. <<output>> \in Optional(Output) /\ signed \in Optional(Output)
    BY <1>0, <2>1, Written
  <2>3. QED
    BY <2>1, <2>2, MemoryUpdates, Empty
<1>2. proc' = [proc EXCEPT ![p] = m]
  BY DEF Check
<1>3. TypeInv'
  BY <1>1, <1>2 DEF IInv, TypeInv, Check, files
<1>4. /\ proc'[p].pc = "read" /\ proc'[p].value = proc[p].value /\ proc'[p].run = proc[p].run
      /\ proc'[p].native = <<output>> /\ proc'[p].seen = <<output>>
  BY <1>0, <1>2 DEF IInv, TypeInv, Memory
<1>5. ProcInv(p)'
  <2>1. LockInv(p) /\ ValueInv(p)
    BY DEF IInv
  <2>2. LockInv(p)' /\ ValueInv(p)'
    BY <1>0, <1>4, <2>1 DEF Check, files, LockInv, ValueInv, Validated, Locked, Packing
  <2>3. Later(output, output)
    BY BuildAssumption DEF Later, IInv, TypeInv, Output
  <2>4. proc'[p].native # <<>> /\ proc'[p].native[1] = output
    BY <1>4
  <2>5. Binding(p)' = Binding(p)
    BY <1>4 DEF Binding
  <2>6. UNCHANGED <<receipt, undone, output>>
    BY DEF Check, files
  <2>7. Later(output, proc[p].native[1])'
    BY <2>3, <2>4, <2>6 DEF Later
  <2>8. PackInv(p)'
    BY <1>0, <1>4, <2>4, <2>5, <2>6, <2>7 DEF PackInv
  <2>9. BuildInv(p)'
    BY <1>4 DEF BuildInv, Bound
  <2>10. QED
    BY <2>2, <2>8, <2>9 DEF ProcInv
<1>6. \A q \in Process : q # p => proc'[q] = proc[q]
  BY <1>2 DEF IInv, TypeInv
<1>7. \A q \in Process : q # p => ProcInv(q)'
  BY <1>3, <1>6, Aside DEF Check, files
<1>8. FileInv'
  BY <1>3, FilesAside DEF Check, files
<1>9. QED
  BY <1>3, <1>5, <1>7, <1>8, Assemble

\* The signed image that is read may be another one than the one verified; the
\* products may have been touched.
LEMMA ReadFilesStep == ASSUME IInv, NEW p \in Process, ReadFiles(p) PROVE IInv'
<1>0. proc[p].pc = "read"
  BY DEF ReadFiles
<1> DEFINE m == [proc[p] EXCEPT !.pc = "manifest", !.image = signed, !.products = <<output>>]
<1>1. m \in Memory
  <2>1. proc[p] \in Memory /\ signed \in Optional(Output) /\ output \in Output
    BY DEF IInv, TypeInv
  <2>2. <<output>> \in Optional(Output)
    BY <2>1, Written
  <2>3. QED
    BY <2>1, <2>2, MemoryUpdates, Empty
<1>2. proc' = [proc EXCEPT ![p] = m]
  BY DEF ReadFiles
<1>3. TypeInv'
  BY <1>1, <1>2 DEF IInv, TypeInv, ReadFiles, files
<1>4. /\ proc'[p].pc = "manifest" /\ proc'[p].value = proc[p].value /\ proc'[p].run = proc[p].run
      /\ proc'[p].native = proc[p].native /\ proc'[p].seen = proc[p].seen
      /\ proc'[p].image = signed /\ proc'[p].products = <<output>>
  BY <1>2 DEF IInv, TypeInv, Memory
<1>5. ProcInv(p)'
  <2>1. LockInv(p) /\ ValueInv(p) /\ PackInv(p) /\ signed # <<>>
    BY DEF IInv, TypeInv
  <2>2. LockInv(p)' /\ ValueInv(p)'
    BY <1>0, <1>4, <2>1 DEF ReadFiles, files, LockInv, ValueInv, Validated, Locked, Packing
  <2>3. UNCHANGED <<receipt, undone, output>>
    BY DEF ReadFiles, files
  <2>4. Later(output, proc[p].native[1]) /\ Later(output, proc[p].native[1])'
    BY <1>0, <1>4, <2>1, <2>3 DEF PackInv, Packing, Later
  <2>5. ProductsOf(p)'
    <3>1. output.touched <= output.touched
      BY BuildAssumption DEF IInv, TypeInv, Output
    <3>2. proc'[p].products[1] = output
      BY <1>4
    <3>3. QED
      BY <1>4, <2>3, <2>4, <3>1, <3>2 DEF ProductsOf
  <2>6. PackInv(p)'
    BY <1>0, <1>4, <2>1, <2>3, <2>4, <2>5 DEF PackInv, Packing, Binding
  <2>7. BuildInv(p)'
    BY <1>4 DEF BuildInv, Bound
  <2>8. QED
    BY <2>2, <2>6, <2>7 DEF ProcInv
<1>6. \A q \in Process : q # p => proc'[q] = proc[q]
  BY <1>2 DEF IInv, TypeInv
<1>7. \A q \in Process : q # p => ProcInv(q)'
  BY <1>3, <1>6, Aside DEF ReadFiles, files
<1>8. FileInv'
  BY <1>3, FilesAside DEF ReadFiles, files
<1>9. QED
  BY <1>3, <1>5, <1>7, <1>8, Assemble

\* Going on from one packing stage to the next, a process keeps what it knows
\* of the lock and of its inputs.
LEMMA GoOn ==
    ASSUME IInv, NEW p \in Process, proc[p].pc \in Packing \ {"read"},
           NEW label \in Packing \ {"read"}, proc'[p] = [proc[p] EXCEPT !.pc = label],
           UNCHANGED <<inputs, snapshot, undone, frozen, lock, output, receipt>>
    PROVE  /\ proc'[p].pc = label /\ Binding(p)' = Binding(p) /\ Manifest(p)' = Manifest(p)
           /\ proc'[p].native = proc[p].native /\ proc'[p].seen = proc[p].seen
           /\ proc'[p].image = proc[p].image /\ proc'[p].products = proc[p].products
           /\ LockInv(p)' /\ ValueInv(p)' /\ BuildInv(p)'
           /\ (proc[p].native # <<>> /\ Later(output, proc[p].native[1]))'
           /\ (proc[p].seen = proc[p].native)'
           /\ (receipt = <<[binding |-> Binding(p), native |-> proc[p].native[1]]>>)'
           /\ (proc[p].image # <<>> /\ proc[p].products # <<>>)'
           /\ ProductsOf(p) => ProductsOf(p)'
<1>1. LockInv(p) /\ ValueInv(p) /\ PackInv(p)
  BY DEF IInv
<1>2. /\ proc'[p].pc = label /\ proc'[p].value = proc[p].value /\ proc'[p].run = proc[p].run
      /\ proc'[p].native = proc[p].native /\ proc'[p].seen = proc[p].seen
      /\ proc'[p].image = proc[p].image /\ proc'[p].products = proc[p].products
  BY DEF IInv, TypeInv, Memory, Packing
<1>3. Binding(p)' = Binding(p) /\ Manifest(p)' = Manifest(p)
  BY <1>2 DEF Binding, Manifest
<1>4. LockInv(p)' /\ ValueInv(p)'
  BY <1>1, <1>2 DEF LockInv, ValueInv, Validated, Locked, Packing
<1>5. BuildInv(p)'
  BY <1>2 DEF BuildInv, Bound, Packing
<1>6. (proc[p].native # <<>> /\ Later(output, proc[p].native[1]))' /\ (proc[p].seen = proc[p].native)'
  BY <1>1, <1>2 DEF PackInv, Later
<1>7. (receipt = <<[binding |-> Binding(p), native |-> proc[p].native[1]]>>)'
  BY <1>1, <1>2, <1>3 DEF PackInv
<1>8. ProductsOf(p) => ProductsOf(p)'
  BY <1>2 DEF ProductsOf, Later
<1>9. (proc[p].image # <<>> /\ proc[p].products # <<>>)'
  BY <1>1, <1>2 DEF PackInv
<1>10. QED
  BY <1>2, <1>3, <1>4, <1>5, <1>6, <1>7, <1>8, <1>9

\* The manifest is written once, with what the process has read.
LEMMA WriteManifestStep == ASSUME IInv, NEW p \in Process, WriteManifest(p) PROVE IInv'
<1>0. /\ proc[p].pc = "manifest" /\ manifest' = <<Manifest(p)>>
      /\ manifest # <<>> => manifest' = manifest
  BY DEF WriteManifest, WriteOnce
<1>1. manifest' \in Optional(ManifestSet)
  BY <1>0, Remembers, Written DEF Packing
<1>2. FileInv'
  <2>1. FrozenInv' /\ BindingInv' /\ OutputInv' /\ BuildIsFrozen'
    BY DEF WriteManifest, IInv, FrozenInv, BindingInv, OutputInv, BuildIsFrozen
  <2>2. PublishedInv'
    BY <1>0 DEF WriteManifest, IInv, PublishedInv
  <2>3. QED
    BY <2>1, <2>2 DEF FileInv
<1>3. CASE Leave(p)
  <2>1. /\ proc' \in [Process -> Memory] /\ lock' \in Process \cup {NoProcess}
        /\ proc'[p] = Idle /\ \A q \in Process : q # p => proc'[q] = proc[q]
    BY <1>3, LeaveTypes DEF IInv, WriteManifest
  <2>2. TypeInv'
    BY <1>1, <2>1 DEF IInv, TypeInv, WriteManifest
  <2>3. \A q \in Process : q # p => ProcInv(q)'
    BY <1>0, <2>1, <2>2, Inside DEF WriteManifest, Locked, Packing
  <2>4. QED
    BY <1>2, <2>1, <2>2, <2>3, IdleInv, Assemble
<1>4. CASE Goto(p, "countersign") /\ UNCHANGED lock
  <2>1. /\ proc' \in [Process -> Memory] /\ proc'[p] = [proc[p] EXCEPT !.pc = "countersign"]
        /\ lock' = lock /\ \A q \in Process : q # p => proc'[q] = proc[q]
    BY <1>4, GotoTypes DEF IInv, WriteManifest
  <2>2. TypeInv'
    BY <1>1, <2>1 DEF IInv, TypeInv, WriteManifest
  <2>3. \A q \in Process : q # p => ProcInv(q)'
    BY <1>0, <2>1, <2>2, Inside DEF WriteManifest, Locked, Packing
  <2>4. ProcInv(p)'
    <3>1. UNCHANGED <<inputs, snapshot, undone, frozen, lock, output, receipt>>
      BY <2>1 DEF WriteManifest
    <3>2. ProductsOf(p)
      BY <1>0 DEF IInv, PackInv
    <3>3. /\ proc'[p].pc = "countersign" /\ Manifest(p)' = Manifest(p)
          /\ LockInv(p)' /\ ValueInv(p)' /\ BuildInv(p)' /\ ProductsOf(p)'
          /\ (proc[p].native # <<>> /\ Later(output, proc[p].native[1]))'
          /\ (receipt = <<[binding |-> Binding(p), native |-> proc[p].native[1]]>>)'
          /\ (proc[p].seen = proc[p].native)' /\ (proc[p].image # <<>> /\ proc[p].products # <<>>)'
      BY <1>0, <2>1, <3>1, <3>2, GoOn DEF Packing
    <3>4. PackInv(p)'
      BY <1>0, <3>3 DEF PackInv
    <3>5. QED
      BY <3>3, <3>4 DEF ProcInv
  <2>5. QED
    BY <1>2, <2>2, <2>3, <2>4, Assemble
<1>5. QED
  BY <1>3, <1>4 DEF WriteManifest

\* The manifest is countersigned, or was before.
LEMMA CountersignStep == ASSUME IInv, NEW p \in Process, Countersign(p) PROVE IInv'
<1>0. proc[p].pc = "countersign" /\ countersigned' = manifest /\ manifest = <<Manifest(p)>>
  BY DEF Countersign, IInv, PackInv
<1>1. countersigned # <<>> => countersigned' = countersigned
  BY <1>0 DEF Countersign, WriteOnce
<1>2. /\ proc' \in [Process -> Memory] /\ proc'[p] = [proc[p] EXCEPT !.pc = "recheck"]
      /\ \A q \in Process : q # p => proc'[q] = proc[q]
  BY GotoTypes DEF Countersign, IInv
<1>3. TypeInv'
  BY <1>0, <1>2 DEF IInv, TypeInv, Countersign
<1>4. \A q \in Process : q # p => ProcInv(q)'
  BY <1>0, <1>2, <1>3, Inside DEF Countersign, Locked, Packing
<1>5. ProcInv(p)'
  <2>1. UNCHANGED <<inputs, snapshot, undone, frozen, lock, output, receipt, manifest>>
    BY DEF Countersign
  <2>2. ProductsOf(p)
    BY <1>0 DEF IInv, PackInv
  <2>3. /\ proc'[p].pc = "recheck" /\ Manifest(p)' = Manifest(p)
        /\ LockInv(p)' /\ ValueInv(p)' /\ BuildInv(p)' /\ ProductsOf(p)'
        /\ (proc[p].native # <<>> /\ Later(output, proc[p].native[1]))'
        /\ (receipt = <<[binding |-> Binding(p), native |-> proc[p].native[1]]>>)'
        /\ (proc[p].seen = proc[p].native)' /\ (proc[p].image # <<>> /\ proc[p].products # <<>>)'
    BY <1>0, <1>2, <2>1, <2>2, GoOn DEF Packing
  <2>4. PackInv(p)'
    BY <1>0, <2>1, <2>3 DEF PackInv
  <2>5. QED
    BY <2>3, <2>4 DEF ProcInv
<1>6. FileInv'
  <2>1. FrozenInv' /\ BindingInv' /\ OutputInv' /\ BuildIsFrozen'
    BY DEF Countersign, IInv, FrozenInv, BindingInv, OutputInv, BuildIsFrozen
  <2>2. PublishedInv'
    BY <1>0, <1>1 DEF Countersign, IInv, PublishedInv
  <2>3. QED
    BY <2>1, <2>2 DEF FileInv
<1>7. QED
  BY <1>3, <1>4, <1>5, <1>6, Assemble

\* The products are still those of the receipt, so the products that were read
\* are these.
LEMMA RecheckStep == ASSUME IInv, NEW p \in Process, Recheck(p) PROVE IInv'
<1>0. proc[p].pc = "recheck" /\ proc[p].native = <<output>>
  BY DEF Recheck
<1>1. PackInv(p)
  BY DEF IInv
<1>2. /\ proc' \in [Process -> Memory] /\ proc'[p] = [proc[p] EXCEPT !.pc = "publish"]
      /\ \A q \in Process : q # p => proc'[q] = proc[q]
  BY GotoTypes DEF Recheck, IInv
<1>3. TypeInv'
  BY <1>2 DEF IInv, TypeInv, Recheck, files
<1>4. undone = 0 => proc[p].products = proc[p].native
  <2> SUFFICES ASSUME undone = 0 PROVE proc[p].products = proc[p].native
    OBVIOUS
  <2>1. /\ proc[p].products[1] \in Output /\ proc[p].products = <<proc[p].products[1]>>
        /\ output \in Output /\ proc[p].native[1] = output
    BY <1>0, Remembers DEF Packing, IInv, TypeInv
  <2>2. Later(proc[p].products[1], output) /\ proc[p].products[1].touched <= output.touched
    BY <1>0, <1>1, <2>1 DEF PackInv, ProductsOf
  <2>3. \A o \in Output : Later(o, output) /\ o.touched <= output.touched => o = output
    BY <2>1, BuildAssumption DEF Later, Output
  <2>4. QED
    BY <1>0, <2>1, <2>2, <2>3
<1>5. UNCHANGED <<inputs, snapshot, undone, frozen, lock, output, receipt, manifest, countersigned>>
  BY DEF Recheck, files
<1>6. ProcInv(p)'
  <2>1. /\ proc'[p].pc = "publish" /\ Manifest(p)' = Manifest(p)
        /\ proc'[p].native = proc[p].native /\ proc'[p].products = proc[p].products
        /\ LockInv(p)' /\ ValueInv(p)' /\ BuildInv(p)'
        /\ (proc[p].native # <<>> /\ Later(output, proc[p].native[1]))'
        /\ (receipt = <<[binding |-> Binding(p), native |-> proc[p].native[1]]>>)'
        /\ (proc[p].seen = proc[p].native)' /\ (proc[p].image # <<>> /\ proc[p].products # <<>>)'
    BY <1>0, <1>2, <1>5, GoOn DEF Packing
  <2>2. PackInv(p)'
    BY <1>0, <1>1, <1>4, <1>5, <2>1 DEF PackInv
  <2>3. QED
    BY <2>1, <2>2 DEF ProcInv
<1>7. \A q \in Process : q # p => ProcInv(q)'
  BY <1>2, <1>3, Aside DEF Recheck, files
<1>8. FileInv'
  BY <1>3, FilesAside DEF Recheck, files
<1>9. QED
  BY <1>3, <1>6, <1>7, <1>8, Assemble

\* What Core packs is the manifest on disk, the files and the countersignature.
LEMMA PublishStep == ASSUME IInv, NEW p \in Process, Publish(p) PROVE IInv'
<1> DEFINE a == [manifest |-> Manifest(p), firmware |-> proc[p].image[1],
                 products |-> proc[p].products[1], countersigned |-> countersigned[1],
                 seen |-> proc[p].seen[1], accepted |-> FALSE]
<1>0. proc[p].pc = "publish" /\ artifact' = <<a>>
  BY DEF Publish
<1>1. PackInv(p)
  BY DEF IInv
<1>2. /\ undone = 0 => proc[p].products = proc[p].native
      /\ manifest = <<Manifest(p)>> /\ countersigned = manifest
      /\ receipt = <<[binding |-> Binding(p), native |-> proc[p].native[1]]>>
  BY <1>0, <1>1 DEF PackInv, Packing
<1>3. /\ Manifest(p) \in ManifestSet /\ proc[p].image[1] \in Output
      /\ proc[p].products[1] \in Output /\ proc[p].native[1] \in Output
      /\ proc[p].seen[1] = proc[p].native[1]
  BY <1>0, Remembers DEF Packing
<1>4. /\ proc' \in [Process -> Memory] /\ proc'[p] = [proc[p] EXCEPT !.pc = "verify"]
      /\ \A q \in Process : q # p => proc'[q] = proc[q]
  BY GotoTypes DEF Publish, IInv
<1>5. TypeInv'
  <2>1. a \in PackageSet
    BY <1>2, <1>3 DEF PackageSet
  <2>2. artifact' \in Optional(PackageSet)
    BY <1>0, <2>1, Written
  <2>3. QED
    BY <1>4, <2>2 DEF IInv, TypeInv, Publish
<1>6. ProcInv(p)'
  <2>1. UNCHANGED <<inputs, snapshot, undone, frozen, lock, output, receipt, manifest, countersigned>>
    BY DEF Publish
  <2>2. /\ proc'[p].pc = "verify" /\ Manifest(p)' = Manifest(p)
        /\ proc'[p].native = proc[p].native /\ proc'[p].products = proc[p].products
        /\ LockInv(p)' /\ ValueInv(p)' /\ BuildInv(p)'
        /\ (proc[p].native # <<>> /\ Later(output, proc[p].native[1]))'
        /\ (receipt = <<[binding |-> Binding(p), native |-> proc[p].native[1]]>>)'
        /\ (proc[p].seen = proc[p].native)' /\ (proc[p].image # <<>> /\ proc[p].products # <<>>)'
    BY <1>0, <1>4, <2>1, GoOn DEF Packing
  <2>3. PackInv(p)'
    BY <1>2, <2>1, <2>2 DEF PackInv
  <2>4. QED
    BY <2>2, <2>3 DEF ProcInv
<1>7. \A q \in Process : q # p => ProcInv(q)'
  BY <1>4, <1>5, Aside DEF Publish
<1>8. FileInv'
  <2>1. FrozenInv' /\ BindingInv' /\ OutputInv' /\ BuildIsFrozen'
    BY DEF Publish, IInv, FrozenInv, BindingInv, OutputInv, BuildIsFrozen
  <2>2. /\ artifact'[1].manifest = Manifest(p) /\ artifact'[1].firmware = proc[p].image[1]
        /\ artifact'[1].products = proc[p].products[1] /\ artifact'[1].seen = proc[p].seen[1]
        /\ artifact'[1].countersigned = Manifest(p) /\ artifact'[1].accepted = FALSE
    BY <1>0, <1>2
  <2>3. /\ Manifest(p).binding = Binding(p) /\ Manifest(p).firmware = proc[p].image[1]
        /\ Manifest(p).products = proc[p].products[1] /\ receipt[1].native = proc[p].native[1]
        /\ receipt # <<>> /\ receipt[1].binding = Binding(p)
    BY <1>2 DEF Manifest
  <2>4. UNCHANGED <<receipt, manifest, countersigned, undone>>
    BY DEF Publish
  <2>5. PublishedInv'
    BY <1>2, <1>3, <2>2, <2>3, <2>4 DEF PublishedInv
  <2>6. QED
    BY <2>1, <2>5 DEF FileInv
<1>9. QED
  BY <1>5, <1>6, <1>7, <1>8, Assemble

\* The published package is accepted when its image has the identity of the run.
LEMMA VerifyPackageStep == ASSUME IInv, NEW p \in Process, VerifyPackage(p) PROVE IInv'
<1>0. /\ proc[p].pc = "verify" /\ artifact' = <<[artifact[1] EXCEPT !.accepted = TRUE]>>
      /\ artifact[1].firmware.id = {artifact[1].manifest.binding.id}
  BY DEF VerifyPackage, PackageReads, Identified
<1>1. /\ proc' \in [Process -> Memory] /\ lock' \in Process \cup {NoProcess}
      /\ proc'[p] = Idle /\ \A q \in Process : q # p => proc'[q] = proc[q]
  BY LeaveTypes DEF IInv, VerifyPackage
<1>2. artifact # <<>> /\ artifact[1] \in PackageSet
  BY Some DEF IInv, TypeInv, VerifyPackage
<1>3. /\ artifact'[1] \in PackageSet /\ artifact' # <<>>
      /\ \A f \in {"manifest", "firmware", "products", "countersigned", "seen"} :
            artifact'[1][f] = artifact[1][f]
  BY <1>0, <1>2 DEF PackageSet
<1>4. TypeInv'
  <2>1. artifact' \in Optional(PackageSet)
    BY <1>0, <1>3, Written
  <2>2. QED
    BY <1>1, <2>1 DEF IInv, TypeInv, VerifyPackage
<1>5. \A q \in Process : q # p => ProcInv(q)'
  BY <1>0, <1>1, <1>4, Inside DEF VerifyPackage, Locked, Packing
<1>6. FileInv'
  <2>1. FrozenInv' /\ BindingInv' /\ OutputInv' /\ BuildIsFrozen'
    BY DEF VerifyPackage, IInv, FrozenInv, BindingInv, OutputInv, BuildIsFrozen
  <2>2. UNCHANGED <<receipt, manifest, countersigned, undone>>
    BY DEF VerifyPackage
  <2>3. PublishedInv'
    BY <1>0, <1>2, <1>3, <2>2 DEF IInv, PublishedInv
  <2>4. QED
    BY <2>1, <2>3 DEF FileInv
<1>7. QED
  BY <1>1, <1>4, <1>5, <1>6, IdleInv, Assemble

-----------------------------------------------------------------------------
(* The theorems *)

\* Every step of every process and of its surroundings keeps the invariant.
LEMMA BuildStep == IInv /\ [Next]_vars => IInv'
<1> SUFFICES ASSUME IInv, [Next]_vars PROVE IInv'
  OBVIOUS
<1>1. CASE Edit \/ Touch \/ Undo \/ Sign
  BY <1>1, EditStep, TouchStep, UndoStep, SignStep
<1>2. ASSUME NEW c \in CoreRun, Collect(c) PROVE IInv'
  BY <1>2, CollectStep
<1>3. ASSUME NEW p \in Process, NEW cmd \in {"build", "package"}, NEW c \in CoreRun,
             Validate(p, cmd, c)
      PROVE  IInv'
  BY <1>3, ValidateStep
<1>4. ASSUME NEW p \in Process,
             ReadInputs(p) \/ WriteFrozen(p) \/ Lock(p) \/ Stop(p)
      PROVE  IInv'
  BY <1>4, ReadInputsStep, WriteFrozenStep, LockStep, EndStep
<1>5. ASSUME NEW p \in Process,
             \/ Rebuilt(p) \/ Adopt(p) \/ Configure(p) \/ ConfigureFails(p) \/ Compile(p)
             \/ Facts(p) \/ WriteReceipt(p)
      PROVE  IInv'
  BY <1>5, EndStep, AdoptStep, CompileStep, ConfigureFailsStep, FactsStep, WriteReceiptStep
<1>6. ASSUME NEW p \in Process,
             \/ Check(p) \/ ReadFiles(p) \/ WriteManifest(p) \/ Countersign(p)
             \/ Recheck(p) \/ Publish(p) \/ VerifyPackage(p)
      PROVE  IInv'
  BY <1>6, CheckStep, ReadFilesStep, WriteManifestStep, CountersignStep, RecheckStep, PublishStep,
     VerifyPackageStep
<1>7. CASE UNCHANGED vars
  <2>1. TypeInv'
    BY <1>7 DEF vars, files, IInv, TypeInv
  <2>2. Grows
    BY <1>7, AtMostOrder DEF Grows, IInv, TypeInv, vars, files
  <2>3. FileInv'
    BY <1>7, <2>1, FilesAside DEF vars, files
  <2>4. \A p \in Process : ProcInv(p)'
    BY <1>7, <2>1, <2>2, Bystander DEF vars, files
  <2>5. QED
    BY <2>1, <2>3, <2>4, Assemble
<1>8. QED
  BY <1>1, <1>2, <1>3, <1>4, <1>5, <1>6, <1>7 DEF Next

\* The inductive invariant holds throughout.
LEMMA BuildInvariant == Spec => []IInv
<1>1. QED
  BY InitIInv, BuildStep, PTL DEF Spec

\* build_package.py: the files, the lock and what each process remembers keep
\* their types.
THEOREM BuildTypes == Spec => []TypeOK
<1>1. IInv => TypeOK
  <2> SUFFICES ASSUME IInv, NEW c \in CoreRun PROVE snapshot[c] = <<>> \/ snapshot[c][1] \in Input
    BY DEF IInv, TypeInv, TypeOK
  <2>1. snapshot[c] \in Optional(Input)
    BY DEF IInv, TypeInv
  <2>2. QED
    BY <2>1, Some
<1>2. QED
  BY <1>1, BuildInvariant, PTL

\* A build receipt vouches for products compiled from the frozen inputs alone,
\* however the tree was edited while idf.py ran and whoever was killed.
THEOREM BuildFrozen == Spec => []BuildIsFrozen
<1>1. IInv => BuildIsFrozen
  BY DEF IInv
<1>2. QED
  BY <1>1, BuildInvariant, PTL

\* An accepted package is of one piece and holds the recorded products and an
\* image of their identity, which is the recorded build unless the signed image
\* was replaced after it was verified.
THEOREM PackageBuilt == Spec => []PackageIsBuilt
<1>1. IInv => PackageIsBuilt
  BY DEF IInv, PublishedInv, PackageIsBuilt
<1>2. QED
  BY <1>1, BuildInvariant, PTL
=============================================================================
