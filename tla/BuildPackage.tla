---------------------------- MODULE BuildPackage ----------------------------
(***************************************************************************)
(* tools/build_package.py, called by tools/package_entry.py: the inputs of *)
(* a firmware are frozen in a file, built under a lock in one directory    *)
(* and packaged with the identity of a Core run.  Any number of processes  *)
(* may run the commands freeze, build, manifest and package in any order,  *)
(* be killed and be started again; package_entry.run is freeze, build and  *)
(* package one after the other.  Meanwhile the working tree is edited,     *)
(* build products are touched, both may be put back as they were, and the  *)
(* signed image, made elsewhere, is replaced by any other file.            *)
(*                                                                         *)
(* A file is <<>> or <<its contents>>, a digest the value it is taken of.  *)
(***************************************************************************)
EXTENDS Naturals, Sequences

CONSTANTS Process, NoProcess,
          CoreRun,     \* Core runs, each with its build identity
          MaxEdits,    \* bound: edits of the sources and of the components
          MaxTouches,  \* bound: changes of the build products by others
          MaxUndone,   \* bound: edits and changes that are put back
          Elsewhere    \* contents the signed image may have besides this build's

ASSUME BuildAssumption ==
    /\ NoProcess \notin Process
    /\ MaxEdits \in Nat /\ MaxTouches \in Nat /\ MaxUndone \in Nat

Input == [src : 0 .. MaxEdits + 1, comp : 0 .. MaxEdits + 1]

\* Build products: what they were compiled from, the identity compiled in,
\* whether the build ran to its end, how often others changed them.
Output ==
    [from : SUBSET Input, id : SUBSET CoreRun, whole : BOOLEAN, touched : 0 .. MaxTouches]
NoOutput == [from |-> {}, id |-> {}, whole |-> FALSE, touched |-> 0]

\* A signed image is the products it was signed for; one that is malformed or
\* not signed with the frozen key has no identity.
ASSUME ElsewhereAssumption == Elsewhere \subseteq Output

VARIABLES
    inputs,    \* working tree, configuration, key and tools; managed components
    snapshot,  \* package-inputs.json: what each Core run collected
    frozen,    \* the frozen input file
    stray,     \* the build directory holds files nobody accounts for
    binding,   \* firmware-input.json of the build directory
    output,    \* its build products
    receipt,   \* firmware-build.json
    signed,    \* the signed image, a path outside the build directory or in it
    manifest,  \* firmware-package-manifest.json
    countersigned,  \* firmware-package-manifest.signed.bin
    artifact,  \* the package
    lock,      \* holder of .firmware.lock
    proc,      \* the processes
    undone     \* bookkeeping: how often a change was put back

files == <<frozen, stray, binding, output, receipt, manifest, countersigned, artifact>>
vars == <<inputs, snapshot, signed, lock, proc, undone, files>>

\* What an unknown directory may hold: objects of an older tree.
StrayOutput == [NoOutput EXCEPT !.from = {[src |-> 0, comp |-> 0]}]

\* What a process remembers: value, identity, native, the signed image it has
\* verified, and the signed image and products it has read for the package.
Idle == [pc |-> "idle", cmd |-> "none", run |-> <<>>, value |-> <<>>, native |-> <<>>,
         seen |-> <<>>, image |-> <<>>, products |-> <<>>]

Init ==
    /\ inputs = [src |-> 1, comp |-> 1]
    /\ snapshot = [c \in CoreRun |-> <<>>]
    /\ frozen = <<>>
    /\ stray \in BOOLEAN
    /\ binding = <<>>
    /\ output = IF stray THEN StrayOutput ELSE NoOutput
    /\ receipt = <<>> /\ signed \in {<<image>> : image \in Elsewhere} /\ manifest = <<>> /\ countersigned = <<>> /\ artifact = <<>>
    /\ lock = NoProcess
    /\ proc = [p \in Process |-> Idle]
    /\ undone = 0

-----------------------------------------------------------------------------
(* Around the tools (external) *)

\* An edit of a source, the configuration, a tool or the key; of a component.
Edit ==
    /\ inputs.src + inputs.comp < MaxEdits + 2
    /\ \E part \in {"src", "comp"} : inputs' = [inputs EXCEPT ![part] = @ + 1]
    /\ UNCHANGED <<snapshot, signed, lock, proc, undone, files>>

\* Core asks package_entry.py for the inputs of a run, once.
Collect(c) ==
    /\ snapshot[c] = <<>>
    /\ snapshot' = [snapshot EXCEPT ![c] = <<inputs>>]
    /\ UNCHANGED <<inputs, signed, lock, proc, undone, files>>

\* Somebody changes the build products without the lock.
Touch ==
    /\ output.whole /\ output.touched < MaxTouches
    /\ output' = [output EXCEPT !.touched = @ + 1]
    /\ UNCHANGED <<inputs, snapshot, signed, lock, proc, undone, frozen, stray, binding, receipt,
                   manifest, countersigned, artifact>>

\* An edit of the tree or a change of the products is taken back.
Undo ==
    /\ undone < MaxUndone
    /\ \/ /\ \E part \in {"src", "comp"} :
                inputs[part] > 1 /\ inputs' = [inputs EXCEPT ![part] = @ - 1]
          /\ UNCHANGED output
       \/ /\ output.touched > 0
          /\ output' = [output EXCEPT !.touched = @ - 1]
          /\ UNCHANGED inputs
    /\ undone' = undone + 1
    /\ UNCHANGED <<snapshot, signed, lock, proc, frozen, stray, binding, receipt, manifest,
                   countersigned, artifact>>

\* The products as they are now are signed, or another file takes the place of
\* the signed image: that of another build, or none that can be used.
Sign ==
    /\ \/ output.whole /\ signed' = <<output>>
       \/ \E image \in Elsewhere : signed' = <<image>>
    /\ UNCHANGED <<inputs, snapshot, lock, proc, undone, files>>

-----------------------------------------------------------------------------
(* Steps shared by the commands *)

Goto(p, label) == proc' = [proc EXCEPT ![p].pc = label]

\* The process ends; closing the descriptor releases its lock.
Leave(p) ==
    /\ proc' = [proc EXCEPT ![p] = Idle]
    /\ lock' = IF lock = p THEN NoProcess ELSE lock

\* write_once: a missing file is linked into place, an existing one is equal.
WriteOnce(file, data) == file = <<>> \/ file = <<data>>

\* run_inputs, validate_run_inputs: what Core collected is what the tree holds.
Collected(c) == snapshot[c] = <<inputs>>

\* validate_input: the frozen input is what the tree holds now and what Core
\* collected for this run.
ValidInput(c) == frozen = <<inputs>> /\ Collected(c)

Binding(p) == [value |-> proc[p].value[1], id |-> proc[p].run[1]]

\* inspect_image: the products or the image carry this identity and no other.
Identified(o, c) == o.id = {c}

\* built_facts, bootstrap_facts: complete products of this run.
BuiltFacts(p) == output.whole /\ Identified(output, proc[p].run[1])

\* verify_signed: the signed image is these products and a signature.
SignatureOf(s, o) == s = <<o>>

\* verify_package: one copy of the package, read back, agrees with itself, and
\* its image is a signed one of the identity of the run.
PackageReads(a) ==
    /\ a.firmware = a.manifest.firmware /\ a.products = a.manifest.products
    /\ a.countersigned = a.manifest
    /\ Identified(a.firmware, a.manifest.binding.id)

\* build and package begin with validate_input, before the lock.
Validate(p, cmd, c) ==
    /\ proc[p] = Idle /\ ValidInput(c)
    /\ proc' = [proc EXCEPT ![p].pc = "lock", ![p].cmd = cmd, ![p].run = <<c>>,
                            ![p].value = <<inputs>>]
    /\ UNCHANGED <<inputs, snapshot, undone, signed, lock, files>>

\* locked_build
Lock(p) ==
    /\ proc[p].pc = "lock" /\ lock = NoProcess
    /\ lock' = p
    /\ Goto(p, IF proc[p].cmd = "build" THEN "build" ELSE "check")
    /\ UNCHANGED <<inputs, snapshot, undone, signed, files>>

\* main: an error, or the process is killed.  A kill inside write_once leaves
\* its temporary directory behind; only while the build directory is not bound
\* does anybody ask what else is in it.
Stop(p) ==
    /\ proc[p] # Idle
    /\ Leave(p)
    /\ \/ UNCHANGED stray
       \/ proc[p].pc = "build" /\ binding = <<>> /\ stray' = TRUE
    /\ UNCHANGED <<inputs, snapshot, undone, signed, frozen, binding, output, receipt, manifest,
                   countersigned, artifact>>

-----------------------------------------------------------------------------
(* freeze *)

\* current_inputs
ReadInputs(p) ==
    /\ proc[p] = Idle
    /\ proc' = [proc EXCEPT ![p].pc = "write", ![p].cmd = "freeze", ![p].value = <<inputs>>]
    /\ UNCHANGED <<inputs, snapshot, undone, signed, lock, files>>

WriteFrozen(p) ==
    /\ proc[p].pc = "write" /\ WriteOnce(frozen, proc[p].value[1])
    /\ frozen' = proc[p].value
    /\ Leave(p)
    /\ UNCHANGED <<inputs, snapshot, undone, signed, stray, binding, output, receipt, manifest,
                   countersigned, artifact>>

-----------------------------------------------------------------------------
(* build *)

\* A finished build is returned only if every product is as recorded.
Rebuilt(p) ==
    /\ proc[p].pc = "build" /\ receipt # <<>> /\ BuiltFacts(p)
    /\ receipt = <<[binding |-> Binding(p), native |-> output]>>
    /\ Leave(p)
    /\ UNCHANGED <<inputs, snapshot, undone, signed, files>>

\* An unbound directory must be empty; a bound one must be bound to this build.
Adopt(p) ==
    /\ proc[p].pc = "build" /\ receipt = <<>>
    /\ binding = <<>> => ~stray
    /\ WriteOnce(binding, Binding(p))
    /\ binding' = <<Binding(p)>>
    /\ Goto(p, "configure")
    /\ UNCHANGED <<inputs, snapshot, undone, signed, lock, frozen, stray, output, receipt, manifest,
                   countersigned, artifact>>

\* idf.py reads the tree as it is then; objects of an earlier attempt stay.
Compiled(p, whole) ==
    output' = [output EXCEPT !.from = @ \cup {inputs}, !.id = {proc[p].run[1]}, !.whole = whole]

\* reconfigure, and the components are still the frozen ones.
Configure(p) ==
    /\ proc[p].pc = "configure"
    /\ Compiled(p, FALSE)
    /\ inputs.comp = proc[p].value[1].comp
    /\ Goto(p, "compile")
    /\ UNCHANGED <<inputs, snapshot, undone, signed, lock, frozen, stray, binding, receipt, manifest,
                   countersigned, artifact>>

\* reconfigure changed or found changed components: it is done all the same.
ConfigureFails(p) ==
    /\ proc[p].pc = "configure" /\ inputs.comp # proc[p].value[1].comp
    /\ Compiled(p, FALSE)
    /\ Leave(p)
    /\ UNCHANGED <<inputs, snapshot, undone, signed, frozen, stray, binding, receipt, manifest,
                   countersigned, artifact>>

Compile(p) ==
    /\ proc[p].pc = "compile"
    /\ Compiled(p, TRUE)
    /\ Goto(p, "facts")
    /\ UNCHANGED <<inputs, snapshot, undone, signed, lock, frozen, stray, binding, receipt, manifest,
                   countersigned, artifact>>

\* Mutant: the inputs are not validated again after the build.
Facts_Unchecked(p) ==
    /\ proc[p].pc = "facts" /\ BuiltFacts(p)
    /\ inputs.comp = proc[p].value[1].comp
    /\ proc' = [proc EXCEPT ![p].pc = "receipt", ![p].native = <<output>>]
    /\ UNCHANGED <<inputs, snapshot, undone, signed, lock, files>>

\* The products are described, then the inputs are validated once more.
Facts(p) ==
    /\ proc[p].pc = "facts" /\ BuiltFacts(p)
    /\ inputs.comp = proc[p].value[1].comp
    /\ ValidInput(proc[p].run[1]) /\ proc[p].value = <<inputs>>
    /\ proc' = [proc EXCEPT ![p].pc = "receipt", ![p].native = <<output>>]
    /\ UNCHANGED <<inputs, snapshot, undone, signed, lock, files>>

WriteReceipt(p) ==
    LET r == [binding |-> Binding(p), native |-> proc[p].native[1]]
    IN /\ proc[p].pc = "receipt" /\ WriteOnce(receipt, r)
       /\ receipt' = <<r>>
       /\ Leave(p)
       /\ UNCHANGED <<inputs, snapshot, undone, signed, frozen, stray, binding, output, manifest,
                      countersigned, artifact>>

-----------------------------------------------------------------------------
(* manifest and package *)

\* The products are as the receipt says and the signed image is one of them.
\* It is read three times here; what only the first reading was told apart from
\* the products can as well be replaced afterwards.
Check(p) ==
    /\ proc[p].pc = "check" /\ BuiltFacts(p)
    /\ receipt = <<[binding |-> Binding(p), native |-> output]>>
    /\ SignatureOf(signed, output)
    /\ proc' = [proc EXCEPT ![p].pc = "read", ![p].native = <<output>>, ![p].seen = signed]
    /\ UNCHANGED <<inputs, snapshot, undone, signed, lock, files>>

\* The files of the package are read: the signed image and the products again.
ReadFiles(p) ==
    /\ proc[p].pc = "read"
    /\ proc' = [proc EXCEPT ![p].pc = "manifest", ![p].image = signed, ![p].products = <<output>>]
    /\ UNCHANGED <<inputs, snapshot, undone, signed, lock, files>>

Manifest(p) ==
    [binding |-> Binding(p), firmware |-> proc[p].image[1], products |-> proc[p].products[1]]

\* The command manifest (manifest_only) ends here.
WriteManifest(p) ==
    /\ proc[p].pc = "manifest" /\ WriteOnce(manifest, Manifest(p))
    /\ manifest' = <<Manifest(p)>>
    /\ \/ Leave(p)
       \/ Goto(p, "countersign") /\ UNCHANGED lock
    /\ UNCHANGED <<inputs, snapshot, undone, signed, frozen, stray, binding, output, receipt,
                   countersigned, artifact>>

\* The manifest is signed here or elsewhere; an existing signature must cover it.
Countersign(p) ==
    /\ proc[p].pc = "countersign" /\ WriteOnce(countersigned, manifest[1])
    /\ countersigned' = manifest
    /\ Goto(p, "recheck")
    /\ UNCHANGED <<inputs, snapshot, undone, signed, lock, frozen, stray, binding, output, receipt,
                   manifest, artifact>>

\* Mutant: the products are not looked at again before they are published.
Recheck_InputsOnly(p) ==
    /\ proc[p].pc = "recheck"
    /\ ValidInput(proc[p].run[1]) /\ proc[p].value = <<inputs>>
    /\ Goto(p, "publish")
    /\ UNCHANGED <<inputs, snapshot, undone, signed, lock, files>>

\* Everything was staged; inputs and products are checked again.
Recheck(p) ==
    /\ proc[p].pc = "recheck"
    /\ ValidInput(proc[p].run[1]) /\ proc[p].value = <<inputs>>
    /\ BuiltFacts(p) /\ proc[p].native = <<output>>
    /\ Goto(p, "publish")
    /\ UNCHANGED <<inputs, snapshot, undone, signed, lock, files>>

\* Core packs the staged directory.  The package is not accepted yet; seen is
\* bookkeeping.
Publish(p) ==
    /\ proc[p].pc = "publish"
    /\ artifact' = <<[manifest |-> Manifest(p), firmware |-> proc[p].image[1],
                      products |-> proc[p].products[1], countersigned |-> countersigned[1],
                      seen |-> proc[p].seen[1], accepted |-> FALSE]>>
    /\ Goto(p, "verify")
    /\ UNCHANGED <<inputs, snapshot, undone, signed, lock, frozen, stray, binding, output, receipt,
                   manifest, countersigned>>

VerifyPackage(p) ==
    /\ proc[p].pc = "verify" /\ artifact # <<>> /\ PackageReads(artifact[1])
    /\ artifact' = <<[artifact[1] EXCEPT !.accepted = TRUE]>>
    /\ Leave(p)
    /\ UNCHANGED <<inputs, snapshot, undone, signed, frozen, stray, binding, output, receipt,
                   manifest, countersigned>>

Next ==
    \/ Edit \/ Touch \/ Undo \/ Sign
    \/ \E c \in CoreRun : Collect(c)
    \/ \E p \in Process :
          \/ ReadInputs(p) \/ WriteFrozen(p)
          \/ \E cmd \in {"build", "package"}, c \in CoreRun : Validate(p, cmd, c)
          \/ Lock(p) \/ Stop(p)
          \/ Rebuilt(p) \/ Adopt(p) \/ Configure(p) \/ ConfigureFails(p) \/ Compile(p)
          \/ Facts(p) \/ WriteReceipt(p)
          \/ Check(p) \/ ReadFiles(p) \/ WriteManifest(p) \/ Countersign(p)
          \/ Recheck(p) \/ Publish(p) \/ VerifyPackage(p)

Spec == Init /\ [][Next]_vars

-----------------------------------------------------------------------------
(* Properties *)

Memory ==
    [pc : {"idle", "write", "lock", "build", "configure", "compile",
           "facts", "receipt", "check", "read", "manifest", "countersign", "recheck", "publish",
           "verify"},
     cmd : {"none", "freeze", "build", "package"},
     run : {<<>>} \cup {<<c>> : c \in CoreRun}, value : {<<>>} \cup {<<i>> : i \in Input},
     native : {<<>>} \cup {<<o>> : o \in Output}, seen : {<<>>} \cup {<<o>> : o \in Output},
     image : {<<>>} \cup {<<o>> : o \in Output}, products : {<<>>} \cup {<<o>> : o \in Output}]

\* Every file and every process holds what belongs there.
TypeOK ==
    /\ inputs \in Input /\ stray \in BOOLEAN /\ output \in Output /\ undone \in 0 .. MaxUndone
    /\ lock \in Process \cup {NoProcess}
    /\ proc \in [Process -> Memory]
    /\ \A c \in CoreRun : snapshot[c] = <<>> \/ snapshot[c][1] \in Input

\* A build receipt vouches for the frozen inputs, as Core collected them, and
\* for products with the identity of that run; and these were compiled from
\* the frozen inputs and from nothing else, although the tree was edited while
\* idf.py ran, a build was killed half way, or the directory was not empty at
\* first ("构建期间冻结输入或公开组件改变").  Only an edit that is taken back before
\* the next look at the tree goes unnoticed.
BuildIsFrozen ==
    receipt # <<>> =>
        LET b == receipt[1].binding
        IN /\ binding = <<b>> /\ frozen = <<b.value>> /\ snapshot[b.id] = <<b.value>>
           /\ receipt[1].native.id = {b.id}
           /\ undone = 0 => receipt[1].native.from = {b.value}

\* A package is accepted when it is all of one piece: its manifest is the one on
\* disk and the one that was signed, and describes its files; these are the
\* products of the receipt, although others touched them between the reads
\* (unless they put them back), and the image has the identity of the run.  The
\* image is the recorded build if the file that was read for the package is
\* still the one that was verified; the code does not look whether it is.
PackageIsBuilt ==
    artifact # <<>> /\ artifact[1].accepted =>
        LET a == artifact[1]
        IN /\ receipt # <<>> /\ receipt[1].binding = a.manifest.binding
           /\ manifest = <<a.manifest>> /\ countersigned = manifest /\ a.countersigned = a.manifest
           /\ a.firmware = a.manifest.firmware /\ a.products = a.manifest.products
           /\ undone = 0 => a.products = receipt[1].native
           /\ a.firmware.id = {a.manifest.binding.id}
           /\ a.firmware = a.seen => a.firmware = receipt[1].native
=============================================================================
