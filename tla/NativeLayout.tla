---------------------------- MODULE NativeLayout ----------------------------
(***************************************************************************)
(* The offline tools that take a board from an old flash layout to the     *)
(* native one: tools/prepare_native_layout.py (prepare),                   *)
(* tools/preflight_v3_migration.py (preflight) and                         *)
(* tools/archive_esp32_at.py (archive).  Each reads two equal full-flash   *)
(* backups of one board, refuses what it cannot carry over, and writes     *)
(* its results into files that must not exist yet.  None of them touches   *)
(* the board.                                                              *)
(*                                                                         *)
(* A flash is the record of its regions, a SHA-256 the value it is taken   *)
(* of.  Every input file but the backups may change at any time, so a      *)
(* read returns any of its possible contents: what matters is how often a  *)
(* file is read.  A run that is refused, meets an OSError or is killed     *)
(* stops where it is.                                                      *)
(***************************************************************************)
EXTENDS Integers, Sequences

CONSTANTS Run,       \* processes of the tools
          Requests,  \* command lines they may be started with
          Families,  \* the flashes explored: records of a set of values per region
          Image,     \* complete esp_base images
          Key,       \* verification keys
          Signer,    \* the key an image is signed with, or "none"
          Boot,      \* bootloaders
          BootKey    \* the key a bootloader embeds

Slots == 0 .. 1
Layouts ==
    {"c3_product", "esp32_product", "c3_v1", "esp32_at", "c3_mqtt_factory",
     "c3_native", "esp32_native"}
Files == {"source-flash", "migration-receipt", "at-old-raw", "candidate-flash",
          "base-store", "at-archive"}

ASSUME LayoutAssumption ==
    /\ Signer \in [Image -> Key \cup {"none"}] /\ "none" \notin Key
    /\ {"erased", "header", "none"} \cap Image = {}
    /\ BootKey \in [Boot -> Key]

Target(l) == IF l \in {"esp32_product", "esp32_at", "esp32_native"} THEN "esp32" ELSE "esp32c3"
Native(l) == l \in {"c3_native", "esp32_native"}
Packages(l) == l \in {"c3_product", "esp32_product"}

\* Layouts without a Base identity, store or otadata.
Foreign(l) == l \in {"esp32_at", "c3_mqtt_factory"}

-----------------------------------------------------------------------------
(* The regions of a flash *)

\* The flashes both backups may hold.
Backups ==
    UNION {[layout : F.layout, id : F.id, slots : F.slots, otadata : F.otadata,
            config : F.config, ota : F.ota, ecs : F.ecs, ledger : F.ledger,
            at : F.at, more : F.more, boot : F.boot] : F \in Families}

\* One otadata copy: a sector of 0xff, an entry, or one with a bad CRC or sequence.
Erased == [kind |-> "erased", seq |-> 0, state |-> "undefined"]
Valid(n) == [kind |-> "entry", seq |-> n, state |-> "valid"]
SlotOf(n) == (n - 1) % 2

\* base_config/committed: EBCF version (0: no record), revision, what it configures.
NoConfig == [v |-> 0, rev |-> 0, wifi |-> FALSE, mqtt |-> FALSE]

\* base_ota/operation: EOTA version (0: no record), device, terminal state,
\* source slot, hashes of the new, the running and the replaced image, and the
\* package binding of the product layouts.
NoReceipt ==
    [v |-> 0, id |-> "none", state |-> "none", source |-> 0, new |-> "none",
     old |-> "none", spare |-> "none", seq |-> 0, pack |-> "none"]

\* base_pkg/slots: phase, sequence and the package bound to each firmware.
NoPackages == [phase |-> "none", seq |-> 0, bind |-> [i \in Image |-> "unbound"]]

\* check_old_layout: what the table of a layout says its flash can hold.  The
\* foreign layouts have no Base store and no otadata, the others nothing that is
\* not accounted for; the old AT pages are four or five.
WellFormed(f) ==
    /\ f.layout \in Layouts
    /\ \A i \in Slots : f.otadata[i].seq \in Nat
    /\ f.config \in [v : Nat, rev : Nat, wifi : BOOLEAN, mqtt : BOOLEAN]
    /\ Foreign(f.layout) =>
          /\ f.ota = NoReceipt /\ f.ecs = NoPackages /\ f.ledger = "none"
          /\ \A i \in Slots : f.otadata[i] = Erased
    /\ f.layout = "c3_mqtt_factory" => f.config = NoConfig
    /\ f.more => Foreign(f.layout)
    /\ f.layout = "esp32_product" => f.at = <<f.at[1], f.at[2], f.at[3], f.at[4]>>
    /\ f.layout \in {"esp32_at", "esp32_native"} =>
          f.at = <<f.at[1], f.at[2], f.at[3], f.at[4], f.at[5]>>

ASSUME FlashAssumption == \A f \in Backups : WellFormed(f)

\* Bootloader (external): of the intact entries that are neither INVALID nor
\* ABORTED the highest sequence names the slot.
Boots(otadata, s) ==
    \E i \in Slots :
        /\ otadata[i].kind = "entry" /\ otadata[i].state # "invalid"
        /\ SlotOf(otadata[i].seq) = s
        /\ \A j \in Slots :
              (otadata[j].kind = "entry" /\ otadata[j].state # "invalid")
                  => otadata[j].seq <= otadata[i].seq

-----------------------------------------------------------------------------
(* prepare_native_layout.py: what is read from the source *)

\* The copy ota_selection keeps for its slot: the newest, the first of equals.
Newest(otadata, i) ==
    /\ otadata[i].kind = "entry"
    /\ \A j \in Slots \ {i} :
          (otadata[j].kind = "entry" /\ SlotOf(otadata[j].seq) = SlotOf(otadata[i].seq))
              => \/ otadata[j].seq < otadata[i].seq
                 \/ otadata[j].seq = otadata[i].seq /\ i < j

\* Slot s ends VALID in the otadata.
Settled(otadata, s) ==
    \E i \in Slots :
        Newest(otadata, i) /\ SlotOf(otadata[i].seq) = s /\ otadata[i].state = "valid"

\* Mutant: any slot that ends VALID is taken.
ota_selection_AnyValid(otadata, s) ==
    /\ \A i \in Slots :
          \/ otadata[i] = Erased
          \/ otadata[i].kind = "entry" /\ otadata[i].state \in {"valid", "invalid"}
    /\ Settled(otadata, s)

\* ota_selection: s is the slot the old bootloader was told to start.
ota_selection(otadata, s) ==
    /\ \A i \in Slots :
          \/ otadata[i] = Erased
          \/ otadata[i].kind = "entry" /\ otadata[i].state \in {"valid", "invalid"}
    /\ \E i \in Slots :
          /\ Newest(otadata, i) /\ otadata[i].state = "valid" /\ SlotOf(otadata[i].seq) = s
          /\ \A j \in Slots :
                (Newest(otadata, j) /\ otadata[j].state = "valid")
                    => otadata[j].seq <= otadata[i].seq

\* signed_image and verify_signature; an unsigned image (key "none") is taken
\* from c3_v1 alone, and only when nothing follows it in the slot.
Verified(content, key) == content \in Image /\ Signer[content] = key

\* Mutant: what is in the other slot does not matter.
SlotsAreClean_AnySpare(f, key) ==
    \A s \in Slots : Settled(f.otadata, s) => Verified(f.slots[s], key)

\* Every VALID slot holds a verified image and every other one is erased.
SlotsAreClean(f, key) ==
    \A s \in Slots :
        IF Settled(f.otadata, s) THEN Verified(f.slots[s], key) ELSE f.slots[s] = "erased"

ValidImages(f) == {f.slots[s] : s \in {s \in Slots : Settled(f.otadata, s)}}

\* validate_v1_config, validate_v2_config, validate_v3_config.
ConfigIsValid(l, c) ==
    \/ c = NoConfig
    \/ c.v = 3
    \/ l = "c3_v1" /\ c.v \in {1, 2}

\* convert_v1_wifi_only, convert_v2_preserving_mqtt: version 3, the rest kept.
Convert(c) == IF c.v \in {1, 2} THEN [c EXCEPT !.v = 3] ELSE c

\* validate_ecs2: bindings for exactly the VALID images, nothing under way.
EcsIsSettled(f) ==
    \/ f.ecs = NoPackages
    \/     /\ Packages(f.layout) /\ f.ecs.phase \in {"idle", "confirmed"} /\ f.ecs.seq > 0
           /\ {i \in Image : f.ecs.bind[i] # "unbound"} = ValidImages(f)

\* validate_ledger
LedgerIsSettled(f) == f.ledger = "none" \/ (f.ledger = "settled" /\ f.ecs # NoPackages)

\* validate_v3_receipt: a terminal state that the slots bear out.
V3Settled(f, id, selected) ==
    LET o == f.ota
        t == 1 - o.source
    IN /\ o.v = 3 /\ o.id = id /\ o.state \in {"succeeded", "failed"} /\ o.spare # o.old
       /\ (f.ecs # NoPackages) <=> (o.seq > 0)
       /\ \/ /\ o.state = "succeeded" /\ selected = t
             /\ Settled(f.otadata, o.source) /\ f.slots[o.source] = o.old
             /\ Settled(f.otadata, t) /\ f.slots[t] = o.new
          \/ /\ o.state = "failed" /\ selected = o.source /\ f.slots[o.source] = o.old
             /\ IF Settled(f.otadata, t) THEN f.slots[t] = o.spare ELSE f.slots[t] = "erased"
       /\ (f.ecs # NoPackages) =>
             /\ f.ecs.seq >= o.seq
             /\ f.ecs.bind[IF o.state = "succeeded" THEN o.new ELSE o.old] = o.pack

\* validate_v4_receipt, of the native layouts.
V4Settled(f, id, selected) ==
    LET o == f.ota
        t == 1 - o.source
    IN /\ o.v = 4 /\ o.id = id /\ o.new # o.old /\ o.spare # o.old
       /\ Settled(f.otadata, o.source) /\ f.slots[o.source] = o.old
       /\ \/ /\ o.state = "succeeded" /\ selected = t
             /\ Settled(f.otadata, t) /\ f.slots[t] = o.new
          \/ /\ o.state = "failed" /\ selected = o.source
             /\ Settled(f.otadata, t)
                   => f.slots[t] = (IF o.spare # "none" THEN o.spare ELSE o.old)

\* make_archive, check_old_table: five pages hold all there is.
Archivable(f) == f.layout = "esp32_at" /\ ~f.more

\* inspect_source: the source can be carried over; selected is -1 without otadata.
\* Wi-Fi credentials of the old AT system are refused: they would be lost.
inspect_source(f, a, srckey, selected) ==
    /\ f.layout = a.layout
    /\ \/ f.layout = "c3_mqtt_factory" /\ srckey = "none" /\ ~f.more /\ selected = -1
       \/ /\ f.layout = "esp32_at" /\ Archivable(f) /\ f.id = a.id
          /\ f.config = NoConfig /\ selected = -1
       \/     /\ ~Foreign(f.layout)
              /\ f.id = a.id /\ ConfigIsValid(f.layout, f.config)
              /\ srckey = "none" => f.layout = "c3_v1"
              /\ ota_selection(f.otadata, selected) /\ SlotsAreClean(f, srckey)
              /\ IF Native(f.layout)
                 THEN /\ f.ecs = NoPackages /\ f.ledger = "none"
                      /\ f.ota = NoReceipt \/ V4Settled(f, a.id, selected)
                 ELSE /\ EcsIsSettled(f) /\ LedgerIsSettled(f)
                      /\ f.ota = NoReceipt \/ V3Settled(f, a.id, selected)

-----------------------------------------------------------------------------
(* prepare_native_layout.py: what is made of it *)

\* The AT pages of the candidate: the product layout lacked the third NVS page.
OldAt(f) ==
    IF f.layout = "esp32_product" THEN <<f.at[1], f.at[2], "erased", f.at[3], f.at[4]>> ELSE f.at

\* prepare, build_candidate: a native flash with the new app in both slots and
\* the settled records of the old store.
build_candidate(f, m) ==
    [layout |-> IF Target(f.layout) = "esp32" THEN "esp32_native" ELSE "c3_native",
     id |-> IF Foreign(f.layout) THEN "none" ELSE f.id,
     slots |-> [s \in Slots |-> m.app],
     otadata |-> [i \in Slots |-> Valid(i + 1)],
     config |-> IF Foreign(f.layout) THEN NoConfig ELSE Convert(f.config),
     ota |-> NoReceipt, ecs |-> NoPackages, ledger |-> "none",
     at |-> IF Target(f.layout) = "esp32" THEN OldAt(f) ELSE <<>>,
     more |-> FALSE, boot |-> m.boot]

\* Mutant: a finished upgrade does not keep the source.
KeepsSource_Asked(f, a) == Native(f.layout) /\ a.original

\* The source itself is the candidate: --original-state, or a V4 receipt that
\* a new identity would disown.
KeepsSource(f, a) == Native(f.layout) /\ (a.original \/ f.ota # NoReceipt)

Candidate(f, a, m) == IF KeepsSource(f, a) THEN f ELSE build_candidate(f, m)

\* The report written as migration-receipt.json.
Report(f, a, m) ==
    [source |-> f, candidate |-> Candidate(f, a, m), srckey |-> m.srckey, key |-> m.key,
     app |-> m.app, selected |-> m.selected,
     slot |-> IF KeepsSource(f, a) THEN m.selected ELSE 1,
     retired |-> IF Native(f.layout) \/ Foreign(f.layout) THEN [ota |-> NoReceipt, ecs |-> NoPackages, ledger |-> "none"]
                 ELSE [ota |-> f.ota, ecs |-> f.ecs, ledger |-> f.ledger]]

\* Mutant: the candidate is written before the old AT pages.
Outputs_CandidateFirst(a) ==
    IF a.tool = "preflight" THEN <<"base-store">>
    ELSE IF a.tool = "archive" THEN <<"at-archive">>
    ELSE IF Target(a.layout) = "esp32"
         THEN <<"source-flash", "migration-receipt", "candidate-flash", "at-old-raw">>
         ELSE <<"source-flash", "migration-receipt", "candidate-flash">>

\* The order in which prepare writes, or the one file of another tool.
Outputs(a) ==
    IF a.tool = "preflight" THEN <<"base-store">>
    ELSE IF a.tool = "archive" THEN <<"at-archive">>
    ELSE IF Target(a.layout) = "esp32"
         THEN <<"source-flash", "migration-receipt", "at-old-raw", "candidate-flash">>
         ELSE <<"source-flash", "migration-receipt", "candidate-flash">>

-----------------------------------------------------------------------------
(* preflight_v3_migration.py *)

\* A slot that begins as an image does: complete, or "header" and no more.
HasHeader(content) == content \in Image \cup {"header"}

\* audit_otadata_and_slots: the selectable entry with the highest sequence, the
\* first of equals, has to be VALID and its slot to begin as an image does;
\* nothing may be under way.
AuditSelects(f, s) ==
    LET selectable == {i \in Slots : f.otadata[i].kind = "entry" /\ f.otadata[i].state # "invalid"}
    IN /\ \A i \in Slots : f.otadata[i].kind # "bad" /\ f.otadata[i].state # "pending"
       /\ \E i \in selectable :
             /\ \A j \in selectable \ {i} :
                   \/ f.otadata[j].seq < f.otadata[i].seq
                   \/ f.otadata[j].seq = f.otadata[i].seq /\ i < j
             /\ f.otadata[i].state = "valid" /\ SlotOf(f.otadata[i].seq) = s
       /\ HasHeader(f.slots[s])

\* audit
audit(f, a, selected) ==
    /\ f.layout = "c3_v1" /\ f.id = a.id
    /\ AuditSelects(f, selected)
    /\ f.config.v \in {0, 1, 2} /\ f.ecs = NoPackages /\ f.ledger = "none"
    /\ f.ota = NoReceipt
         \/ (f.ota.v = 1 /\ f.ota.id = a.id /\ f.ota.state \in {"prepared", "failed"})

\* write_candidate: an absent configuration becomes an empty one.
StoreCandidate(f) ==
    [config |-> IF f.config = NoConfig THEN Convert([NoConfig EXCEPT !.v = 1]) ELSE Convert(f.config),
     ota |-> f.ota]

-----------------------------------------------------------------------------
VARIABLES
    flash,   \* the board's flash, as both backups hold it
    pc,      \* where each run is
    args,    \* its command line
    mem,     \* what it has read: keys, app, bootloader, the selected slot
    done,    \* how many of its files are written
    dir,     \* whether prepare's output directory exists
    files    \* the output files

vars == <<flash, pc, args, mem, done, dir, files>>

NoArgs == [tool |-> "none", layout |-> "none", id |-> "none", original |-> FALSE]
NoMem == [srckey |-> "none", key |-> "none", app |-> "none", boot |-> "none", selected |-> -1]
Absent == [state |-> "absent", data |-> <<>>]
Partial == [state |-> "partial", data |-> <<>>]
Whole(d) == [state |-> "whole", data |-> <<d>>]

Init ==
    /\ flash \in Backups
    /\ pc = [r \in Run |-> "start"]
    /\ args = [r \in Run |-> NoArgs]
    /\ mem = [r \in Run |-> NoMem]
    /\ done = [r \in Run |-> 0]
    /\ dir = FALSE
    /\ files = [f \in Files |-> Absent]

File(r) == Outputs(args[r])[done[r] + 1]

\* The bytes of the file r is about to write.
Contents(r) ==
    LET f == File(r)
    IN IF f = "source-flash" THEN flash
       ELSE IF f = "migration-receipt" THEN Report(flash, args[r], mem[r])
       ELSE IF f = "candidate-flash" THEN Candidate(flash, args[r], mem[r])
       ELSE [at |-> OldAt(flash)]

\* prepare up to inspect_source: the backups are compared, both keys are copied
\* into the run's own directory, the source is inspected with the copy.
InspectSource(r) ==
    /\ pc[r] = "start"
    /\ \E a \in Requests, srckey \in Key \cup {"none"}, key \in Key, selected \in -1 .. 1 :
          /\ a.tool = "prepare" /\ (a.original => Native(a.layout))
          /\ inspect_source(flash, a, srckey, selected)
          /\ args' = [args EXCEPT ![r] = a]
          /\ mem' = [mem EXCEPT ![r].srckey = srckey, ![r].key = key, ![r].selected = selected]
    /\ pc' = [pc EXCEPT ![r] = "inspected"]
    /\ UNCHANGED <<flash, done, dir, files>>

\* prepare: the new app and bootloader are read and verified with the copied
\* key; a source that is kept must already run exactly these.
ReadNew(r) ==
    /\ pc[r] = "inspected"
    /\ \E app \in Image, boot \in Boot :
          /\ Verified(app, mem[r].key)
          /\ Target(flash.layout) = "esp32" => BootKey[boot] = mem[r].key
          /\ KeepsSource(flash, args[r]) => app = flash.slots[mem[r].selected] /\ boot = flash.boot
          /\ mem' = [mem EXCEPT ![r].app = app, ![r].boot = boot]
    /\ pc' = [pc EXCEPT ![r] = "made"]
    /\ UNCHANGED <<flash, args, done, dir, files>>

\* private_output_directory: mkdir of a name that is not taken.
MakeDirectory(r) ==
    /\ pc[r] = "made" /\ ~dir
    /\ dir' = TRUE
    /\ pc' = [pc EXCEPT ![r] = "create"]
    /\ UNCHANGED <<flash, args, mem, done, files>>

\* preflight: audit and, still in memory, the generated and re-read store.
Audit(r) ==
    /\ pc[r] = "start"
    /\ \E a \in Requests, selected \in Slots :
          /\ a.tool = "preflight" /\ audit(flash, a, selected)
          /\ files["base-store"] = Absent
          /\ args' = [args EXCEPT ![r] = a]
          /\ mem' = [mem EXCEPT ![r].selected = selected]
    /\ pc' = [pc EXCEPT ![r] = "link"]
    /\ UNCHANGED <<flash, done, dir, files>>

\* write_candidate: the temporary file is synced, then linked to a free name.
Link(r) ==
    /\ pc[r] = "link" /\ files["base-store"] = Absent
    /\ files' = [files EXCEPT !["base-store"] = Whole(StoreCandidate(flash))]
    /\ pc' = [pc EXCEPT ![r] = "end"]
    /\ UNCHANGED <<flash, args, mem, done, dir>>

\* archive: the backups are read and the archive is made in memory.
MakeArchive(r) ==
    /\ pc[r] = "start"
    /\ \E a \in Requests :
          /\ a.tool = "archive" /\ Archivable(flash)
          /\ args' = [args EXCEPT ![r] = a]
    /\ pc' = [pc EXCEPT ![r] = "create"]
    /\ UNCHANGED <<flash, mem, done, dir, files>>

\* write_verified, write_archive: O_EXCL creates the file.
CreateFile(r) ==
    /\ pc[r] = "create" /\ files[File(r)] = Absent
    /\ files' = [files EXCEPT ![File(r)] = Partial]
    /\ pc' = [pc EXCEPT ![r] = "write"]
    /\ UNCHANGED <<flash, args, mem, done, dir>>

\* ... it is written, synced and read back.
WriteFile(r) ==
    /\ pc[r] = "write"
    /\ files' = [files EXCEPT ![File(r)] = Whole(Contents(r))]
    /\ done' = [done EXCEPT ![r] = @ + 1]
    /\ pc' = [pc EXCEPT ![r] = IF done'[r] = Len(Outputs(args[r])) THEN "end" ELSE "create"]
    /\ UNCHANGED <<flash, args, mem, dir>>

\* write_archive: a write that fails takes the file away again.
Unlink(r) ==
    /\ pc[r] = "write" /\ args[r].tool = "archive"
    /\ files' = [files EXCEPT !["at-archive"] = Absent]
    /\ pc' = [pc EXCEPT ![r] = "stopped"]
    /\ UNCHANGED <<flash, args, mem, done, dir>>

\* main: a refusal, an OSError, or the process is killed.
Stop(r) ==
    /\ pc[r] \notin {"start", "end", "stopped"}
    /\ pc' = [pc EXCEPT ![r] = "stopped"]
    /\ UNCHANGED <<flash, args, mem, done, dir, files>>

Next ==
    \E r \in Run :
        \/ InspectSource(r) \/ ReadNew(r) \/ MakeDirectory(r)
        \/ Audit(r) \/ Link(r) \/ MakeArchive(r)
        \/ CreateFile(r) \/ WriteFile(r) \/ Unlink(r) \/ Stop(r)

Spec == Init /\ [][Next]_vars

-----------------------------------------------------------------------------
(* Properties *)

Present(f) == files[f] # Absent
IsWhole(f) == files[f].state = "whole"
Data(f) == files[f].data[1]

\* The state space is well formed: what a run holds fits where it is, and only
\* finished files have contents.
TypeOK ==
    /\ flash \in Backups
    /\ pc \in [Run -> {"start", "inspected", "made", "link", "create", "write", "end", "stopped"}]
    /\ args \in [Run -> Requests \cup {NoArgs}]
    /\ mem \in [Run -> [srckey : Key \cup {"none"}, key : Key \cup {"none"},
                        app : Image \cup {"none"}, boot : Boot \cup {"none"}, selected : -1 .. 1]]
    /\ done \in [Run -> 0 .. 4]
    /\ dir \in BOOLEAN
    /\ DOMAIN files = Files
    /\ \A f \in Files : files[f] \in {Absent, Partial} \/ (IsWhole(f) /\ files[f] = Whole(Data(f)))

\* From the moment a candidate exists, even half written, the original flash,
\* the receipt of the migration and the old AT pages are complete next to it
\* and speak of the same board and the same candidate, whichever run stopped
\* where and however many runs were started ("Archive+readback precedes
\* creation of the candidate that retires old runtime keys").
CandidateIsBacked ==
    Present("candidate-flash") =>
        /\ IsWhole("source-flash") /\ Data("source-flash") = flash
        /\ IsWhole("migration-receipt") /\ Data("migration-receipt").source = flash
        /\ Target(flash.layout) = "esp32" => IsWhole("at-old-raw")
        /\ IsWhole("candidate-flash")
              => Data("candidate-flash") = Data("migration-receipt").candidate

\* A board written with the candidate starts what the receipt says: the
\* bootloader takes the named slot, it holds the named app signed with the
\* named key, the bootloader trusts that key, and no slot it may fall back to
\* holds anything unverified, although the input files change between reads.
ReceiptIsTrue ==
    IsWhole("candidate-flash") =>
        LET c == Data("candidate-flash")
            w == Data("migration-receipt")
        IN /\ Native(c.layout) /\ Boots(c.otadata, w.slot)
           /\ c.slots[w.slot] = w.app /\ Signer[w.app] = w.key
           /\ Target(c.layout) = "esp32" => BootKey[c.boot] = w.key
           /\ \A s \in Slots : c.slots[s] = "erased" \/ Verified(c.slots[s], w.key)
                                                     \/ Verified(c.slots[s], w.srckey)

\* The pages of the old AT system: three of NVS and two of at_customize.
NvsPage(f, i) == IF f.layout = "esp32_product" /\ i = 3 THEN "erased" ELSE f.at[i]
CustomPage(f, i) == f.at[Len(f.at) - 2 + i]
SamePages(f, at) ==
    /\ ~f.more /\ Len(at) = 5
    /\ \A i \in 1 .. 3 : at[i] = NvsPage(f, i)
    /\ \A i \in 1 .. 2 : at[3 + i] = CustomPage(f, i)

SameConfig(c, d) ==
    d.v \in {0, 3} /\ d.rev = c.rev /\ d.wifi = c.wifi /\ d.mqtt = c.mqtt

\* No migration loses or settles anything on its own: no upgrade, package or
\* product operation is open in a source that yields a candidate, its
\* identity, configuration with revision and AT pages are carried over, and
\* each retired record is in the candidate or in the receipt.
NothingIsLost ==
    /\ IsWhole("candidate-flash") =>
          LET c == Data("candidate-flash")
              w == Data("migration-receipt")
          IN /\ flash.ota.state # "prepared" /\ flash.ecs.phase # "busy" /\ flash.ledger # "prepared"
             /\ \A i \in Slots : flash.otadata[i].state # "pending"
             /\ SameConfig(flash.config, c.config) /\ (c.config.v = 0 <=> flash.config.v = 0)
             /\ ~Foreign(flash.layout) => c.id = flash.id
             /\ flash.ota \in {c.ota, w.retired.ota} /\ flash.ecs \in {c.ecs, w.retired.ecs}
             /\ flash.ledger \in {c.ledger, w.retired.ledger}
             /\ Native(flash.layout) => flash.ota = c.ota
             /\ Target(flash.layout) = "esp32"
                   => SamePages(flash, c.at) /\ SamePages(flash, Data("at-old-raw").at)
    /\ IsWhole("base-store") =>
          SameConfig(flash.config, Data("base-store").config) /\ Data("base-store").ota = flash.ota
    /\ IsWhole("at-archive") => SamePages(flash, Data("at-archive").at)

\* The slot either tool takes for the running one is the slot the board's
\* bootloader starts, for every pair of otadata copies.  What prepare takes is an
\* image verified with the source key; preflight promises no more than the first
\* byte of one ("镜像头和选择器解析不能证明镜像可启动").
SelectionAgrees ==
    \A r \in Run :
        mem[r].selected # -1 =>
            LET content == flash.slots[mem[r].selected]
            IN /\ Boots(flash.otadata, mem[r].selected)
               /\ IF args[r].tool = "prepare" THEN Verified(content, mem[r].srckey)
                  ELSE HasHeader(content)
=============================================================================
