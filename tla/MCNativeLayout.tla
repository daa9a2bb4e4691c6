--------------------------- MODULE MCNativeLayout ---------------------------
EXTENDS NativeLayout, TLC

MCImage == {"a", "b", "c", "u"}
MCSigner == [i \in MCImage |-> IF i = "c" THEN "k2" ELSE IF i = "u" THEN "none" ELSE "k1"]
MCBootKey == [b \in {"old", "new"} |-> IF b = "old" THEN "k1" ELSE "k2"]

MCRequests ==
    {[tool |-> "prepare", layout |-> l, id |-> "dev", original |-> o] :
        l \in Layouts, o \in BOOLEAN}
      \cup {[tool |-> t, layout |-> "none", id |-> "dev", original |-> FALSE] :
               t \in {"preflight", "archive"}}

\* Every otadata copy with sequences 1 to 3; INVALID stands for ABORTED and
\* PENDING_VERIFY for NEW.
Copies ==
    {Erased, [Erased EXCEPT !.kind = "bad"]}
      \cup [kind : {"entry"}, seq : 1 .. 3, state : {"pending", "valid", "invalid", "undefined"}]

Config(n) == [v |-> n, rev |-> 2, wifi |-> TRUE, mqtt |-> n > 1]

Receipts(n, states, sources, spares, seqs, packs) ==
    {NoReceipt}
      \cup [v : {n}, id : {"dev"}, state : states, source : sources, new : {"b"}, old : {"a"},
            spare : spares, seq : seqs, pack : packs]

Terminal == {"succeeded", "failed", "prepared"}

\* A board of one layout with nothing in its store; every pair of copies.
Board(l, contents) ==
    [layout |-> {l}, id |-> {"dev"}, slots |-> [Slots -> contents],
     otadata |-> [Slots -> Copies], config |-> {NoConfig}, ota |-> {NoReceipt},
     ecs |-> {NoPackages}, ledger |-> {"none"}, at |-> {<<>>}, more |-> {FALSE}, boot |-> {"old"}]

AtPages == {<<"n1", "n2", "n3", "c1", "c2">>}

C3Native ==
    [Board("c3_native", {"erased", "a", "b"}) EXCEPT
        !.ota = Receipts(4, Terminal, {0}, {"none", "b"}, {0}, {"none"})]

Esp32Native ==
    [Board("esp32_native", {"erased", "a", "c"}) EXCEPT !.at = AtPages, !.config = {Config(3)}]

C3V1 ==
    [Board("c3_v1", {"erased", "header", "a", "u"}) EXCEPT
        !.ota = Receipts(1, {"prepared", "failed"}, {0}, {"none"}, {0}, {"none"}),
        !.config = {NoConfig} \cup {Config(n) : n \in 1 .. 2}]

\* The product layouts: two settled slots, every state of the packages.
Bound == [i \in MCImage |-> IF i = "a" THEN "p" ELSE IF i = "b" THEN "q" ELSE "unbound"]
Product(l, at) ==
    [Board(l, {}) EXCEPT
        !.slots = {[s \in Slots |-> IF s = 0 THEN "a" ELSE "b"]},
        !.otadata = {[s \in Slots |-> Valid(IF s = 0 THEN n ELSE 2)] : n \in {1, 3}},
        !.config = {Config(3)}, !.ledger = {"none", "settled", "prepared"}, !.at = {at},
        !.ota = Receipts(3, Terminal, Slots, {"none", "b"}, {0, 1, 3}, {"none", "p", "q"}),
        !.ecs = {NoPackages} \cup [phase : {"idle", "confirmed", "busy"}, seq : {2},
                                   bind : {Bound, [Bound EXCEPT !["b"] = "unbound"]}]]

Factory == [Board("c3_mqtt_factory", {"erased"}) EXCEPT
               !.otadata = {[s \in Slots |-> Erased]}, !.id = {"none"}, !.more = BOOLEAN]
OldAtBoard == [Board("esp32_at", {"erased"}) EXCEPT
                  !.otadata = {[s \in Slots |-> Erased]}, !.id = {"dev", "other"},
                  !.more = BOOLEAN, !.at = AtPages,
                  !.config = {NoConfig, [NoConfig EXCEPT !.wifi = TRUE]}]

MCFamilies ==
    {C3Native, Esp32Native, C3V1, Product("c3_product", <<>>),
     Product("esp32_product", <<"n1", "n2", "c1", "c2">>), Factory, OldAtBoard}

Symmetry == Permutations(Run)
=============================================================================
