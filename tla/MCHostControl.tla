--------------------------- MODULE MCHostControl ---------------------------
(* Two runs of the tool, one endpoint, two boards. *)
EXTENDS HostControl, TLC

CONSTANTS r1, r2, b1, b2

Good == [schema |-> 4, business |-> "null", wifi |-> "good", mqtt |-> "null"]
Bad == [Good EXCEPT !.mqtt = "bad"]

Ask(command, config) == [command |-> command, board |-> b1, op |-> r1, config |-> config]

\* The first run may be anything; the second writes a configuration or starts an
\* upgrade, the one the first asks the result of or starts as well.
MCInvocations ==
    [r \in Runs |->
        IF r = r1 THEN {Ask(c, Good) : c \in Commands} \cup {Ask("config.set", Bad)}
        ELSE {Ask(c, Good) : c \in {"config.set", "ota.start"}}]
=============================================================================
