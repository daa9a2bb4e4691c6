--------------------------- MODULE MCEventPublish ---------------------------
(* Two publishers, two events, one of them a pause. *)
EXTENDS EventPublish, TLC

CONSTANTS p1, p2, data, stop

MCKind == data :> "data" @@ stop :> "pause"

Ask(b, n, e) == [boot |-> b, sequence |-> n, event |-> e]

\* The second publisher competes for the same sequence or follows it.
MCAsked ==
    p1 :> {Ask(0, 1, data), Ask(0, 1, stop)}
        @@ p2 :> {Ask(0, 1, data), Ask(0, 2, data)}
=============================================================================
