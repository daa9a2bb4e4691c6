--------------------------- MODULE MCControlPlane ---------------------------
(***************************************************************************)
(* Two boots.  In the first one two configurations compete for revision 0, *)
(* an upgrade, a restart and a pause follow, and one identifier is used    *)
(* for two different requests; the second boot starts from what was stored.*)
(* The table has fewer slots than there are identifiers.                   *)
(***************************************************************************)
EXTENDS ControlPlane

CONSTANTS a, b, c, d, home, cafe

MCIds == {a, b, c, d}
MCSettings == {Unconfigured, home, cafe}
Make(id, bt, command, revision, setting) ==
    [id |-> id, boot |-> bt, expires |-> 4, command |-> command, revision |-> revision,
     setting |-> setting]
MCRequests ==
    {Make(a, 0, "config", 0, home), Make(b, 0, "config", 0, cafe),
     Make(b, 0, "ota", 0, home), Make(c, 0, "restart", 0, home), Make(d, 0, "pause", 0, home),
     Make(a, 1, "config", 1, cafe), Make(b, 1, "resume", 0, home),
     Make(b, 1, "ota", 0, home), Make(c, 1, "pause", 0, home), Make(d, 1, "restart", 0, home)}
=============================================================================
