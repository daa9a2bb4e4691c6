--------------------------- MODULE MCOtaOperation ---------------------------
(* Two or three signed images and two operation identifiers: an upgrade, a   *)
(* further one, a downgrade to an earlier image, and every repetition.       *)
EXTENDS OtaOperation
=============================================================================
