-------------------------- MODULE MCMqttOtaStream --------------------------
(***************************************************************************)
(* Transfers of an image with a full last block and of one with a tail.    *)
(* Two tags are enough for a repeated frame and a conflicting one.  The    *)
(* run checks liveness too, and so uses no symmetry.                       *)
(***************************************************************************)
EXTENDS MqttOtaStream
=============================================================================
