--------------------------- MODULE MCWifiRuntime ---------------------------
(* Three networks; two of them differ in the password alone. *)
EXTENDS WifiRuntime, TLC

MCNetworks == {"home", "homeNew", "other"}
MCSsid == [n \in MCNetworks |-> IF n = "other" THEN "s2" ELSE "s1"]
=============================================================================
