--------------------------- MODULE MCStorageOwner ---------------------------
(* Boot task, control task and OTA worker with the calls each really makes. *)
EXTENDS StorageOwner

CONSTANTS main, control, worker

MCTasks == {main, control, worker}
MCCalls == {<<main, "ota">>, <<main, "retry">>, <<control, "ota">>,
            <<control, "once">>, <<worker, "ota">>}
=============================================================================
