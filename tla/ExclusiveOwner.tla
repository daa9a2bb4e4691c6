--------------------------- MODULE ExclusiveOwner ---------------------------
(***************************************************************************)
(* What the flash owner promises its callers: a resource that one task at  *)
(* a time takes and gives back.  StorageOwner, which models the token      *)
(* algorithm of esp_base_storage_owner.c and the handoff of                *)
(* esp_base_main.c step by step, is shown to implement it.                 *)
(***************************************************************************)
CONSTANTS Tasks,   \* who may take the resource
          Nobody   \* the absence of a holder, not a task

VARIABLE holder

Init == holder = Nobody

Take(t) == holder = Nobody /\ holder' = t

Give(t) == holder = t /\ holder' = Nobody

Next == \E t \in Tasks : Take(t) \/ Give(t)

Spec == Init /\ [][Next]_holder
=============================================================================
