----------------------------- MODULE AtomicStore -----------------------------
(***************************************************************************)
(* What state.Save and state.Load promise: the store holds one document,   *)
(* a save replaces it in one step, and a restart loads the last one saved. *)
(***************************************************************************)
CONSTANTS Doc, None

VARIABLES stored,   \* the document a load would return, None before any save
          loaded    \* what the last startup loaded

Init == stored \in Doc \cup {None} /\ loaded = stored

Save == stored' \in Doc /\ UNCHANGED loaded

Restart == loaded' = stored /\ UNCHANGED stored

Next == Save \/ Restart

Spec == Init /\ [][Next]_<<stored, loaded>>
=============================================================================
