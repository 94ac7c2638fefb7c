----------------------------- MODULE MCLiveFeed -----------------------------
(* The instance of LiveFeed that TLC checks: one request after the other    *)
(* changes the pool while a page is watched, or two at a time reach docker. *)
EXTENDS LiveFeed

CONSTANT g1

MCScenario == { [mounted |-> FALSE, pages |-> Client, calls |-> {g1}],
                [mounted |-> TRUE, pages |-> {}, calls |-> Call] }
=============================================================================
