----------------------------- MODULE MCStateFile -----------------------------
(* Values for the constants of StateFile: documents of two lengths.        *)
EXTENDS StateFile

CONSTANTS short, long, longer

MCLength == [d \in Doc |-> IF d = short THEN 1 ELSE IF d = long THEN 2 ELSE 3]
=============================================================================
