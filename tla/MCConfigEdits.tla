---------------------------- MODULE MCConfigEdits ----------------------------
(* Documents for ConfigEdits: one without anything, one with all sources,   *)
(* rules and switches, and one of a single legacy source.                   *)
EXTENDS ConfigEdits, TLC

MCDocument ==
  { EmptyConfig,
    [sources |-> Name \cup {Legacy}, sidecars |-> CHOOSE n \in Name : TRUE,
     rules |-> CHOOSE list \in Rules : list # NoRules,
     blockDirect |-> TRUE, spoof |-> TRUE],
    [EmptyConfig EXCEPT !.sources = {Legacy}, !.blockDirect = TRUE] }

(* Requests are alike, and only safety is checked.                          *)
MCSymmetry == Permutations(Request)
=============================================================================
