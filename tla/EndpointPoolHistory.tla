------------------------- MODULE EndpointPoolHistory -------------------------
(***************************************************************************)
(* EndpointPool with history variables, which no step reads: what changed  *)
(* in the pool behind the back of each goroutine that is going to replace  *)
(* it.                                                                     *)
(***************************************************************************)
EXTENDS EndpointPool

VARIABLES
  loopUnseen,   \* endpoints whose overrides changed after main's goroutine
                \* copied them and before it publishes that copy
  probeUnseen   \* the same for every POST /api/probe

historyVars == <<loopUnseen, probeUnseen>>
hvars == <<vars, historyVars>>

HInit ==
  /\ Init
  /\ loopUnseen = {}
  /\ probeUnseen = [h \in ProbeRequest |-> {}]

Changed == {e \in Endpoint : Overrides(pool'[e]) # Overrides(pool[e])}

(* A write to the array main's goroutine shares reaches the elements it    *)
(* has yet to read.                                                        *)
Missed == {e \in Changed : ~ (loopOwns /\ loopOwns' /\ e \notin scanned)}

Received == loopPc = "wait" /\ loopPc' = "publish"
Started(h) == probePc[h] = "idle" /\ probePc'[h] = "probe"

RecordHistory ==
  /\ loopUnseen' = IF Received THEN {} ELSE loopUnseen \cup Missed
  /\ probeUnseen' = [h \in ProbeRequest |->
                       IF Started(h) THEN {} ELSE probeUnseen[h] \cup Changed]

HNext == Next /\ RecordHistory

HSpec == HInit /\ [][HNext]_hvars

(* A toggle is lost in one way only.  A step that changes the overrides of *)
(* an endpoint is a PATCH of it, or replaces the pool with a copy taken    *)
(* before the last change of that endpoint: SetEndpoints in handleProbe    *)
(* and in the two publications of main's goroutine.  In particular a merge *)
(* can lose only what changed after `current := b.Endpoints()`, never what *)
(* changed during the seconds its probe pass took.                         *)
LostOnlyToStaleCopy ==
  [][\A e \in Changed :
       \/ \E p \in Patcher : patchPc[p] = "idle" /\ patchPc'[p] = "snapshot"
       \/ loopPc = "publish" /\ loopPc' = "savescan" /\ e \in loopUnseen
       \/ \E h \in ProbeRequest :
            /\ probePc[h] = "publish" /\ probePc'[h] = "done"
            /\ e \in probeUnseen[h]]_hvars

(* What the copy of main's goroutine has, or is about to read, for e.      *)
Held(e) == IF loopPc = "bootscan" /\ e \notin scanned THEN LoopElem(e) ELSE loopSlice[e]

(* Every copy of the pool on its way back into it agrees with the pool on  *)
(* the overrides of each endpoint that nothing changed since it was made.  *)
CopiesFresh ==
  /\ loopPc \in {"bootscan", "bootprobe", "publish"} =>
       \A e \in Endpoint \ loopUnseen : Overrides(Held(e)) = Overrides(pool[e])
  /\ \A h \in ProbeRequest : probePc[h] \in {"probe", "publish"} =>
       \A e \in Endpoint \ probeUnseen[h] :
         Overrides(probeSlice[h][e]) = Overrides(pool[e])
=============================================================================
