------------------------ MODULE EndpointPool_proofs ------------------------
(***************************************************************************)
(* Proofs about EndpointPool: typing, for any set of endpoints, requests   *)
(* and priorities, with or without the probing loop.                       *)
(***************************************************************************)
EXTENDS EndpointPool, TLAPS

(* What the operators of the model return: pools from pools.               *)
LEMMA PatchedType ==
  ASSUME NEW ep \in EndpointRec, NEW p \in Patch
  PROVE  Patched(ep, p) \in EndpointRec
BY KeepAssumption DEF Patched, EndpointRec, Patch, Status

LEMMA ProbedType ==
  ASSUME NEW eps \in Pool
  PROVE  Probed(eps) \in Pool
BY DEF Probed, Pool, EndpointRec, Status

LEMMA MergedType ==
  ASSUME NEW current \in Pool, NEW probed \in Pool
  PROVE  Merged(current, probed) \in Pool
BY DEF Merged, Pool, EndpointRec, Status

LEMMA RestoredType ==
  ASSUME NEW saved \in Pool \cup {None}
  PROVE  Restored(saved) \in Pool
<1>1. CASE saved = None
  BY <1>1, ParsedAssumption DEF Restored, Pool, EndpointRec, Status
<1>2. CASE saved \in Pool
  <2>1. saved # None
    BY <1>2, NoneAssumption
  <2> QED
    BY <1>2, <2>1, ParsedAssumption DEF Restored, Pool, EndpointRec, Status
<1> QED
  BY <1>1, <1>2

LEMMA LeftBehindType ==
  ASSUME TypeOK, loopOwns
  PROVE  LeftBehind \in Pool
<1>1. pool \in Pool /\ loopSlice \in Pool
  BY DEF TypeOK
<1> QED
  BY <1>1 DEF LeftBehind, LoopElem, Pool

(* A publication by another goroutine keeps the slice of main's goroutine  *)
(* a pool whenever it was one.                                             *)
LEMMA SetEndpointsType ==
  ASSUME TypeOK, NEW eps \in Pool, SetEndpoints(eps)
  PROVE  /\ pool' \in Pool
         /\ loopOwns' = FALSE
         /\ loopSlice' \in Pool \cup {None}
         /\ loopSlice \in Pool => loopSlice' \in Pool
BY LeftBehindType DEF SetEndpoints, TypeOK

-----------------------------------------------------------------------------
(* One lemma per process: its steps preserve the types.                    *)
LEMMA PatchStepType ==
  ASSUME TypeOK, NEW p \in Patcher, PatchStep(p)
  PROVE  TypeOK'
<1>1. CASE \E e \in Endpoint, patch \in Patch : PatchEndpoint(p, e, patch)
  <2>1. PICK e \in Endpoint, patch \in Patch : PatchEndpoint(p, e, patch)
    BY <1>1
  <2>2. pool[e] \in EndpointRec
    BY DEF TypeOK, Pool
  <2>3. Patched(pool[e], patch) \in EndpointRec
    BY <2>2, PatchedType
  <2>4. pool' \in Pool
    BY <2>1, <2>3 DEF TypeOK, Pool, PatchEndpoint
  <2> QED
    BY <2>1, <2>4 DEF TypeOK, PatchEndpoint, probeVars, loopVars, runVars
<1>2. CASE PatchSnapshot(p)
  BY <1>2 DEF TypeOK, PatchSnapshot, poolVars, probeVars, loopVars, runVars
<1>3. CASE PatchSave(p)
  BY <1>3 DEF TypeOK, PatchSave, probeVars, loopVars, runVars
<1> QED
  BY <1>1, <1>2, <1>3 DEF PatchStep

LEMMA ProbeStepType ==
  ASSUME TypeOK, NEW h \in ProbeRequest, ProbeStep(h)
  PROVE  TypeOK'
<1>1. CASE ProbeStart(h)
  BY <1>1 DEF TypeOK, ProbeStart, poolVars, patchVars, loopVars, runVars
<1>2. CASE ProbeAll(h)
  <2>1. probeSlice[h] \in Pool
    BY <1>2 DEF TypeOK, ProbeAll
  <2>2. Probed(probeSlice[h]) \in Pool
    BY <2>1, ProbedType
  <2> QED
    BY <1>2, <2>2 DEF TypeOK, ProbeAll, poolVars, patchVars, loopVars, runVars
<1>3. CASE ProbePublish(h)
  <2>1. probeSlice[h] \in Pool /\ SetEndpoints(probeSlice[h])
    BY <1>3 DEF TypeOK, ProbePublish
  <2>2. /\ pool' \in Pool
        /\ loopOwns' = FALSE
        /\ loopSlice' \in Pool \cup {None}
        /\ loopSlice \in Pool => loopSlice' \in Pool
    BY <2>1, SetEndpointsType
  <2> QED
    BY <1>3, <2>2 DEF TypeOK, ProbePublish, patchVars, runVars
<1> QED
  BY <1>1, <1>2, <1>3 DEF ProbeStep

LEMMA LoopStepType ==
  ASSUME TypeOK, LoopStep
  PROVE  TypeOK'
<1>1. CASE \E e \in Endpoint : LoopScan(e)
  <2>1. PICK e \in Endpoint : LoopScan(e)
    BY <1>1
  <2>2. loopSlice' \in Pool
    BY <2>1 DEF TypeOK, LoopScan, LoopElem, Pool
  <2> QED
    BY <2>1, <2>2 DEF TypeOK, LoopScan, poolVars, patchVars, probeVars, runVars
<1>2. CASE LoopProbe
  <2>1. Probed(loopSlice) \in Pool
    BY <1>2, ProbedType DEF TypeOK, LoopProbe
  <2> QED
    BY <1>2, <2>1 DEF TypeOK, LoopProbe, poolVars, patchVars, probeVars, runVars
<1>3. CASE LoopPublish
  BY <1>3 DEF TypeOK, LoopPublish, patchVars, probeVars, runVars
<1>4. CASE LoopSave
  BY <1>4 DEF TypeOK, LoopSave, patchVars, probeVars
<1>5. CASE LoopReceive
  <2>1. Merged(pool, queued) \in Pool
    BY <1>5, MergedType DEF TypeOK, LoopReceive
  <2> QED
    BY <1>5, <2>1 DEF TypeOK, LoopReceive, poolVars, patchVars, probeVars
<1> QED
  BY <1>1, <1>2, <1>3, <1>4, <1>5 DEF LoopStep

LEMMA RunStepType ==
  ASSUME TypeOK, RunStep
  PROVE  TypeOK'
<1>1. CASE RunFetch
  BY <1>1 DEF TypeOK, RunFetch, poolVars, patchVars, probeVars, loopVars
<1>2. CASE RunProbe
  <2>1. Probed(runSlice) \in Pool
    BY <1>2, ProbedType DEF TypeOK, RunProbe
  <2> QED
    BY <1>2, <2>1 DEF TypeOK, RunProbe, poolVars, patchVars, probeVars, loopVars
<1>3. CASE RunSend
  BY <1>3 DEF TypeOK, RunSend, poolVars, patchVars, probeVars, loopVars
<1> QED
  BY <1>1, <1>2, <1>3 DEF RunStep

LEMMA FlapType ==
  ASSUME TypeOK, NEW e \in Endpoint, Flap(e)
  PROVE  TypeOK'
BY DEF TypeOK, Flap, poolVars, patchVars, probeVars, loopVars, runVars

LEMMA MarkErrorType ==
  ASSUME TypeOK, NEW e \in Endpoint, MarkError(e)
  PROVE  TypeOK'
<1>1. pool' \in Pool
  BY DEF TypeOK, MarkError, Pool, EndpointRec, Status
<1> QED
  BY <1>1 DEF TypeOK, MarkError, patchVars, probeVars, loopVars, runVars

LEMMA InitType == Init => TypeOK
<1> SUFFICES ASSUME Init PROVE TypeOK
  OBVIOUS
<1>1. pool \in Pool
  BY SavedAssumption, RestoredType DEF Init
<1> QED
  BY <1>1, SavedAssumption, ProbeOnStartAssumption DEF Init, TypeOK

LEMMA StutterType ==
  ASSUME TypeOK, UNCHANGED vars
  PROVE  TypeOK'
BY DEF TypeOK, vars, poolVars, patchVars, probeVars, loopVars, runVars

LEMMA StepType ==
  ASSUME TypeOK, [Next]_vars
  PROVE  TypeOK'
<1>1. CASE \E p \in Patcher : PatchStep(p)
  BY <1>1, PatchStepType
<1>2. CASE \E h \in ProbeRequest : ProbeStep(h)
  BY <1>2, ProbeStepType
<1>3. CASE LoopStep
  BY <1>3, LoopStepType
<1>4. CASE RunStep
  BY <1>4, RunStepType
<1>5. CASE \E e \in Unstable : Flap(e) \/ MarkError(e)
  BY <1>5, UnstableAssumption, FlapType, MarkErrorType
<1>6. CASE UNCHANGED vars
  BY <1>6, StutterType
<1> QED
  BY <1>1, <1>2, <1>3, <1>4, <1>5, <1>6 DEF Next

(* Every copy of the pool, in the balancer, in a request, in the channel,  *)
(* in main's goroutine or on disk, has a record for every endpoint, and a  *)
(* goroutine that is about to use its copy has one.                        *)
THEOREM Typing == Spec => []TypeOK
<1>1. Init => TypeOK
  BY InitType
<1>2. TypeOK /\ [Next]_vars => TypeOK'
  BY StepType
<1> QED
  BY <1>1, <1>2, PTL DEF Spec
=============================================================================
