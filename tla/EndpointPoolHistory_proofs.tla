--------------------- MODULE EndpointPoolHistory_proofs ---------------------
(***************************************************************************)
(* What can lose a toggle or a priority, for any number of endpoints,      *)
(* requests and priorities: the inductive invariant CopiesFresh, and the   *)
(* action property LostOnlyToStaleCopy that follows from it.               *)
(***************************************************************************)
EXTENDS EndpointPoolHistory, EndpointPool_proofs

LoopFresh ==
  loopPc \in {"bootscan", "bootprobe", "publish"} =>
    \A e \in Endpoint \ loopUnseen : Overrides(Held(e)) = Overrides(pool[e])

ProbeFresh(h) ==
  probePc[h] \in {"probe", "publish"} =>
    \A e \in Endpoint \ probeUnseen[h] : Overrides(probeSlice[h][e]) = Overrides(pool[e])

LEMMA FreshParts == CopiesFresh <=> LoopFresh /\ \A h \in ProbeRequest : ProbeFresh(h)
BY DEF CopiesFresh, LoopFresh, ProbeFresh

(* Probing and merging touch no override.                                  *)
LEMMA ProbedKeeps ==
  ASSUME NEW eps \in Pool, NEW e \in Endpoint
  PROVE  Overrides(Probed(eps)[e]) = Overrides(eps[e])
<1>1. eps[e] \in EndpointRec
  BY DEF Pool
<1> QED
  BY <1>1 DEF Probed, Overrides, EndpointRec

LEMMA MergedKeeps ==
  ASSUME NEW current \in Pool, NEW probed, NEW e \in Endpoint
  PROVE  Overrides(Merged(current, probed)[e]) = Overrides(current[e])
<1>1. current[e] \in EndpointRec
  BY DEF Pool
<1> QED
  BY <1>1 DEF Merged, Overrides, EndpointRec

-----------------------------------------------------------------------------
(* A request that neither starts nor probes in a step keeps a fresh copy:  *)
(* what the step changes it records as unseen.                             *)
LEMMA ProbeKept ==
  ASSUME RecordHistory, NEW h \in ProbeRequest, ProbeFresh(h),
         probePc'[h] = probePc[h], probeSlice'[h] = probeSlice[h]
  PROVE  ProbeFresh(h)'
<1> SUFFICES ASSUME probePc'[h] \in {"probe", "publish"},
                    NEW e \in Endpoint \ probeUnseen'[h]
             PROVE  Overrides(probeSlice'[h][e]) = Overrides(pool'[e])
  BY DEF ProbeFresh, Overrides
<1>1. probeUnseen'[h] = probeUnseen[h] \cup Changed
  BY DEF RecordHistory, Started
<1>2. Overrides(probeSlice[h][e]) = Overrides(pool[e])
  BY <1>1 DEF ProbeFresh
<1>3. Overrides(pool'[e]) = Overrides(pool[e])
  BY <1>1 DEF Changed
<1> QED
  BY <1>2, <1>3

LEMMA ProbesKept ==
  ASSUME RecordHistory, \A h \in ProbeRequest : ProbeFresh(h),
         UNCHANGED <<probePc, probeSlice>>
  PROVE  (\A h \in ProbeRequest : ProbeFresh(h))'
BY ProbeKept

(* A step of another goroutine that leaves the array of main's alone.      *)
LEMMA LoopKept ==
  ASSUME TypeOK, RecordHistory, LoopFresh, UNCHANGED loopVars
  PROVE  LoopFresh'
<1> SUFFICES ASSUME loopPc' \in {"bootscan", "bootprobe", "publish"},
                    NEW e \in Endpoint \ loopUnseen'
             PROVE  Overrides(Held(e))' = Overrides(pool[e])'
  BY DEF LoopFresh
<1>1. /\ UNCHANGED <<loopPc, loopSlice, loopOwns, scanned>>
      /\ loopUnseen' = loopUnseen \cup Missed
  BY DEF loopVars, RecordHistory, Received
<1>2. CASE loopOwns /\ e \notin scanned
  <2>1. loopPc = "bootscan"
    BY <1>1, <1>2 DEF TypeOK
  <2> QED
    BY <1>1, <1>2, <2>1 DEF Held, LoopElem
<1>3. CASE ~ (loopOwns /\ e \notin scanned)
  <2>1. Overrides(pool'[e]) = Overrides(pool[e])
    BY <1>1, <1>3 DEF Missed, Changed
  <2>2. Held(e) = loopSlice[e] /\ Held(e)' = loopSlice[e]
    BY <1>1, <1>3 DEF Held, LoopElem
  <2>3. Overrides(Held(e)) = Overrides(pool[e])
    BY <1>1 DEF LoopFresh
  <2> QED
    BY <2>1, <2>2, <2>3 DEF Overrides
<1> QED
  BY <1>2, <1>3

-----------------------------------------------------------------------------
(* Every process preserves freshness.                                      *)
LEMMA PatchFresh ==
  ASSUME TypeOK, CopiesFresh, RecordHistory, NEW p \in Patcher, PatchStep(p)
  PROVE  CopiesFresh'
<1>1. UNCHANGED <<probePc, probeSlice>> /\ UNCHANGED loopVars
  BY DEF PatchStep, PatchEndpoint, PatchSnapshot, PatchSave, probeVars, loopVars
<1> QED
  BY <1>1, FreshParts, ProbesKept, LoopKept DEF CopiesFresh, LoopFresh, ProbeFresh

LEMMA RunFresh ==
  ASSUME TypeOK, CopiesFresh, RecordHistory, RunStep
  PROVE  CopiesFresh'
<1>1. UNCHANGED <<probePc, probeSlice>> /\ UNCHANGED loopVars
  BY DEF RunStep, RunFetch, RunProbe, RunSend, probeVars, loopVars
<1> QED
  BY <1>1, FreshParts, ProbesKept, LoopKept DEF CopiesFresh, LoopFresh, ProbeFresh

LEMMA WorldFresh ==
  ASSUME TypeOK, CopiesFresh, RecordHistory, NEW e \in Endpoint, Flap(e) \/ MarkError(e)
  PROVE  CopiesFresh'
<1>1. UNCHANGED <<probePc, probeSlice>> /\ UNCHANGED loopVars
  BY DEF Flap, MarkError, probeVars, loopVars
<1> QED
  BY <1>1, FreshParts, ProbesKept, LoopKept DEF CopiesFresh, LoopFresh, ProbeFresh

(* A publication by POST /api/probe leaves main's goroutine with an array  *)
(* of its own, as fresh as the shared one was.                             *)
LEMMA PublishFresh ==
  ASSUME TypeOK, RecordHistory, LoopFresh, NEW h \in ProbeRequest, ProbePublish(h)
  PROVE  LoopFresh'
<1> SUFFICES ASSUME loopPc' \in {"bootscan", "bootprobe", "publish"},
                    NEW e \in Endpoint \ loopUnseen'
             PROVE  Overrides(Held(e))' = Overrides(pool[e])'
  BY DEF LoopFresh
<1>1. /\ UNCHANGED <<loopPc, scanned>>
      /\ loopOwns' = FALSE
      /\ loopSlice' = IF loopOwns THEN LeftBehind ELSE loopSlice
  BY DEF ProbePublish, SetEndpoints
<1>2. loopUnseen' = loopUnseen \cup Changed
  BY <1>1 DEF RecordHistory, Received, Missed, Changed
<1>3. Overrides(pool'[e]) = Overrides(pool[e])
  BY <1>2 DEF Changed
<1>4. Overrides(Held(e)) = Overrides(pool[e])
  BY <1>1, <1>2 DEF LoopFresh
<1>5. Held(e)' = Held(e)
  <2>1. Held(e)' = loopSlice'[e]
    BY <1>1 DEF Held, LoopElem
  <2>2. CASE loopOwns
    <3>1. loopPc = "bootscan"
      BY <1>1, <2>2 DEF TypeOK
    <3> QED
      BY <1>1, <2>1, <2>2, <3>1 DEF Held, LoopElem, LeftBehind
  <2>3. CASE ~ loopOwns
    BY <1>1, <2>1, <2>3 DEF Held, LoopElem
  <2> QED
    BY <2>2, <2>3
<1> QED
  BY <1>3, <1>4, <1>5 DEF Overrides

LEMMA ProbeFreshStep ==
  ASSUME TypeOK, CopiesFresh, RecordHistory, NEW h \in ProbeRequest, ProbeStep(h)
  PROVE  CopiesFresh'
<1>0. LoopFresh /\ \A g \in ProbeRequest : ProbeFresh(g)
  BY FreshParts
<1>1. ASSUME NEW g \in ProbeRequest, g # h
      PROVE  ProbeFresh(g)'
  <2>1. probePc'[g] = probePc[g] /\ probeSlice'[g] = probeSlice[g]
    BY <1>1 DEF ProbeStep, ProbeStart, ProbeAll, ProbePublish, TypeOK
  <2> QED
    BY <1>0, <2>1, ProbeKept
<1>2. CASE ProbeStart(h)
  <2>1. probeSlice'[h] = pool /\ pool' = pool
    BY <1>2 DEF ProbeStart, TypeOK, poolVars
  <2>2. ProbeFresh(h)'
    BY <2>1 DEF ProbeFresh, Overrides
  <2>3. LoopFresh'
    BY <1>0, <1>2, LoopKept DEF ProbeStart
  <2> QED
    BY <1>1, <2>2, <2>3 DEF CopiesFresh, LoopFresh, ProbeFresh
<1>3. CASE ProbeAll(h)
  <2>1. /\ probePc[h] = "probe" /\ probePc'[h] = "publish"
        /\ probeSlice'[h] = Probed(probeSlice[h])
        /\ pool' = pool /\ probeSlice[h] \in Pool
    BY <1>3 DEF ProbeAll, TypeOK, poolVars
  <2>2. probeUnseen'[h] = probeUnseen[h] \cup Changed
    BY <2>1 DEF RecordHistory, Started
  <2>3. \A e \in Endpoint \ probeUnseen'[h] :
          Overrides(probeSlice'[h][e]) = Overrides(pool'[e])
    BY <1>0, <2>1, <2>2, ProbedKeeps DEF ProbeFresh
  <2>4. ProbeFresh(h)'
    BY <2>3 DEF ProbeFresh, Overrides
  <2>5. LoopFresh'
    BY <1>0, <1>3, LoopKept DEF ProbeAll
  <2> QED
    BY <1>1, <2>4, <2>5 DEF CopiesFresh, LoopFresh, ProbeFresh
<1>4. CASE ProbePublish(h)
  <2>1. probePc'[h] = "done"
    BY <1>4 DEF ProbePublish, TypeOK
  <2>2. ProbeFresh(h)'
    BY <2>1 DEF ProbeFresh
  <2>3. LoopFresh'
    BY <1>0, <1>4, PublishFresh
  <2> QED
    BY <1>1, <2>2, <2>3 DEF CopiesFresh, LoopFresh, ProbeFresh
<1> QED
  BY <1>2, <1>3, <1>4 DEF ProbeStep

LEMMA LoopFreshStep ==
  ASSUME TypeOK, CopiesFresh, RecordHistory, LoopStep
  PROVE  CopiesFresh'
<1>0. LoopFresh /\ \A g \in ProbeRequest : ProbeFresh(g)
  BY FreshParts
<1>1. (\A g \in ProbeRequest : ProbeFresh(g))'
  <2>1. UNCHANGED <<probePc, probeSlice>>
    BY DEF LoopStep, LoopScan, LoopProbe, LoopPublish, LoopSave, LoopReceive, probeVars
  <2> QED
    BY <1>0, <2>1, ProbesKept
<1>2. LoopFresh'
  <2>1. CASE \E f \in Endpoint : LoopScan(f)
    <3> SUFFICES ASSUME loopPc' \in {"bootscan", "bootprobe", "publish"},
                        NEW e \in Endpoint \ loopUnseen'
                 PROVE  Overrides(Held(e))' = Overrides(pool[e])'
      BY DEF LoopFresh
    <3>1. PICK f \in Endpoint : LoopScan(f)
      BY <2>1
    <3>2. loopPc = "bootscan" /\ pool' = pool /\ e \notin loopUnseen
      BY <3>1 DEF LoopScan, poolVars, RecordHistory, Received, Missed, Changed
    <3>3. loopSlice' = [loopSlice EXCEPT ![f] = LoopElem(f)] /\ loopSlice \in Pool
      BY <3>1 DEF LoopScan, TypeOK
    <3>4. Held(e)' = Held(e)
      <4>1. CASE scanned \cup {f} = Endpoint
        <5>1. loopPc' = "bootprobe"
          BY <3>1, <3>2, <4>1 DEF LoopScan
        <5>2. (e \in scanned \/ e = f) /\ f \notin scanned
          BY <3>1, <4>1 DEF LoopScan
        <5>3. Held(e)' = loopSlice'[e]
          BY <5>1 DEF Held
        <5> QED
          BY <3>2, <3>3, <5>2, <5>3 DEF Held, LoopElem, Pool
      <4>2. CASE scanned \cup {f} # Endpoint
        <5>1. /\ scanned' = scanned \cup {f}
              /\ loopPc' = loopPc /\ loopOwns' = loopOwns /\ f \notin scanned
          BY <3>1, <4>2 DEF LoopScan
        <5> QED
          BY <3>2, <3>3, <5>1 DEF Held, LoopElem, Pool
      <4> QED
        BY <4>1, <4>2
    <3> QED
      BY <1>0, <3>2, <3>4 DEF LoopFresh, Overrides
  <2>2. CASE LoopProbe
    <3> SUFFICES ASSUME NEW e \in Endpoint \ loopUnseen'
                 PROVE  Overrides(loopSlice'[e]) = Overrides(pool'[e])
      BY <2>2 DEF LoopFresh, Held, LoopProbe, Overrides
    <3>1. /\ loopPc = "bootprobe" /\ loopSlice \in Pool /\ pool' = pool
          /\ loopSlice' = Probed(loopSlice) /\ e \notin loopUnseen
      BY <2>2 DEF LoopProbe, TypeOK, poolVars, RecordHistory, Received
    <3>2. Overrides(loopSlice[e]) = Overrides(pool[e])
      BY <1>0, <3>1 DEF LoopFresh, Held
    <3> QED
      BY <3>1, <3>2, ProbedKeeps
  <2>3. CASE LoopPublish
    BY <2>3 DEF LoopPublish, LoopFresh
  <2>4. CASE LoopSave
    BY <2>4 DEF LoopSave, LoopFresh
  <2>5. CASE LoopReceive
    <3> SUFFICES ASSUME NEW e \in Endpoint
                 PROVE  Overrides(loopSlice'[e]) = Overrides(pool'[e])
      BY <2>5 DEF LoopFresh, Held, LoopReceive, Overrides
    <3> QED
      BY <2>5, MergedKeeps DEF LoopReceive, TypeOK, poolVars
  <2> QED
    BY <2>1, <2>2, <2>3, <2>4, <2>5 DEF LoopStep
<1> QED
  BY <1>1, <1>2 DEF CopiesFresh, LoopFresh, ProbeFresh

-----------------------------------------------------------------------------
LEMMA InitFresh == HInit => CopiesFresh
<1> SUFFICES ASSUME HInit PROVE CopiesFresh
  OBVIOUS
<1>1. loopPc = "bootscan" => loopOwns /\ scanned = {}
  BY DEF HInit, Init
<1>2. loopPc \notin {"bootprobe", "publish"}
  BY DEF HInit, Init
<1>3. \A h \in ProbeRequest : probePc[h] = "idle"
  BY DEF HInit, Init
<1> QED
  BY <1>1, <1>2, <1>3 DEF CopiesFresh, Held, LoopElem

LEMMA FreshStep ==
  ASSUME TypeOK, CopiesFresh, [HNext]_hvars
  PROVE  CopiesFresh'
<1>1. CASE HNext
  <2>0. RecordHistory /\ Next
    BY <1>1 DEF HNext
  <2>1. CASE \E p \in Patcher : PatchStep(p)
    BY <2>0, <2>1, PatchFresh
  <2>2. CASE \E h \in ProbeRequest : ProbeStep(h)
    BY <2>0, <2>2, ProbeFreshStep
  <2>3. CASE LoopStep
    BY <2>0, <2>3, LoopFreshStep
  <2>4. CASE RunStep
    BY <2>0, <2>4, RunFresh
  <2>5. CASE \E e \in Unstable : Flap(e) \/ MarkError(e)
    BY <2>0, <2>5, UnstableAssumption, WorldFresh
  <2> QED
    BY <2>0, <2>1, <2>2, <2>3, <2>4, <2>5 DEF Next
<1>2. CASE UNCHANGED hvars
  BY <1>2 DEF hvars, historyVars, vars, poolVars, probeVars, loopVars,
              CopiesFresh, Held, LoopElem, Overrides
<1> QED
  BY <1>1, <1>2

(* The history variables follow the pool and never restrict it.            *)
THEOREM HistoryImplementsPool == HSpec => Spec
<1>1. HInit => Init
  BY DEF HInit
<1>2. [HNext]_hvars => [Next]_vars
  BY DEF HNext, hvars
<1> QED
  BY <1>1, <1>2, PTL DEF HSpec, Spec

(* Whatever a goroutine is about to write back over the pool, it can only  *)
(* undo what changed since that goroutine took its copy.                   *)
THEOREM Freshness == HSpec => []CopiesFresh
<1>1. HInit => CopiesFresh
  BY InitFresh
<1>2. TypeOK /\ CopiesFresh /\ [HNext]_hvars => CopiesFresh'
  BY FreshStep
<1>3. HSpec => []TypeOK
  BY HistoryImplementsPool, Typing, PTL
<1> QED
  BY <1>1, <1>2, <1>3, PTL DEF HSpec

-----------------------------------------------------------------------------
(* The action of LostOnlyToStaleCopy, for one endpoint.                    *)
AccountedFor(e) ==
  \/ \E p \in Patcher : patchPc[p] = "idle" /\ patchPc'[p] = "snapshot"
  \/ loopPc = "publish" /\ loopPc' = "savescan" /\ e \in loopUnseen
  \/ \E h \in ProbeRequest :
       /\ probePc[h] = "publish" /\ probePc'[h] = "done"
       /\ e \in probeUnseen[h]

LEMMA ChangesAccountedFor ==
  ASSUME TypeOK, CopiesFresh, Next, NEW e \in Changed
  PROVE  AccountedFor(e)
<1>0. e \in Endpoint /\ Overrides(pool'[e]) # Overrides(pool[e])
  BY DEF Changed
<1>1. ASSUME NEW p \in Patcher, PatchStep(p)
      PROVE  AccountedFor(e)
  <2>1. \E d \in Endpoint, patch \in Patch : PatchEndpoint(p, d, patch)
    BY <1>0, <1>1 DEF PatchStep, PatchSnapshot, PatchSave, poolVars
  <2>2. patchPc[p] = "idle" /\ patchPc'[p] = "snapshot"
    BY <2>1 DEF PatchEndpoint, TypeOK
  <2> QED
    BY <1>1, <2>2 DEF AccountedFor
<1>2. ASSUME NEW h \in ProbeRequest, ProbeStep(h)
      PROVE  AccountedFor(e)
  <2>1. ProbePublish(h)
    BY <1>0, <1>2 DEF ProbeStep, ProbeStart, ProbeAll, poolVars
  <2>2. probePc[h] = "publish" /\ probePc'[h] = "done" /\ pool' = probeSlice[h]
    BY <2>1 DEF ProbePublish, SetEndpoints, TypeOK
  <2>3. e \in probeUnseen[h]
    BY <1>0, <2>2 DEF CopiesFresh
  <2> QED
    BY <1>2, <2>2, <2>3 DEF AccountedFor
<1>3. CASE LoopStep
  <2>1. LoopPublish
    BY <1>0, <1>3 DEF LoopStep, LoopScan, LoopProbe, LoopSave, LoopReceive, poolVars
  <2>2. loopPc = "publish" /\ loopPc' = "savescan" /\ pool' = loopSlice
    BY <2>1 DEF LoopPublish
  <2>3. Held(e) = loopSlice[e]
    BY <2>2 DEF Held
  <2>4. e \in loopUnseen
    BY <1>0, <2>2, <2>3 DEF CopiesFresh
  <2> QED
    BY <2>2, <2>4 DEF AccountedFor
<1>4. CASE RunStep
  BY <1>0, <1>4 DEF RunStep, RunFetch, RunProbe, RunSend, poolVars
<1>5. ASSUME NEW d \in Unstable, Flap(d) \/ MarkError(d)
      PROVE  AccountedFor(e)
  <2>1. pool[e] \in EndpointRec /\ pool \in Pool
    BY <1>0 DEF TypeOK, Pool
  <2>2. CASE Flap(d)
    BY <1>0, <2>2 DEF Flap, poolVars
  <2>3. CASE MarkError(d)
    <3>1. pool'[e] = IF e = d THEN [pool[e] EXCEPT !.status = "bad"] ELSE pool[e]
      BY <1>0, <2>1, <2>3 DEF MarkError, Pool
    <3>2. Overrides(pool'[e]) = Overrides(pool[e])
      BY <2>1, <3>1 DEF Overrides, EndpointRec
    <3> QED
      BY <1>0, <3>2
  <2> QED
    BY <1>5, <2>2, <2>3
<1> QED
  BY <1>1, <1>2, <1>3, <1>4, <1>5 DEF Next

(* A toggle or a priority changes by a PATCH, or is lost to a replacement  *)
(* of the pool by a copy that is older than the change it undoes.          *)
THEOREM StaleCopyTheorem == HSpec => LostOnlyToStaleCopy
<1>1. TypeOK /\ CopiesFresh /\ [HNext]_hvars => [\A e \in Changed : AccountedFor(e)]_hvars
  BY ChangesAccountedFor DEF HNext
<1>2. HSpec => []TypeOK
  BY HistoryImplementsPool, Typing, PTL
<1>3. HSpec => [][\A e \in Changed : AccountedFor(e)]_hvars
  BY <1>1, <1>2, Freshness, PTL DEF HSpec
<1> QED
  BY <1>3 DEF LostOnlyToStaleCopy, AccountedFor
=============================================================================
