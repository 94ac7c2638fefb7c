---------------------------- MODULE EndpointPool ----------------------------
(***************************************************************************)
(* The live endpoint pool of proxy-core and everything that rewrites it:   *)
(*   - PATCH /api/endpoints/<id> (one field-wise write under the lock,     *)
(*     then a snapshot that is saved to state.json);                       *)
(*   - POST /api/probe (snapshot, probe, replace the whole pool);          *)
(*   - the goroutine main starts when probe_on_start is set: it probes the *)
(*     slice it shares with the balancer, replaces the pool, saves, and    *)
(*     then merges the passes of the background prober one by one;         *)
(*   - a dial through an endpoint that failed (module Dialing).            *)
(*                                                                         *)
(* Every access to the pool is a critical section of Balancer.mu and one   *)
(* step here, except the accesses the code makes without it: SetEndpoints  *)
(* keeps its caller's slice, so main goes on reading the array the PATCH   *)
(* handler writes to, one element at a time (LoopScan).                    *)
(*                                                                         *)
(* Data kept: Enabled, Priority and whether Status is "ok".  "bad" stands  *)
(* for every other status ("", unknown, error, timeout): the code never    *)
(* tells them apart except in a log line.  LatencyMs is left out: it       *)
(* travels with Status.  Endpoint IDs are unique here.                     *)
(***************************************************************************)
EXTENDS Naturals

CONSTANTS Endpoint,       \* endpoint IDs, fixed from startup to exit
          Patcher,        \* PATCH /api/endpoints/<id> requests
          ProbeRequest,   \* POST /api/probe requests
          Priority,       \* values of Endpoint.Priority
          ParsedPriority, \* the priority each endpoint was parsed with
          ProbeOnStart,   \* load_balancing.probe_on_start
          Unstable,       \* bound: the endpoints that may be unreachable or fail a dial
          Saved,          \* bound: the state.json files a start may find
          Keep,           \* a PATCH field that is absent (nil)
          None            \* no state.json, no slice, an empty channel

ASSUME EndpointAssumption == Endpoint # {}
ASSUME PriorityAssumption == 0 \in Priority
ASSUME ParsedAssumption == ParsedPriority \in [Endpoint -> Priority]
ASSUME UnstableAssumption == Unstable \subseteq Endpoint
ASSUME ProbeOnStartAssumption == ProbeOnStart \in BOOLEAN
ASSUME KeepAssumption == Keep \notin BOOLEAN /\ Keep \notin Priority

Status == {"ok", "bad"}
EndpointRec == [enabled : BOOLEAN, priority : Priority, status : Status]
Pool == [Endpoint -> EndpointRec]
Patch == [enabled : BOOLEAN \cup {Keep}, priority : Priority \cup {Keep}]

ASSUME NoneAssumption == None \notin Pool
ASSUME SavedAssumption == Saved \subseteq Pool \cup {None}

VARIABLES
  pool,       \* Balancer.endpoints
  disk,       \* the endpoints of data/state.json, or None
  up,         \* the endpoints a probe would reach right now (the network)
  patchPc, patchSlice,    \* per PATCH request: its step, the snapshot it saves
  probePc, probeSlice,    \* per POST /api/probe: its step, its slice
  loopPc, loopSlice,      \* main's probing goroutine: its step, its slice
  loopOwns,   \* the balancer's array is the one loopPc's goroutine holds
  scanned,    \* elements of that array the goroutine has read so far
  runPc, runSlice,        \* the goroutine of Prober.Run: its step, its slice
  queued      \* the channel of Prober.Run, capacity 1

poolVars == <<pool, disk>>
patchVars == <<patchPc, patchSlice>>
probeVars == <<probePc, probeSlice>>
loopVars == <<loopPc, loopSlice, loopOwns, scanned>>
runVars == <<runPc, runSlice, queued>>
vars == <<pool, disk, up, patchVars, probeVars, loopVars, runVars>>

-----------------------------------------------------------------------------
(* What the operations compute.                                            *)

Overrides(ep) == <<ep.enabled, ep.priority>>

(* Mutants of the three operators: a nil field written as if it were set,  *)
(* a probe that turns a reachable endpoint on, the probed record taken     *)
(* whole (what main.go:364 warns of), a merge that forgets the status.     *)
PatchedUnchecked(ep, p) == [ep EXCEPT !.enabled = p.enabled, !.priority = p.priority]
ProbedReEnables(eps) ==
  [e \in Endpoint |-> [eps[e] EXCEPT !.status = IF e \in up THEN "ok" ELSE "bad",
                                     !.enabled = @ \/ e \in up]]
MergedWhole(current, probed) == probed
MergedWithoutStatus(current, probed) == current

Patched(ep, p) ==
  [ep EXCEPT !.enabled = IF p.enabled = Keep THEN @ ELSE p.enabled,
             !.priority = IF p.priority = Keep THEN @ ELSE p.priority]

(* ProbeAll: a disabled endpoint passes through; the others get the status *)
(* the network has for them (the retry of ProbeOne is part of "reach").    *)
Probed(eps) ==
  [e \in Endpoint |->
     IF eps[e].enabled
       THEN [eps[e] EXCEPT !.status = IF e \in up THEN "ok" ELSE "bad"]
       ELSE eps[e]]

(* The background merge: Status from the probe, the rest from the pool.    *)
Merged(current, probed) ==
  [e \in Endpoint |-> [current[e] EXCEPT !.status = probed[e].status]]

(* Startup: parsed endpoints are enabled and unknown; what state.json has  *)
(* is restored, a saved priority only when it is not 0.                    *)
Restored(saved) ==
  [e \in Endpoint |->
     IF saved = None
       THEN [enabled |-> TRUE, priority |-> ParsedPriority[e], status |-> "bad"]
       ELSE [saved[e] EXCEPT !.priority = IF @ # 0 THEN @ ELSE ParsedPriority[e]]]

(* What the goroutine of main sees in element e of the array it holds.     *)
LoopElem(e) == IF loopOwns THEN pool[e] ELSE loopSlice[e]

(* The array it is left with when another SetEndpoints replaces the pool.  *)
LeftBehind == [e \in Endpoint |-> IF e \in scanned THEN loopSlice[e] ELSE LoopElem(e)]

-----------------------------------------------------------------------------
Init ==
  /\ disk \in Saved
  /\ pool = Restored(disk)
  /\ up \in {u \in SUBSET Endpoint : Endpoint \ Unstable \subseteq u}
  /\ patchPc = [p \in Patcher |-> "idle"]
  /\ patchSlice = [p \in Patcher |-> None]
  /\ probePc = [h \in ProbeRequest |-> "idle"]
  /\ probeSlice = [h \in ProbeRequest |-> None]
  /\ loopPc = IF ProbeOnStart THEN "bootscan" ELSE "off"
  /\ loopSlice = IF ProbeOnStart THEN pool ELSE None
  /\ loopOwns = ProbeOnStart
  /\ scanned = {}
  /\ runPc = "off"
  /\ runSlice = None
  /\ queued = None

(* Balancer.SetEndpoints(eps) by a goroutine other than main's.            *)
SetEndpoints(eps) ==
  /\ pool' = eps
  /\ loopOwns' = FALSE
  /\ loopSlice' = IF loopOwns THEN LeftBehind ELSE loopSlice

-----------------------------------------------------------------------------
(* PATCH /api/endpoints/<id>: PatchEndpoint, then persistEndpointState (a  *)
(* snapshot, then the write).  A request for an unknown id changes nothing *)
(* and is left out; the broadcast that follows the save leaves the pool    *)
(* and the file alone.                                                     *)
PatchEndpoint(p, e, patch) ==
  /\ patchPc[p] = "idle"
  /\ pool' = [pool EXCEPT ![e] = Patched(@, patch)]
  /\ patchPc' = [patchPc EXCEPT ![p] = "snapshot"]
  /\ UNCHANGED <<disk, up, patchSlice, probeVars, loopVars, runVars>>

PatchSnapshot(p) ==
  /\ patchPc[p] = "snapshot"
  /\ patchSlice' = [patchSlice EXCEPT ![p] = pool]
  /\ patchPc' = [patchPc EXCEPT ![p] = "save"]
  /\ UNCHANGED <<poolVars, up, probeVars, loopVars, runVars>>

PatchSave(p) ==
  /\ patchPc[p] = "save"
  /\ disk' = patchSlice[p]
  /\ patchSlice' = [patchSlice EXCEPT ![p] = None]
  /\ patchPc' = [patchPc EXCEPT ![p] = "done"]
  /\ UNCHANGED <<pool, up, probeVars, loopVars, runVars>>

-----------------------------------------------------------------------------
(* POST /api/probe: the handler takes the snapshot and answers 202; its    *)
(* goroutine probes and then replaces the pool with what it probed.        *)
ProbeStart(h) ==
  /\ probePc[h] = "idle"
  /\ probeSlice' = [probeSlice EXCEPT ![h] = pool]
  /\ probePc' = [probePc EXCEPT ![h] = "probe"]
  /\ UNCHANGED <<poolVars, up, patchVars, loopVars, runVars>>

ProbeAll(h) ==
  /\ probePc[h] = "probe"
  /\ probeSlice' = [probeSlice EXCEPT ![h] = Probed(@)]
  /\ probePc' = [probePc EXCEPT ![h] = "publish"]
  /\ UNCHANGED <<poolVars, up, patchVars, loopVars, runVars>>

ProbePublish(h) ==
  /\ probePc[h] = "publish"
  /\ SetEndpoints(probeSlice[h])
  /\ probeSlice' = [probeSlice EXCEPT ![h] = None]
  /\ probePc' = [probePc EXCEPT ![h] = "done"]
  /\ UNCHANGED <<disk, up, patchVars, loopPc, scanned, runVars>>

-----------------------------------------------------------------------------
(* The goroutine main starts.  bootscan: ProbeAll(endpoints) copies the    *)
(* elements of the array the balancer also holds, without the lock.        *)
(* savescan: Save marshals the slice it has just given to the balancer.    *)
LoopScan(e) ==
  /\ loopPc \in {"bootscan", "savescan"}
  /\ e \notin scanned
  /\ loopSlice' = [loopSlice EXCEPT ![e] = LoopElem(e)]
  /\ IF scanned \cup {e} = Endpoint
       THEN /\ loopPc' = IF loopPc = "bootscan" THEN "bootprobe" ELSE "save"
            /\ loopOwns' = FALSE
            /\ scanned' = {}
       ELSE /\ scanned' = scanned \cup {e}
            /\ UNCHANGED <<loopPc, loopOwns>>
  /\ UNCHANGED <<poolVars, up, patchVars, probeVars, runVars>>

LoopProbe ==
  /\ loopPc = "bootprobe"
  /\ loopSlice' = Probed(loopSlice)
  /\ loopPc' = "publish"
  /\ UNCHANGED <<poolVars, up, patchVars, probeVars, loopOwns, scanned, runVars>>

LoopPublish ==
  /\ loopPc = "publish"
  /\ pool' = loopSlice
  /\ loopOwns' = TRUE
  /\ loopPc' = "savescan"
  /\ UNCHANGED <<disk, up, patchVars, probeVars, loopSlice, scanned, runVars>>

(* Mutant: the state is saved after the first probe pass only.             *)
LoopSaveOnce ==
  /\ loopPc = "save"
  /\ disk' = IF runPc = "off" THEN loopSlice ELSE disk
  /\ loopSlice' = None
  /\ loopPc' = "wait"
  /\ runPc' = IF runPc = "off" THEN "idle" ELSE runPc
  /\ UNCHANGED <<pool, up, patchVars, probeVars, loopOwns, scanned, runSlice, queued>>

(* The first save is followed by p.Run, which starts the background pass.  *)
LoopSave ==
  /\ loopPc = "save"
  /\ disk' = loopSlice
  /\ loopSlice' = None
  /\ loopPc' = "wait"
  /\ runPc' = IF runPc = "off" THEN "idle" ELSE runPc
  /\ UNCHANGED <<pool, up, patchVars, probeVars, loopOwns, scanned, runSlice, queued>>

(* A pass arrives: current := b.Endpoints(), merged in place.  (Receiving  *)
(* and copying are one step: a send in between touches neither.)           *)
LoopReceive ==
  /\ loopPc = "wait"
  /\ queued # None
  /\ loopSlice' = Merged(pool, queued)
  /\ queued' = None
  /\ loopPc' = "publish"
  /\ UNCHANGED <<poolVars, up, patchVars, probeVars, loopOwns, scanned, runPc, runSlice>>

-----------------------------------------------------------------------------
(* Prober.Run: fetch, probe, send without blocking: a pass that finds the  *)
(* channel full is dropped.                                                *)
RunFetch ==
  /\ runPc = "idle"
  /\ runSlice' = pool
  /\ runPc' = "probe"
  /\ UNCHANGED <<poolVars, up, patchVars, probeVars, loopVars, queued>>

RunProbe ==
  /\ runPc = "probe"
  /\ runSlice' = Probed(runSlice)
  /\ runPc' = "send"
  /\ UNCHANGED <<poolVars, up, patchVars, probeVars, loopVars, queued>>

RunSend ==
  /\ runPc = "send"
  /\ queued' = IF queued = None THEN runSlice ELSE queued
  /\ runSlice' = None
  /\ runPc' = "idle"
  /\ UNCHANGED <<poolVars, up, patchVars, probeVars, loopVars>>

-----------------------------------------------------------------------------
(* The world outside: a server becomes reachable or unreachable, and a     *)
(* dial through an endpoint picked earlier fails (Balancer.markError).     *)
Flap(e) ==
  /\ up' = IF e \in up THEN up \ {e} ELSE up \cup {e}
  /\ UNCHANGED <<poolVars, patchVars, probeVars, loopVars, runVars>>

MarkError(e) ==
  /\ pool' = [pool EXCEPT ![e].status = "bad"]
  /\ UNCHANGED <<disk, up, patchVars, probeVars, loopVars, runVars>>

PatchStep(p) ==
  \/ \E e \in Endpoint, patch \in Patch : PatchEndpoint(p, e, patch)
  \/ PatchSnapshot(p)
  \/ PatchSave(p)

ProbeStep(h) == ProbeStart(h) \/ ProbeAll(h) \/ ProbePublish(h)

LoopStep ==
  \/ \E e \in Endpoint : LoopScan(e)
  \/ LoopProbe
  \/ LoopPublish
  \/ LoopSave
  \/ LoopReceive

RunStep == RunFetch \/ RunProbe \/ RunSend

Next ==
  \/ \E p \in Patcher : PatchStep(p)
  \/ \E h \in ProbeRequest : ProbeStep(h)
  \/ LoopStep
  \/ RunStep
  \/ \E e \in Unstable : Flap(e) \/ MarkError(e)

Spec == Init /\ [][Next]_vars

(* The Go scheduler runs every goroutine that can run, and the ticker      *)
(* never stops.  Requests, the network and dials owe nobody anything.      *)
Fairness ==
  /\ \A p \in Patcher : WF_vars(PatchSnapshot(p) \/ PatchSave(p))
  /\ \A h \in ProbeRequest : WF_vars(ProbeAll(h) \/ ProbePublish(h))
  /\ WF_vars(LoopStep)
  /\ WF_vars(RunStep)

FairSpec == Spec /\ Fairness

-----------------------------------------------------------------------------
(* The types of the pool, of every copy of it in flight and of state.json, *)
(* and the steps of the goroutines that carry them.                        *)
TypeOK ==
  /\ pool \in Pool
  /\ disk \in Pool \cup {None}
  /\ up \in SUBSET Endpoint
  /\ patchPc \in [Patcher -> {"idle", "snapshot", "save", "done"}]
  /\ patchSlice \in [Patcher -> Pool \cup {None}]
  /\ \A p \in Patcher : patchPc[p] = "save" => patchSlice[p] \in Pool
  /\ probePc \in [ProbeRequest -> {"idle", "probe", "publish", "done"}]
  /\ probeSlice \in [ProbeRequest -> Pool \cup {None}]
  /\ \A h \in ProbeRequest : probePc[h] \in {"probe", "publish"} => probeSlice[h] \in Pool
  /\ loopPc \in {"off", "bootscan", "bootprobe", "publish", "savescan", "save", "wait"}
  /\ loopSlice \in Pool \cup {None}
  /\ loopPc \notin {"off", "wait"} => loopSlice \in Pool
  /\ loopOwns \in BOOLEAN
  /\ loopOwns => loopPc \in {"bootscan", "savescan"}
  /\ scanned \in SUBSET Endpoint
  /\ runPc \in {"off", "idle", "probe", "send"}
  /\ runSlice \in Pool \cup {None}
  /\ runPc \in {"probe", "send"} => runSlice \in Pool
  /\ queued \in Pool \cup {None}

(* The network stays as it is and no dial fails any more.                  *)
Calm == <>[][\A e \in Unstable : ~ Flap(e) /\ ~ MarkError(e)]_vars

(* An endpoint that a dial failure took out of the pool comes back, and    *)
(* one that died leaves it: once the network is calm, the status of every  *)
(* enabled endpoint settles on what a probe sees, whatever was in flight   *)
(* (docs/ARCHITECTURE.md, "Balancer failover").                            *)
StatusConverges ==
  Calm => <>[](\A e \in Endpoint :
                 pool[e].enabled => (pool[e].status = "ok" <=> e \in up))

(* Whatever order the saves of PATCH handlers and of the probing loop land *)
(* in, state.json ends up with the overrides of the pool for good.  (Not   *)
(* with its statuses: that of a disabled endpoint may go round the pipe of *)
(* fetch, channel and merge for ever.)                                     *)
OverridesReachDisk ==
  Calm => <>[](disk # None /\ \A e \in Endpoint :
                 Overrides(disk[e]) = Overrides(pool[e]))

(* README.md:186, "Toggle each on/off ... Edit priority inline": nothing   *)
(* but a PATCH moves a toggle or a priority.                               *)
OnlyPatchChangesOverrides ==
  [][(\A e \in Endpoint : Overrides(pool'[e]) = Overrides(pool[e]))
       \/ \E p \in Patcher : patchPc[p] = "idle" /\ patchPc'[p] = "snapshot"]_vars
=============================================================================
