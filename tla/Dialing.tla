------------------------------- MODULE Dialing -------------------------------
(***************************************************************************)
(* Balancer.DialContext over the live pool of EndpointPool: several client *)
(* connections pick, dial, mark and fail over at once, while requests,     *)
(* probes and the kill-switch change the pool under them.                  *)
(*                                                                         *)
(* One step per critical section of Balancer.mu (pickExcluding, markError, *)
(* the read of blockDirect) and per network call.  A counter update is one *)
(* step with the call it follows: the counters are atomic adds.  Latency,  *)
(* weights and order in the slice are left out: under a strategy other     *)
(* than "priority" any candidate may be the one picked.                    *)
(***************************************************************************)
EXTENDS EndpointPool, Integers, FiniteSets

CONSTANTS Dialer,            \* client connections, one DialContext call each
          Destination,       \* "good", or "bad": no endpoint can reach it
          MaxDialAttempts,   \* maxDialAttempts, 4 in the code
          BlockDirect,       \* bound: the values the kill-switch takes
          Strategy           \* bound: the strategies that are set

ASSUME DestinationAssumption ==
  /\ Destination \subseteq {"good", "bad"}
  /\ "bad" \in Destination => Unstable = Endpoint
ASSUME SwitchAssumption ==
  /\ BlockDirect \subseteq BOOLEAN
  /\ Strategy \subseteq {"priority", "other"}
ASSUME MaxDialAttemptsAssumption == MaxDialAttempts \in Nat
ASSUME LeastPriorityAssumption ==   \* int has no infinite descent
  /\ Priority \subseteq Int
  /\ \A S \in SUBSET Priority : S # {} => \E p \in S : \A q \in S : p <= q
ASSUME NoneNoEndpointAssumption == None \notin Endpoint

VARIABLES
  call,         \* per dialer: the local state of its DialContext
  stat,         \* Stats: the counters of each endpoint
  blockDirect,  \* Balancer.blockDirect
  strategy,     \* Balancer.strategy
  liveAll,      \* history: the endpoints live ever since the call began
  steadyAll,    \* history: those of them whose priority did not change, and
                \* only while the strategy was "priority"
  blockedAll    \* history: blockDirect was set ever since the call began

historyOfCalls == <<liveAll, steadyAll, blockedAll>>
dialVars == <<call, stat, blockDirect, strategy>>
dvars == <<vars, dialVars, historyOfCalls>>

Pc == {"idle", "pick", "dial", "mark", "fallback", "direct",
       "open", "closed", "blocked", "failed"}
Call == [pc : Pc, attempt : 0..MaxDialAttempts, tried : SUBSET Endpoint,
         current : Endpoint \cup {None}, dest : Destination]
Stat == [dials : Nat, dialErrors : Nat, failovers : Nat]

Live == {e \in Endpoint : pool[e].enabled /\ pool[e].status = "ok"}

(* pickExcluding: the endpoints it may return, the excluded ones apart.    *)
CandidatesAll(excluded) == Live
CandidatesAnyOrder(excluded) == Live \ excluded

Candidates(excluded) ==
  LET live == Live \ excluded
  IN  IF strategy = "priority"
        THEN {e \in live : \A f \in live : pool[e].priority <= pool[f].priority}
        ELSE live

DInit ==
  /\ Init
  /\ call \in [Dialer -> {c \in Call : /\ c.pc = "idle" /\ c.attempt = 0
                                       /\ c.tried = {} /\ c.current = None}]
  /\ stat = [e \in Endpoint |-> [dials |-> 0, dialErrors |-> 0, failovers |-> 0]]
  /\ blockDirect \in BlockDirect
  /\ strategy \in Strategy
  /\ liveAll = [d \in Dialer |-> {}]
  /\ steadyAll = [d \in Dialer |-> {}]
  /\ blockedAll = [d \in Dialer |-> FALSE]

-----------------------------------------------------------------------------
(* DialContext, from its call to the connection it returns.                *)
DialStart(d) ==
  /\ call[d].pc = "idle"
  /\ call' = [call EXCEPT ![d].pc = "pick"]
  /\ UNCHANGED <<vars, stat, blockDirect, strategy>>

(* Mutant of DialPick: the error of an empty pool is dropped.              *)
DialPickUnchecked(d) ==
  /\ call[d].pc = "pick"
  /\ call[d].attempt < MaxDialAttempts
  /\ \E e \in Candidates(call[d].tried) \cup {None} :
       call' = [call EXCEPT ![d].pc = "dial", ![d].current = e]
  /\ UNCHANGED <<vars, stat, blockDirect, strategy>>

DialPick(d) ==
  /\ call[d].pc = "pick"
  /\ call[d].attempt < MaxDialAttempts
  /\ \E e \in Candidates(call[d].tried) :
       call' = [call EXCEPT ![d].pc = "dial", ![d].current = e]
  /\ UNCHANGED <<vars, stat, blockDirect, strategy>>

(* Mutant: a comparison that ends the loop one attempt early.              *)
DialGiveUpEarly(d) ==
  /\ call[d].pc = "pick"
  /\ call[d].attempt + 1 >= MaxDialAttempts \/ Candidates(call[d].tried) = {}
  /\ call' = [call EXCEPT ![d].pc = "fallback"]
  /\ UNCHANGED <<vars, stat, blockDirect, strategy>>

DialGiveUp(d) ==
  /\ call[d].pc = "pick"
  /\ call[d].attempt = MaxDialAttempts \/ Candidates(call[d].tried) = {}
  /\ call' = [call EXCEPT ![d].pc = "fallback"]
  /\ UNCHANGED <<vars, stat, blockDirect, strategy>>

(* Mutant: a failed dial is tried again before it is recorded.             *)
DialFailRetried(d) ==
  /\ call[d].pc = "dial"
  /\ call[d].current \notin up \/ call[d].dest = "bad"
  /\ call' = [call EXCEPT ![d].pc = "pick", ![d].current = None]
  /\ UNCHANGED <<vars, stat, blockDirect, strategy>>

(* dialThrough and RecordDial.  A dial fails when the endpoint cannot be   *)
(* reached, and also when the destination cannot.                          *)
DialSucceed(d) ==
  /\ call[d].pc = "dial"
  /\ call[d].current \in up /\ call[d].dest = "good"
  /\ stat' = [stat EXCEPT ![call[d].current].dials = @ + 1]
  /\ call' = [call EXCEPT ![d].pc = "open"]
  /\ UNCHANGED <<vars, blockDirect, strategy>>

DialFail(d) ==
  /\ call[d].pc = "dial"
  /\ call[d].current \notin up \/ call[d].dest = "bad"
  /\ stat' = [stat EXCEPT ![call[d].current].dials = @ + 1,
                          ![call[d].current].dialErrors = @ + 1]
  /\ call' = [call EXCEPT ![d].pc = "mark"]
  /\ UNCHANGED <<vars, blockDirect, strategy>>

(* Mutants: a mark that also turns the endpoint off, and a failed endpoint *)
(* that is not remembered.                                                 *)
DialMarkDisables(d) ==
  /\ call[d].pc = "mark"
  /\ pool' = [pool EXCEPT ![call[d].current].status = "bad",
                          ![call[d].current].enabled = FALSE]
  /\ stat' = [stat EXCEPT ![call[d].current].failovers = @ + 1]
  /\ call' = [call EXCEPT ![d].pc = "pick", ![d].attempt = @ + 1, ![d].current = None,
                          ![d].tried = @ \cup {call[d].current}]
  /\ UNCHANGED <<disk, up, patchVars, probeVars, loopVars, runVars,
                 blockDirect, strategy>>
DialMarkUncounted(d) ==
  /\ call[d].pc = "mark"
  /\ MarkError(call[d].current)
  /\ stat' = [stat EXCEPT ![call[d].current].failovers = @ + 1]
  /\ call' = [call EXCEPT ![d].pc = "pick", ![d].current = None]
  /\ UNCHANGED <<blockDirect, strategy>>

(* markError, RecordFailover and the exclusion from the next attempts.     *)
DialMark(d) ==
  /\ call[d].pc = "mark"
  /\ MarkError(call[d].current)
  /\ stat' = [stat EXCEPT ![call[d].current].failovers = @ + 1]
  /\ call' = [call EXCEPT ![d].pc = "pick", ![d].attempt = @ + 1, ![d].current = None,
                          ![d].tried = @ \cup {call[d].current}]
  /\ UNCHANGED <<blockDirect, strategy>>

(* The fallback: refused under the kill-switch, a direct dial otherwise.   *)
(* (Module Proxy has the flows that /api/flows lists.)                     *)
DialRefuse(d) ==
  /\ call[d].pc = "fallback"
  /\ blockDirect
  /\ call' = [call EXCEPT ![d].pc = "blocked"]
  /\ UNCHANGED <<vars, stat, blockDirect, strategy>>

(* Mutant: the switch is not read.                                         *)
DialDirectAnyway(d) ==
  /\ call[d].pc = "fallback"
  /\ call' = [call EXCEPT ![d].pc = "direct"]
  /\ UNCHANGED <<vars, stat, blockDirect, strategy>>

DialDirect(d) ==
  /\ call[d].pc = "fallback"
  /\ ~ blockDirect
  /\ call' = [call EXCEPT ![d].pc = "direct"]
  /\ UNCHANGED <<vars, stat, blockDirect, strategy>>

DirectSucceed(d) ==
  /\ call[d].pc = "direct"
  /\ call' = [call EXCEPT ![d].pc = "open"]
  /\ UNCHANGED <<vars, stat, blockDirect, strategy>>

DirectFail(d) ==
  /\ call[d].pc = "direct"
  /\ call' = [call EXCEPT ![d].pc = "failed"]
  /\ UNCHANGED <<vars, stat, blockDirect, strategy>>

(* countingConn.Close, by the tunnel that used the connection.             *)
Close(d) ==
  /\ call[d].pc = "open"
  /\ call' = [call EXCEPT ![d].pc = "closed"]
  /\ UNCHANGED <<vars, stat, blockDirect, strategy>>

(* PUT /api/block-direct and POST /api/strategy.                  *)
SetBlockDirect(v) ==
  /\ v # blockDirect
  /\ blockDirect' = v
  /\ UNCHANGED <<vars, call, stat, strategy>>

SetStrategy(s) ==
  /\ s # strategy
  /\ strategy' = s
  /\ UNCHANGED <<vars, call, stat, blockDirect>>

-----------------------------------------------------------------------------
RecordCalls ==
  LET Began(d) == call[d].pc = "idle"
      Steady == {e \in Live' : pool'[e].priority = pool[e].priority}
  IN
  /\ liveAll' = [d \in Dialer |-> IF Began(d) THEN Live' ELSE liveAll[d] \cap Live']
  /\ steadyAll' = [d \in Dialer |->
                     IF strategy' # "priority" THEN {}
                     ELSE IF Began(d) THEN Live' ELSE steadyAll[d] \cap Steady]
  /\ blockedAll' = [d \in Dialer |-> IF Began(d) THEN blockDirect'
                                     ELSE blockedAll[d] /\ blockDirect']

DialStep(d) ==
  \/ DialPick(d) \/ DialGiveUp(d)
  \/ DialSucceed(d) \/ DialFail(d) \/ DialMark(d)
  \/ DialRefuse(d) \/ DialDirect(d)
  \/ DirectSucceed(d) \/ DirectFail(d)

PoolStep ==
  \/ \E p \in Patcher : PatchStep(p)
  \/ \E h \in ProbeRequest : ProbeStep(h)
  \/ LoopStep
  \/ RunStep
  \/ \E e \in Unstable : Flap(e)

DNext ==
  /\ \/ PoolStep /\ UNCHANGED dialVars
     \/ \E d \in Dialer : DialStart(d) \/ DialStep(d) \/ Close(d)
     \/ \E v \in BlockDirect : SetBlockDirect(v)
     \/ \E s \in Strategy : SetStrategy(s)
  /\ RecordCalls

DSpec == DInit /\ [][DNext]_dvars

(* The goroutine of a client connection keeps running.                     *)
GoroutinesRun ==
  \A d \in Dialer : WF_dvars(/\ \/ DialPick(d) \/ DialGiveUp(d) \/ DialMark(d)
                                \/ DialRefuse(d) \/ DialDirect(d)
                             /\ RecordCalls)

(* Every dial is answered.  This is an assumption on the network: the TCP  *)
(* connect of dialSOCKS5 is timed out by the kernel, but its handshake has *)
(* no deadline, and a proxy that accepts and stays silent holds the call.  *)
DialsAnswered ==
  \A d \in Dialer : WF_dvars(/\ \/ DialSucceed(d) \/ DialFail(d)
                                \/ DirectSucceed(d) \/ DirectFail(d)
                             /\ RecordCalls)

(* Fairness of EndpointPool, as steps of the composition.                  *)
OfPool(step) == step /\ UNCHANGED dialVars /\ RecordCalls

PoolGoroutinesRun ==
  /\ \A p \in Patcher : WF_dvars(OfPool(PatchSnapshot(p) \/ PatchSave(p)))
  /\ \A h \in ProbeRequest : WF_dvars(OfPool(ProbeAll(h) \/ ProbePublish(h)))
  /\ WF_dvars(OfPool(LoopStep))
  /\ WF_dvars(OfPool(RunStep))

DFairSpec == DSpec /\ GoroutinesRun /\ DialsAnswered /\ PoolGoroutinesRun

-----------------------------------------------------------------------------
(* The types, and what the step of a call says of its local state.         *)
DTypeOK ==
  /\ TypeOK
  /\ call \in [Dialer -> Call]
  /\ \A d \in Dialer :
       /\ call[d].pc \in {"dial", "mark"} => call[d].current \in Endpoint
       /\ call[d].pc = "pick" => call[d].current = None
  /\ stat \in [Endpoint -> Stat]
  /\ blockDirect \in BOOLEAN
  /\ strategy \in {"priority", "other"}
  /\ liveAll \in [Dialer -> SUBSET Endpoint]
  /\ steadyAll \in [Dialer -> SUBSET Endpoint]
  /\ blockedAll \in [Dialer -> BOOLEAN]

Ended(d) == call[d].pc \in {"open", "closed", "blocked", "failed"}
GaveUp(d) ==
  \/ call[d].pc \in {"fallback", "direct", "blocked", "failed"}
  \/ call[d].pc \in {"open", "closed"} /\ call[d].current = None

(* A call never dials one endpoint twice, although a probe may set an      *)
(* endpoint the call has just marked back to "ok": each attempt spends one *)
(* endpoint, so a call takes at most MaxDialAttempts of them out.          *)
AttemptsSpendEndpoints ==
  \A d \in Dialer :
    /\ Cardinality(call[d].tried) = call[d].attempt
    /\ call[d].current \notin call[d].tried

(* A call leaves the pool for the fallback only after maxDialAttempts      *)
(* failures, or when no endpoint was live all the time the call ran:       *)
(* changes to the pool in between cannot hide a live endpoint from it.     *)
NoLiveEndpointSkipped ==
  \A d \in Dialer : GaveUp(d) =>
    call[d].attempt = MaxDialAttempts \/ liveAll[d] = {}

(* Under the priority strategy, a call that dials e has no better endpoint *)
(* it could have dialed instead, among those that stayed live with the     *)
(* same priority since it began.                                           *)
BestSteadyEndpointDialed ==
  \A d \in Dialer : call[d].pc = "dial" /\ call[d].current \in steadyAll[d] =>
    \A e \in steadyAll[d] \ call[d].tried :
      pool[call[d].current].priority <= pool[e].priority

(* The kill-switch: with blockDirect set from the start of a call to its   *)
(* end the call never reaches the direct dial.                             *)
NoDirectWhileBlocked ==
  \A d \in Dialer : call[d].pc = "direct" => ~ blockedAll[d]

DialsOf(e) == {d \in Dialer : \/ e \in call[d].tried
                              \/ call[d].pc \in {"mark", "open", "closed"}
                                   /\ call[d].current = e}
ErrorsOf(e) == {d \in Dialer : \/ e \in call[d].tried
                               \/ call[d].pc = "mark" /\ call[d].current = e}
(* The calls in which another endpoint is dialed, or carries the           *)
(* connection, now that e has failed.                                      *)
TakenOver(e) == {d \in Dialer : e \in call[d].tried /\ call[d].current # None}

(* The counters of /api/stats account for the calls that used an endpoint, *)
(* however the calls interleave: every dial and every failed dial is       *)
(* counted once, and no failure after which another endpoint took over     *)
(* (stats.go:16) is missing from the failovers.  The code counts there the *)
(* last failure of a call as well, after which none did.                   *)
StatsAddUp ==
  \A e \in Endpoint :
    /\ stat[e].dials = Cardinality(DialsOf(e))
    /\ stat[e].dialErrors = Cardinality(ErrorsOf(e))
    /\ stat[e].failovers >= Cardinality(TakenOver(e))

(* Every call ends, even if probes keep bringing back what it marks.       *)
CallsEnd == \A d \in Dialer : call[d].pc # "idle" ~> Ended(d)

(* Composed with the dials, the pool still behaves as EndpointPool says:   *)
(* dialing changes it by marking an endpoint bad and in no other way.      *)
PoolSpec == Spec
=============================================================================
