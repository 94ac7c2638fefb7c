--------------------------- MODULE Dialing_proofs ---------------------------
(***************************************************************************)
(* Proofs about Dialing, for any number of calls, endpoints, attempts and  *)
(* priorities: its types, that it implements EndpointPool, and what a call *)
(* may count on while the pool changes under it.                           *)
(***************************************************************************)
EXTENDS Dialing, EndpointPool_proofs, FiniteSetTheorems

(* What each step of a call knows of its local state.  A dial that fails   *)
(* went through an endpoint out of reach, or to a destination out of reach *)
(* of all: in both cases the endpoint is one that may be marked.           *)
CallOK(d) ==
  /\ call[d] \in Call
  /\ call[d].pc = "idle" => call[d].tried = {} /\ call[d].current = None
  /\ call[d].pc \in {"pick", "fallback", "direct"} => call[d].current = None
  /\ call[d].pc \in {"dial", "mark"} =>
       call[d].current \in Endpoint /\ call[d].attempt < MaxDialAttempts
  /\ call[d].pc = "mark" => call[d].current \in Unstable
  /\ IsFiniteSet(call[d].tried)
  /\ Cardinality(call[d].tried) = call[d].attempt
  /\ call[d].current \notin call[d].tried

CallsInv ==
  /\ call \in [Dialer -> Call]
  /\ \A d \in Dialer : CallOK(d)
  /\ stat \in [Endpoint -> Stat]
  /\ blockDirect \in BOOLEAN
  /\ strategy \in {"priority", "other"}
  /\ Endpoint \ Unstable \subseteq up

HistoryTyped ==
  /\ liveAll \in [Dialer -> SUBSET Endpoint]
  /\ steadyAll \in [Dialer -> SUBSET Endpoint]
  /\ blockedAll \in [Dialer -> BOOLEAN]

LEMMA DTypeParts == TypeOK /\ CallsInv /\ HistoryTyped => DTypeOK
BY DEF DTypeOK, CallsInv, CallOK, HistoryTyped

-----------------------------------------------------------------------------
(* Steps of calls.                                                         *)
LEMMA CandidatesLive ==
  ASSUME NEW excluded
  PROVE  Candidates(excluded) \subseteq Live \ excluded
BY DEF Candidates

(* Candidates is empty only when there is nothing left to try.             *)
LEMMA CandidatesEmpty ==
  ASSUME pool \in Pool, NEW excluded, Candidates(excluded) = {}
  PROVE  Live \ excluded = {}
<1> DEFINE live == Live \ excluded
<1> DEFINE prios == {pool[e].priority : e \in live}
<1>1. CASE strategy # "priority"
  BY <1>1 DEF Candidates
<1>2. CASE strategy = "priority"
  <2> SUFFICES ASSUME live # {} PROVE FALSE
    OBVIOUS
  <2>1. prios \in SUBSET Priority /\ prios # {}
    BY DEF Live, Pool, EndpointRec
  <2>2. PICK p \in prios : \A q \in prios : p <= q
    BY <2>1, LeastPriorityAssumption
  <2>3. PICK e \in live : pool[e].priority = p
    BY <2>2
  <2>4. e \in Candidates(excluded)
    BY <1>2, <2>2, <2>3 DEF Candidates
  <2> QED
    BY <2>4
<1> QED
  BY <1>1, <1>2

(* What a step of a call leaves alone.                                     *)
LEMMA CallStepFrame ==
  ASSUME CallsInv, NEW d \in Dialer, DialStart(d) \/ DialStep(d) \/ Close(d)
  PROVE  /\ \A c \in Dialer \ {d} : call'[c] = call[c]
         /\ UNCHANGED <<up, blockDirect, strategy>>
         /\ UNCHANGED vars \/ DialMark(d)
BY DEF DialStart, DialStep, Close, DialPick, DialGiveUp, DialSucceed, DialFail,
       DialMark, DialRefuse, DialDirect, DirectSucceed, DirectFail, MarkError,
       CallsInv, vars

LEMMA MarkOK ==
  ASSUME CallsInv, NEW d \in Dialer, DialMark(d)
  PROVE  call' \in [Dialer -> Call] /\ CallOK(d)'
<1> DEFINE e == call[d].current
<1> DEFINE c == [call[d] EXCEPT !.pc = "pick", !.attempt = @ + 1, !.current = None,
                                !.tried = @ \cup {e}]
<1>1. /\ call[d] \in Call
      /\ call[d].pc = "mark"
      /\ e \in Endpoint /\ e \notin call[d].tried
      /\ call[d].attempt < MaxDialAttempts
      /\ IsFiniteSet(call[d].tried)
      /\ Cardinality(call[d].tried) = call[d].attempt
  BY DEF CallsInv, CallOK, DialMark
<1>2. call' = [call EXCEPT ![d] = c]
  BY <1>1 DEF DialMark, CallsInv
<1>3. /\ IsFiniteSet(call[d].tried \cup {e})
      /\ Cardinality(call[d].tried \cup {e}) = call[d].attempt + 1
  BY <1>1, FS_AddElement
<1>4. /\ c \in Call
      /\ c.pc = "pick" /\ c.current = None
      /\ c.tried = call[d].tried \cup {e}
      /\ c.attempt = call[d].attempt + 1
  <2>1. call[d].attempt + 1 \in 0..MaxDialAttempts
    BY <1>1, MaxDialAttemptsAssumption DEF Call
  <2>2. call[d].tried \cup {e} \in SUBSET Endpoint
    BY <1>1 DEF Call
  <2> QED
    BY <1>1, <2>1, <2>2 DEF Call, Pc
<1>5. call' \in [Dialer -> Call] /\ call'[d] = c
  BY <1>2, <1>4 DEF CallsInv
<1>6. None \notin c.tried
  BY <1>4, NoneNoEndpointAssumption DEF Call
<1> QED
  BY <1>3, <1>4, <1>5, <1>6 DEF CallOK

LEMMA PickOK ==
  ASSUME CallsInv, NEW d \in Dialer, DialPick(d)
  PROVE  call' \in [Dialer -> Call] /\ CallOK(d)'
<1>1. PICK e \in Candidates(call[d].tried) :
        call' = [call EXCEPT ![d].pc = "dial", ![d].current = e]
  BY DEF DialPick
<1>2. e \in Endpoint /\ e \notin call[d].tried
  BY CandidatesLive DEF Live
<1>3. /\ call[d] \in Call
      /\ call[d].attempt < MaxDialAttempts
  BY DEF DialPick, CallsInv
<1>4. /\ call' \in [Dialer -> Call]
      /\ call'[d] = [call[d] EXCEPT !.pc = "dial", !.current = e]
  BY <1>1, <1>2, <1>3 DEF CallsInv, Call, Pc
<1> QED
  BY <1>2, <1>3, <1>4 DEF CallsInv, CallOK, Call

(* Every other step moves pc alone.                                        *)
LEMMA MoveOK ==
  ASSUME CallsInv, NEW d \in Dialer, NEW q \in Pc \ {"idle", "dial"},
         call' = [call EXCEPT ![d].pc = q],
         q \in {"pick", "fallback", "direct"} => call[d].current = None,
         q = "mark" => call[d].pc = "dial" /\ call[d].current \in Unstable
  PROVE  call' \in [Dialer -> Call] /\ CallOK(d)'
<1>1. call[d] \in Call /\ CallOK(d)
  BY DEF CallsInv
<1>2. /\ call' \in [Dialer -> Call]
      /\ call'[d] = [call[d] EXCEPT !.pc = q]
  BY <1>1 DEF CallsInv, Call
<1>3. /\ call'[d].pc = q
      /\ call'[d].attempt = call[d].attempt
      /\ call'[d].tried = call[d].tried
      /\ call'[d].current = call[d].current
      /\ call'[d] \in Call
  BY <1>1, <1>2 DEF Call
<1> QED
  BY <1>1, <1>2, <1>3 DEF CallOK

LEMMA CallStepOK ==
  ASSUME CallsInv, NEW d \in Dialer, DialStart(d) \/ DialStep(d) \/ Close(d)
  PROVE  call' \in [Dialer -> Call] /\ CallOK(d)'
<1>1. CASE DialStart(d)
  <2>1. call[d].pc = "idle" /\ call[d].current = None
    BY <1>1 DEF DialStart, CallsInv, CallOK
  <2> QED
    BY <1>1, <2>1, MoveOK DEF DialStart, Pc
<1>2. CASE DialPick(d)
  BY <1>2, PickOK
<1>3. CASE DialGiveUp(d)
  BY <1>3, MoveOK DEF DialGiveUp, Pc, CallsInv, CallOK
<1>4. CASE DialSucceed(d)
  BY <1>4, MoveOK DEF DialSucceed, Pc
<1>5. CASE DialFail(d)
  <2>1. call[d].current \in Unstable
    <3>1. CallOK(d) /\ call[d].pc = "dial"
      BY <1>5 DEF CallsInv, DialFail
    <3>2. CASE call[d].current \notin up
      BY <3>1, <3>2 DEF CallsInv, CallOK
    <3>3. CASE call[d].dest = "bad"
      BY <3>1, <3>3, DestinationAssumption DEF CallOK, Call
    <3> QED
      BY <1>5, <3>2, <3>3 DEF DialFail
  <2>2. call[d].pc = "dial" /\ call' = [call EXCEPT ![d].pc = "mark"]
    BY <1>5 DEF DialFail
  <2>3. "mark" \in Pc \ {"idle", "dial"}
    BY DEF Pc
  <2> QED
    BY <2>1, <2>2, <2>3, MoveOK
<1>6. CASE DialMark(d)
  BY <1>6, MarkOK
<1>7. CASE DialRefuse(d) \/ DialDirect(d)
  BY <1>7, MoveOK DEF DialRefuse, DialDirect, Pc, CallsInv, CallOK
<1>8. CASE DirectSucceed(d) \/ DirectFail(d) \/ Close(d)
  BY <1>8, MoveOK DEF DirectSucceed, DirectFail, Close, Pc
<1> QED
  BY <1>1, <1>2, <1>3, <1>4, <1>5, <1>6, <1>7, <1>8 DEF DialStep

(* The counters stay naturals.                                             *)
LEMMA StatOK ==
  ASSUME CallsInv, NEW d \in Dialer, DialStart(d) \/ DialStep(d) \/ Close(d)
  PROVE  stat' \in [Endpoint -> Stat]
<1>1. CASE UNCHANGED stat
  BY <1>1 DEF CallsInv
<1>2. CASE DialSucceed(d) \/ DialFail(d) \/ DialMark(d)
  <2>1. call[d].current \in Endpoint /\ stat[call[d].current] \in Stat
    BY <1>2 DEF DialSucceed, DialFail, DialMark, CallsInv, CallOK
  <2>2. CASE DialSucceed(d)
    BY <2>1, <2>2 DEF DialSucceed, CallsInv, Stat
  <2>3. CASE DialFail(d)
    BY <2>1, <2>3 DEF DialFail, CallsInv, Stat
  <2>4. CASE DialMark(d)
    BY <2>1, <2>4 DEF DialMark, CallsInv, Stat
  <2> QED
    BY <1>2, <2>2, <2>3, <2>4
<1> QED
  BY <1>1, <1>2 DEF DialStart, DialStep, Close, DialPick, DialGiveUp, DialRefuse,
                    DialDirect, DirectSucceed, DirectFail

-----------------------------------------------------------------------------
(* Steps of the pool leave the calls alone, and only an endpoint that may  *)
(* be unreachable becomes so.                                              *)
LEMMA PoolStepUp ==
  ASSUME Endpoint \ Unstable \subseteq up, PoolStep
  PROVE  Endpoint \ Unstable \subseteq up'
<1>1. CASE \E p \in Patcher : PatchStep(p)
  BY <1>1 DEF PatchStep, PatchEndpoint, PatchSnapshot, PatchSave
<1>2. CASE \E h \in ProbeRequest : ProbeStep(h)
  BY <1>2 DEF ProbeStep, ProbeStart, ProbeAll, ProbePublish
<1>3. CASE LoopStep
  BY <1>3 DEF LoopStep, LoopScan, LoopProbe, LoopPublish, LoopSave, LoopReceive
<1>4. CASE RunStep
  BY <1>4 DEF RunStep, RunFetch, RunProbe, RunSend
<1>5. CASE \E e \in Unstable : Flap(e)
  BY <1>5 DEF Flap
<1> QED
  BY <1>1, <1>2, <1>3, <1>4, <1>5 DEF PoolStep

LEMMA SameCallsOK ==
  ASSUME CallsInv, UNCHANGED <<call, stat>>, Endpoint \ Unstable \subseteq up',
         blockDirect' \in BOOLEAN, strategy' \in {"priority", "other"}
  PROVE  CallsInv'
BY DEF CallsInv, CallOK

LEMMA CallsStep ==
  ASSUME CallsInv, [DNext]_dvars
  PROVE  CallsInv'
<1>1. CASE PoolStep /\ UNCHANGED dialVars
  BY <1>1, PoolStepUp, SameCallsOK DEF CallsInv, dialVars
<1>2. CASE \E d \in Dialer : DialStart(d) \/ DialStep(d) \/ Close(d)
  <2>1. PICK d \in Dialer : DialStart(d) \/ DialStep(d) \/ Close(d)
    BY <1>2
  <2>2. /\ \A c \in Dialer \ {d} : call'[c] = call[c]
        /\ UNCHANGED <<up, blockDirect, strategy>>
    BY <2>1, CallStepFrame
  <2>3. call' \in [Dialer -> Call] /\ CallOK(d)' /\ stat' \in [Endpoint -> Stat]
    BY <2>1, CallStepOK, StatOK
  <2>4. \A c \in Dialer \ {d} : CallOK(c)'
    BY <2>2 DEF CallsInv, CallOK
  <2> QED
    BY <2>2, <2>3, <2>4 DEF CallsInv
<1>3. CASE \E v \in BlockDirect : SetBlockDirect(v)
  BY <1>3, SwitchAssumption, SameCallsOK DEF SetBlockDirect, vars, CallsInv
<1>4. CASE \E s \in Strategy : SetStrategy(s)
  BY <1>4, SwitchAssumption, SameCallsOK DEF SetStrategy, vars, CallsInv
<1>5. CASE UNCHANGED dvars
  BY <1>5, SameCallsOK DEF dvars, vars, dialVars, CallsInv
<1> QED
  BY <1>1, <1>2, <1>3, <1>4, <1>5 DEF DNext

(* Every step of the composition is a step of the pool or leaves it alone: *)
(* a call changes the pool by marking an endpoint that may fail.           *)
LEMMA PoolNext ==
  ASSUME CallsInv, [DNext]_dvars
  PROVE  [Next]_vars
<1>1. CASE PoolStep
  BY <1>1 DEF PoolStep, Next
<1>2. CASE \E d \in Dialer : DialStart(d) \/ DialStep(d) \/ Close(d)
  <2>1. PICK d \in Dialer : DialStart(d) \/ DialStep(d) \/ Close(d)
    BY <1>2
  <2>2. CASE DialMark(d)
    <3>1. call[d].current \in Unstable /\ MarkError(call[d].current)
      BY <2>2 DEF DialMark, CallsInv, CallOK
    <3> QED
      BY <3>1 DEF Next
  <2> QED
    BY <2>1, <2>2, CallStepFrame
<1>3. CASE \E v \in BlockDirect : SetBlockDirect(v)
  BY <1>3 DEF SetBlockDirect
<1>4. CASE \E s \in Strategy : SetStrategy(s)
  BY <1>4 DEF SetStrategy
<1>5. CASE UNCHANGED dvars
  BY <1>5 DEF dvars
<1> QED
  BY <1>1, <1>2, <1>3, <1>4, <1>5 DEF DNext

LEMMA CallsInit == DInit => CallsInv
<1> SUFFICES ASSUME DInit PROVE CallsInv
  OBVIOUS
<1>1. \A d \in Dialer : CallOK(d)
  BY FS_EmptySet DEF DInit, CallOK
<1> QED
  BY <1>1, SwitchAssumption DEF DInit, Init, CallsInv, Stat

(* The pool of Dialing behaves as EndpointPool says, so that what is       *)
(* proved of the pool holds with any number of calls failing over on it.   *)
THEOREM DialingImplementsPool == DSpec => PoolSpec
<1>1. DInit => CallsInv
  BY CallsInit
<1>2. CallsInv /\ [DNext]_dvars => CallsInv'
  BY CallsStep
<1>3. DInit => Init
  BY DEF DInit
<1>4. CallsInv /\ [DNext]_dvars => [Next]_vars
  BY PoolNext
<1> QED
  BY <1>1, <1>2, <1>3, <1>4, PTL DEF DSpec, PoolSpec, Spec

(* A call never tries an endpoint twice, whatever probes bring back.       *)
THEOREM Attempts == DSpec => []AttemptsSpendEndpoints
<1>1. DInit => CallsInv
  BY CallsInit
<1>2. CallsInv /\ [DNext]_dvars => CallsInv'
  BY CallsStep
<1>3. CallsInv => AttemptsSpendEndpoints
  BY DEF CallsInv, CallOK, AttemptsSpendEndpoints
<1> QED
  BY <1>1, <1>2, <1>3, PTL DEF DSpec

-----------------------------------------------------------------------------
(* Counting.  A step of a call puts it into one of the three sets and adds *)
(* one to the counter beside it, or touches neither.                       *)
FailedOver(e) == {d \in Dialer : e \in call[d].tried}

Counted ==
  \A e \in Endpoint :
    /\ stat[e].dials = Cardinality(DialsOf(e))
    /\ stat[e].dialErrors = Cardinality(ErrorsOf(e))
    /\ stat[e].failovers = Cardinality(FailedOver(e))

LEMMA CountsFinite ==
  ASSUME IsFiniteSet(Dialer), NEW e \in Endpoint
  PROVE  /\ IsFiniteSet(DialsOf(e))
         /\ IsFiniteSet(ErrorsOf(e))
         /\ IsFiniteSet(FailedOver(e))
<1>1. /\ DialsOf(e) \subseteq Dialer
      /\ ErrorsOf(e) \subseteq Dialer
      /\ FailedOver(e) \subseteq Dialer
  BY DEF DialsOf, ErrorsOf, FailedOver
<1> QED
  BY <1>1, FS_Subset

LEMMA CountsStep ==
  ASSUME IsFiniteSet(Dialer), CallsInv, Counted, NEW d \in Dialer,
         DialStart(d) \/ DialStep(d) \/ Close(d)
  PROVE  Counted'
<1> SUFFICES ASSUME NEW e \in Endpoint
             PROVE  /\ stat'[e].dials = Cardinality(DialsOf(e)')
                    /\ stat'[e].dialErrors = Cardinality(ErrorsOf(e)')
                    /\ stat'[e].failovers = Cardinality(FailedOver(e)')
  BY DEF Counted
<1>0. /\ CallOK(d) /\ call[d] \in Call /\ call \in [Dialer -> Call]
      /\ \A c \in Dialer \ {d} : call'[c] = call[c]
      /\ stat \in [Endpoint -> Stat] /\ stat[e] \in Stat
      /\ stat[e].dials = Cardinality(DialsOf(e))
      /\ stat[e].dialErrors = Cardinality(ErrorsOf(e))
      /\ stat[e].failovers = Cardinality(FailedOver(e))
  BY CallStepFrame DEF CallsInv, Counted
<1>1. CASE DialSucceed(d)
  <2>1. /\ call[d].pc = "dial" /\ call[d].current \in Endpoint
        /\ call[d].current \notin call[d].tried
        /\ call'[d].pc = "open" /\ call'[d].current = call[d].current
        /\ call'[d].tried = call[d].tried
    BY <1>0, <1>1 DEF DialSucceed, CallOK, Call
  <2>2. /\ ErrorsOf(e)' = ErrorsOf(e)
        /\ FailedOver(e)' = FailedOver(e)
    BY <1>0, <2>1 DEF ErrorsOf, FailedOver
  <2>3. CASE e = call[d].current
    <3>1. DialsOf(e)' = DialsOf(e) \cup {d} /\ d \notin DialsOf(e)
      BY <1>0, <2>1, <2>3 DEF DialsOf
    <3>2. stat'[e] = [stat[e] EXCEPT !.dials = @ + 1]
      BY <1>0, <1>1, <2>3 DEF DialSucceed
    <3>3. Cardinality(DialsOf(e)') = stat[e].dials + 1
      BY <1>0, <3>1, FS_AddElement, CountsFinite
    <3> QED
      BY <1>0, <2>2, <3>2, <3>3 DEF Stat
  <2>4. CASE e # call[d].current
    <3>1. DialsOf(e)' = DialsOf(e)
      BY <1>0, <2>1, <2>4 DEF DialsOf
    <3>2. stat'[e] = stat[e]
      BY <1>0, <1>1, <2>4 DEF DialSucceed
    <3> QED
      BY <1>0, <2>2, <3>1, <3>2
  <2> QED
    BY <2>3, <2>4
<1>2. CASE DialFail(d)
  <2>1. /\ call[d].pc = "dial" /\ call[d].current \in Endpoint
        /\ call[d].current \notin call[d].tried
        /\ call'[d].pc = "mark" /\ call'[d].current = call[d].current
        /\ call'[d].tried = call[d].tried
    BY <1>0, <1>2 DEF DialFail, CallOK, Call
  <2>2. FailedOver(e)' = FailedOver(e)
    BY <1>0, <2>1 DEF FailedOver
  <2>3. CASE e = call[d].current
    <3>1. /\ DialsOf(e)' = DialsOf(e) \cup {d} /\ d \notin DialsOf(e)
          /\ ErrorsOf(e)' = ErrorsOf(e) \cup {d} /\ d \notin ErrorsOf(e)
      BY <1>0, <2>1, <2>3 DEF DialsOf, ErrorsOf
    <3>2. /\ stat'[e].dials = stat[e].dials + 1
          /\ stat'[e].dialErrors = stat[e].dialErrors + 1
          /\ stat'[e].failovers = stat[e].failovers
      BY <1>0, <1>2, <2>3 DEF DialFail, Stat
    <3>3. Cardinality(DialsOf(e)') = stat[e].dials + 1
      BY <1>0, <3>1, FS_AddElement, CountsFinite
    <3>4. Cardinality(ErrorsOf(e)') = stat[e].dialErrors + 1
      BY <1>0, <3>1, FS_AddElement, CountsFinite
    <3> QED
      BY <1>0, <2>2, <3>2, <3>3, <3>4 DEF Stat
  <2>4. CASE e # call[d].current
    <3>1. DialsOf(e)' = DialsOf(e) /\ ErrorsOf(e)' = ErrorsOf(e)
      BY <1>0, <2>1, <2>4 DEF DialsOf, ErrorsOf
    <3>2. stat'[e] = stat[e]
      BY <1>0, <1>2, <2>4 DEF DialFail
    <3> QED
      BY <1>0, <2>2, <3>1, <3>2
  <2> QED
    BY <2>3, <2>4
<1>3. CASE DialMark(d)
  <2>1. /\ call[d].pc = "mark" /\ call[d].current \in Endpoint
        /\ call[d].current \notin call[d].tried
        /\ call'[d].pc = "pick"
        /\ call'[d].tried = call[d].tried \cup {call[d].current}
    BY <1>0, <1>3 DEF DialMark, CallOK, Call
  <2>2. DialsOf(e)' = DialsOf(e) /\ ErrorsOf(e)' = ErrorsOf(e)
    BY <1>0, <2>1 DEF DialsOf, ErrorsOf
  <2>3. CASE e = call[d].current
    <3>1. FailedOver(e)' = FailedOver(e) \cup {d} /\ d \notin FailedOver(e)
      BY <1>0, <2>1, <2>3 DEF FailedOver
    <3>2. stat'[e] = [stat[e] EXCEPT !.failovers = @ + 1]
      BY <1>0, <1>3, <2>3 DEF DialMark
    <3>3. Cardinality(FailedOver(e)') = stat[e].failovers + 1
      BY <1>0, <3>1, FS_AddElement, CountsFinite
    <3> QED
      BY <1>0, <2>2, <3>2, <3>3 DEF Stat
  <2>4. CASE e # call[d].current
    <3>1. FailedOver(e)' = FailedOver(e)
      BY <1>0, <2>1, <2>4 DEF FailedOver
    <3>2. stat'[e] = stat[e]
      BY <1>0, <1>3, <2>4 DEF DialMark
    <3> QED
      BY <1>0, <2>2, <3>1, <3>2
  <2> QED
    BY <2>3, <2>4
<1>4. CASE ~ DialSucceed(d) /\ ~ DialFail(d) /\ ~ DialMark(d)
  <2>1. /\ UNCHANGED stat
        /\ call'[d].tried = call[d].tried
        /\ UNCHANGED call \/ (call[d].pc # "mark" /\ call'[d].pc # "mark")
    BY <1>0, <1>4 DEF DialStart, DialStep, Close, DialPick, DialGiveUp, DialRefuse,
       DialDirect, DirectSucceed, DirectFail, Call
  <2>2. (call[d].pc \in {"open", "closed"} /\ call[d].current = e)
          <=> (call'[d].pc \in {"open", "closed"} /\ call'[d].current = e)
    BY <1>0, <1>4, NoneNoEndpointAssumption
       DEF DialStart, DialStep, Close, DialPick, DialGiveUp, DialRefuse, DialDirect,
       DirectSucceed, DirectFail, Call, CallOK
  <2>3. /\ DialsOf(e)' = DialsOf(e)
        /\ ErrorsOf(e)' = ErrorsOf(e)
        /\ FailedOver(e)' = FailedOver(e)
    BY <1>0, <2>1, <2>2 DEF DialsOf, ErrorsOf, FailedOver
  <2> QED
    BY <1>0, <2>1, <2>3
<1> QED
  BY <1>1, <1>2, <1>3, <1>4

(* The counters of /api/stats account for the calls, for any finite number *)
(* of them and whatever order their steps take.                            *)
THEOREM CountersAddUp == IsFiniteSet(Dialer) /\ DSpec => []StatsAddUp
<1> SUFFICES ASSUME IsFiniteSet(Dialer) PROVE DSpec => []StatsAddUp
  OBVIOUS
<1>1. DInit => CallsInv /\ Counted
  <2> SUFFICES ASSUME DInit PROVE Counted
    BY CallsInit
  <2>1. \A e \in Endpoint : DialsOf(e) = {} /\ ErrorsOf(e) = {} /\ FailedOver(e) = {}
    BY DEF DInit, DialsOf, ErrorsOf, FailedOver
  <2> QED
    BY <2>1, FS_EmptySet DEF DInit, Counted
<1>2. CallsInv /\ Counted /\ [DNext]_dvars => CallsInv' /\ Counted'
  <2> SUFFICES ASSUME CallsInv, Counted, [DNext]_dvars PROVE Counted'
    BY CallsStep
  <2>1. CASE \E d \in Dialer : DialStart(d) \/ DialStep(d) \/ Close(d)
    BY <2>1, CountsStep
  <2>2. CASE UNCHANGED <<call, stat>>
    BY <2>2 DEF Counted, DialsOf, ErrorsOf, FailedOver
  <2> QED
    BY <2>1, <2>2 DEF DNext, dvars, dialVars, SetBlockDirect, SetStrategy
<1>3. Counted => StatsAddUp
  <2> SUFFICES ASSUME Counted, NEW e \in Endpoint
               PROVE  stat[e].failovers >= Cardinality(TakenOver(e))
    BY DEF Counted, StatsAddUp
  <2>1. TakenOver(e) \subseteq FailedOver(e) /\ IsFiniteSet(FailedOver(e))
    BY CountsFinite DEF TakenOver, FailedOver
  <2>2. Cardinality(TakenOver(e)) <= Cardinality(FailedOver(e))
    BY <2>1, FS_Subset
  <2>3. Cardinality(TakenOver(e)) \in Nat /\ Cardinality(FailedOver(e)) \in Nat
    BY <2>1, FS_Subset, FS_CardinalityType
  <2> QED
    BY <2>2, <2>3 DEF Counted
<1> QED
  BY <1>1, <1>2, <1>3, PTL DEF DSpec

-----------------------------------------------------------------------------
(* What the history of a call tells about the pool.                        *)
HistoryOK(d) ==
  /\ liveAll[d] \subseteq Live \ call[d].tried
  /\ steadyAll[d] \subseteq Live
  /\ strategy # "priority" => steadyAll[d] = {}
  /\ GaveUp(d) => call[d].attempt = MaxDialAttempts \/ liveAll[d] = {}
  /\ call[d].pc = "dial" /\ call[d].current \in steadyAll[d] =>
       \A e \in steadyAll[d] \ call[d].tried :
         pool[call[d].current].priority <= pool[e].priority
  /\ call[d].pc = "direct" => ~ blockedAll[d]

(* The history of one step, seen from one call.                            *)
LEMMA Recorded ==
  ASSUME RecordCalls, NEW d \in Dialer, HistoryTyped
  PROVE  /\ liveAll'[d] \subseteq Live'
         /\ steadyAll'[d] \subseteq Live'
         /\ strategy' # "priority" => steadyAll'[d] = {}
         /\ blockedAll'[d] => blockDirect'
         /\ call[d].pc # "idle" =>
              /\ liveAll'[d] \subseteq liveAll[d]
              /\ steadyAll'[d] \subseteq steadyAll[d]
              /\ \A e \in steadyAll'[d] : pool'[e].priority = pool[e].priority
              /\ blockedAll'[d] => blockedAll[d]
<1>1. liveAll'[d] = IF call[d].pc = "idle" THEN Live' ELSE liveAll[d] \cap Live'
  BY DEF RecordCalls
<1>2. steadyAll'[d] =
        IF strategy' # "priority" THEN {}
        ELSE IF call[d].pc = "idle" THEN Live'
        ELSE steadyAll[d] \cap {e \in Live' : pool'[e].priority = pool[e].priority}
  BY DEF RecordCalls
<1>3. blockedAll'[d] = IF call[d].pc = "idle" THEN blockDirect'
                       ELSE blockedAll[d] /\ blockDirect'
  BY DEF RecordCalls
<1>4. /\ liveAll'[d] \subseteq Live'
      /\ call[d].pc # "idle" => liveAll'[d] \subseteq liveAll[d]
  BY <1>1
<1>5. /\ steadyAll'[d] \subseteq Live'
      /\ strategy' # "priority" => steadyAll'[d] = {}
      /\ call[d].pc # "idle" =>
           /\ steadyAll'[d] \subseteq steadyAll[d]
           /\ \A e \in steadyAll'[d] : pool'[e].priority = pool[e].priority
  BY <1>2
<1>6. /\ blockedAll'[d] => blockDirect'
      /\ call[d].pc # "idle" => (blockedAll'[d] => blockedAll[d])
  BY <1>3
<1> QED
  BY <1>4, <1>5, <1>6

LEMMA HistoryType ==
  ASSUME HistoryTyped, CallsInv', RecordCalls
  PROVE  HistoryTyped'
<1>1. Live' \subseteq Endpoint
  BY DEF Live
<1>2. liveAll' \in [Dialer -> SUBSET Endpoint]
  BY <1>1 DEF HistoryTyped, RecordCalls
<1>3. steadyAll' \in [Dialer -> SUBSET Endpoint]
  BY <1>1 DEF HistoryTyped, RecordCalls
<1>4. blockedAll' \in [Dialer -> BOOLEAN]
  <2>1. blockDirect' \in BOOLEAN
    BY DEF CallsInv
  <2>2. \A d \in Dialer :
          (IF call[d].pc = "idle" THEN blockDirect'
           ELSE blockedAll[d] /\ blockDirect') \in BOOLEAN
    BY <2>1
  <2> QED
    BY <2>2 DEF RecordCalls
<1> QED
  BY <1>2, <1>3, <1>4 DEF HistoryTyped

(* Steps of others, and of the switches, as one call sees them.            *)
LEMMA OthersKeep ==
  ASSUME CallsInv, HistoryTyped, RecordCalls, NEW d \in Dialer, HistoryOK(d),
         call'[d] = call[d]
  PROVE  HistoryOK(d)'
<1> USE DEF HistoryOK
<1>1. CallOK(d)
  BY DEF CallsInv
<1>2. liveAll'[d] \subseteq Live' \ call'[d].tried
  BY <1>1, Recorded DEF CallOK
<1>3. steadyAll'[d] \subseteq Live' /\ (strategy' # "priority" => steadyAll'[d] = {})
  BY Recorded
<1>4. GaveUp(d)' => call'[d].attempt = MaxDialAttempts \/ liveAll'[d] = {}
  BY Recorded DEF GaveUp
<1>5. call'[d].pc = "dial" /\ call'[d].current \in steadyAll'[d] =>
        \A e \in steadyAll'[d] \ call'[d].tried :
          pool'[call'[d].current].priority <= pool'[e].priority
  BY Recorded
<1>6. call'[d].pc = "direct" => ~ blockedAll'[d]
  BY Recorded
<1> QED
  BY <1>2, <1>3, <1>4, <1>5, <1>6

(* The steps of the call itself.                                           *)
LEMMA OwnKeep ==
  ASSUME TypeOK, CallsInv, HistoryTyped, RecordCalls, NEW d \in Dialer, HistoryOK(d),
         DialStart(d) \/ DialStep(d) \/ Close(d)
  PROVE  HistoryOK(d)'
<1>0. /\ CallOK(d) /\ call[d] \in Call /\ call \in [Dialer -> Call]
      /\ UNCHANGED <<blockDirect, strategy>>
      /\ UNCHANGED vars \/ DialMark(d)
  BY CallStepFrame DEF CallsInv
<1>1. /\ steadyAll'[d] \subseteq Live'
      /\ strategy' # "priority" => steadyAll'[d] = {}
      /\ liveAll'[d] \subseteq Live'
  BY Recorded
<1>2. CASE DialMark(d)
  <2>1. /\ call'[d].pc = "pick"
        /\ call'[d].tried = call[d].tried \cup {call[d].current}
        /\ call[d].pc = "mark"
        /\ pool' = [pool EXCEPT ![call[d].current].status = "bad"]
        /\ call[d].current \in Endpoint
    BY <1>0, <1>2 DEF DialMark, MarkError, CallOK, Call
  <2>2. call[d].current \notin Live'
    <3>1. pool'[call[d].current].status = "bad"
      BY <2>1 DEF TypeOK, Pool, EndpointRec
    <3> QED
      BY <3>1 DEF Live
  <2>3. liveAll'[d] \subseteq Live' \ call'[d].tried
    BY <2>1, <2>2, Recorded DEF HistoryOK
  <2> QED
    BY <1>1, <2>1, <2>3 DEF HistoryOK, GaveUp
<1>3. CASE DialPick(d)
  <2>1. PICK e \in Candidates(call[d].tried) :
          call' = [call EXCEPT ![d].pc = "dial", ![d].current = e]
    BY <1>3 DEF DialPick
  <2>2. /\ call'[d].pc = "dial" /\ call'[d].current = e
        /\ call'[d].tried = call[d].tried
        /\ call[d].pc = "pick"
        /\ UNCHANGED pool
    BY <1>0, <1>3, <2>1 DEF DialPick, Call, vars
  <2>3. Live' = Live
    BY <2>2 DEF Live
  <2>4. liveAll'[d] \subseteq Live' \ call'[d].tried
    BY <2>2, <2>3, Recorded DEF HistoryOK
  <2>5. ASSUME e \in steadyAll'[d], NEW f \in steadyAll'[d] \ call'[d].tried
        PROVE  pool'[e].priority <= pool'[f].priority
    <3>1. strategy = "priority"
      BY <1>0, <1>1, <2>5
    <3>2. f \in Live \ call[d].tried
      BY <1>1, <2>2, <2>3
    <3> QED
      BY <2>2, <3>1, <3>2 DEF Candidates
  <2> QED
    BY <1>1, <2>2, <2>4, <2>5 DEF HistoryOK, GaveUp
<1>4. CASE UNCHANGED vars /\ ~ DialMark(d) /\ ~ DialPick(d)
  <2>1. /\ Live' = Live
        /\ call'[d].tried = call[d].tried
        /\ call'[d].attempt = call[d].attempt
        /\ call'[d].current = call[d].current
        /\ call'[d].pc # "dial"
    BY <1>0, <1>4 DEF DialStart, DialStep, Close, DialGiveUp, DialSucceed, DialFail,
       DialRefuse, DialDirect, DirectSucceed, DirectFail, vars, Live, Call
  <2>2. liveAll'[d] \subseteq Live' \ call'[d].tried
    BY <1>0, <1>1, <2>1, Recorded DEF HistoryOK, CallOK
  <2>3. call'[d].pc = "direct" => ~ blockedAll'[d]
    <3>1. call'[d].pc = "direct" => ~ blockDirect'
      BY <1>0, <1>4 DEF DialStart, DialStep, Close, DialGiveUp, DialSucceed, DialFail,
         DialRefuse, DialDirect, DirectSucceed, DirectFail, Call
    <3> QED
      BY <3>1, Recorded
  <2>4. GaveUp(d)' => call'[d].attempt = MaxDialAttempts \/ liveAll'[d] = {}
    <3>1. CASE DialGiveUp(d)
      <4>1. call[d].pc = "pick"
        BY <3>1 DEF DialGiveUp
      <4>2. call[d].attempt = MaxDialAttempts \/ Live \ call[d].tried = {}
        BY <3>1, CandidatesEmpty DEF DialGiveUp, TypeOK
      <4> QED
        BY <2>1, <2>2, <4>1, <4>2
    <3>2. CASE GaveUp(d)
      <4>1. call[d].pc # "idle"
        BY <3>2 DEF GaveUp
      <4> QED
        BY <2>1, <3>2, <4>1, Recorded DEF HistoryOK
    <3>3. CASE ~ DialGiveUp(d) /\ ~ GaveUp(d)
      <4>1. ~ GaveUp(d)'
        BY <1>0, <1>4, <3>3, NoneNoEndpointAssumption DEF DialStart, DialStep, Close,
           DialSucceed, DialFail, DialRefuse, DialDirect, DirectSucceed, DirectFail,
           GaveUp, Call, CallOK
      <4> QED
        BY <4>1
    <3> QED
      BY <3>1, <3>2, <3>3
  <2> QED
    BY <1>1, <2>1, <2>2, <2>3, <2>4 DEF HistoryOK
<1> QED
  BY <1>0, <1>2, <1>3, <1>4

-----------------------------------------------------------------------------
DInv ==
  /\ TypeOK
  /\ CallsInv
  /\ HistoryTyped
  /\ \A d \in Dialer : HistoryOK(d)

LEMMA DInvInit == DInit => DInv
<1> SUFFICES ASSUME DInit PROVE DInv
  OBVIOUS
<1>1. TypeOK /\ CallsInv
  BY InitType, CallsInit DEF DInit
<1>2. HistoryTyped
  BY DEF DInit, HistoryTyped
<1>3. \A d \in Dialer : HistoryOK(d)
  BY DEF DInit, HistoryOK, GaveUp
<1> QED
  BY <1>1, <1>2, <1>3 DEF DInv

LEMMA DInvStep ==
  ASSUME DInv, [DNext]_dvars
  PROVE  DInv'
<1>1. TypeOK' /\ CallsInv'
  BY StepType, PoolNext, CallsStep DEF DInv
<1>2. CASE DNext
  <2>1. RecordCalls /\ HistoryTyped'
    BY <1>1, <1>2, HistoryType DEF DNext, DInv
  <2>2. ASSUME NEW d \in Dialer PROVE HistoryOK(d)'
    <3>1. CASE DialStart(d) \/ DialStep(d) \/ Close(d)
      BY <2>1, <3>1, OwnKeep DEF DInv
    <3>2. CASE call'[d] = call[d]
      BY <2>1, <3>2, OthersKeep DEF DInv
    <3>3. CASE \E c \in Dialer \ {d} : DialStart(c) \/ DialStep(c) \/ Close(c)
      BY <3>2, <3>3, CallStepFrame DEF DInv
    <3>4. CASE UNCHANGED call
      BY <3>2, <3>4
    <3> QED
      BY <1>2, <3>1, <3>3, <3>4 DEF DNext, dialVars, SetBlockDirect, SetStrategy
  <2> QED
    BY <1>1, <2>1, <2>2 DEF DInv
<1>3. CASE UNCHANGED dvars
  BY <1>1, <1>3 DEF DInv, HistoryTyped, HistoryOK, GaveUp, Live, dvars, vars, poolVars,
     dialVars, historyOfCalls
<1> QED
  BY <1>2, <1>3

(* The types of a dial, the pool's included.                               *)
THEOREM DialTyping == DSpec => []DTypeOK
<1>1. DInv => DTypeOK
  BY DTypeParts DEF DInv
<1> QED
  BY <1>1, DInvInit, DInvStep, PTL DEF DSpec

(* A call that leaves the pool has used up its attempts, or no endpoint    *)
(* was live all along, however PATCHes, probes and other calls interleave. *)
THEOREM NoneSkipped == DSpec => []NoLiveEndpointSkipped
<1>1. DInv => NoLiveEndpointSkipped
  BY DEF DInv, HistoryOK, NoLiveEndpointSkipped
<1> QED
  BY <1>1, DInvInit, DInvStep, PTL DEF DSpec

(* Under the priority strategy a call dials the best endpoint of those     *)
(* that stayed as they were and that it has not tried.                     *)
THEOREM BestDialed == DSpec => []BestSteadyEndpointDialed
<1>1. DInv => BestSteadyEndpointDialed
  BY DEF DInv, HistoryOK, BestSteadyEndpointDialed
<1> QED
  BY <1>1, DInvInit, DInvStep, PTL DEF DSpec

(* The kill-switch holds for every call it is set for from start to end.   *)
THEOREM KillSwitch == DSpec => []NoDirectWhileBlocked
<1>1. DInv => NoDirectWhileBlocked
  BY DEF DInv, HistoryOK, NoDirectWhileBlocked
<1> QED
  BY <1>1, DInvInit, DInvStep, PTL DEF DSpec
=============================================================================
