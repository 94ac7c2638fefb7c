--------------------------- MODULE LiveFeed_proofs ---------------------------
(***************************************************************************)
(* The dashboard's feeds for any number of browsers, requests and changes  *)
(* of the pool, and channels of any capacity: nothing is sent on a closed  *)
(* channel, a container follows a toggle that nothing crossed, and an idle *)
(* feed shows the pool that was announced last, if the last that reached   *)
(* its page was not an older one.                                          *)
(***************************************************************************)
EXTENDS LiveFeed, SequenceTheorems, TLAPS

Steps == {"off", "register", "subscribe", "snapshot", "first", "select", "sendPool", "sendLog",
          "unregister", "release", "close"}
CallType == [pc : {"idle", "toggled", "patched", "probing", "published", "broadcast", "offer"},
             payload : 0..MaxPool, seen : BOOLEAN, todo : SUBSET Client,
             made : 0..MaxPool, page : Client \cup {None}]

PoolType == /\ pool \in 0..MaxPool /\ enabled \in BOOLEAN /\ announced \in BOOLEAN
            /\ call \in [Call -> CallType]
DockerType == /\ scenario \in Scenario
              /\ container \in BOOLEAN /\ control \in [Call -> {"none", "start", "stop"}]
              /\ crossed \in BOOLEAN /\ disturbed \in BOOLEAN
HubType == /\ registered \subseteq Client /\ hub \in [Client -> Seq(0..MaxPool)]
           /\ \A c \in Client : Len(hub[c]) <= HubRoom
           /\ behind \in [Client -> BOOLEAN]
BusType == /\ subscribed \subseteq Client /\ closed \subseteq Client
           /\ logs \in [Client -> 0..LogRoom]
           /\ publishing \in BOOLEAN /\ due \subseteq Client
WebType == /\ feed \in [Client -> [pc : Steps, frame : 0..MaxPool]]
           /\ browser \in [Client -> {"away", "open", "gone", "reset"}]
           /\ shown \in [Client -> 0..MaxPool \cup {None, Mixed}]
           /\ asked \in [Client -> SUBSET (0..MaxPool \cup {Sent})]
           /\ patched \in [Client -> SUBSET (0..MaxPool)]

LEMMA TypeParts ==
  /\ TypeOK => PoolType /\ DockerType /\ HubType /\ BusType /\ WebType
  /\ PoolType' /\ DockerType' /\ HubType' /\ BusType' /\ WebType' => TypeOK'
BY DEF TypeOK, PoolType, DockerType, HubType, BusType, WebType, CallType, Steps

(* What a step leaves alone keeps its type.                                *)
LEMMA PoolTypeKept == PoolType /\ UNCHANGED poolVars => PoolType'
BY DEF PoolType, poolVars
LEMMA DockerTypeKept == DockerType /\ UNCHANGED dockerVars => DockerType'
BY DEF DockerType, dockerVars
LEMMA HubTypeKept == HubType /\ UNCHANGED hubVars => HubType'
BY DEF HubType, hubVars
LEMMA BusTypeKept == BusType /\ UNCHANGED busVars => BusType'
BY DEF BusType, busVars
LEMMA WebTypeKept == WebType /\ UNCHANGED webVars => WebType'
BY DEF WebType, webVars, pageVars

(* Who changes what.                                                       *)
LEMMA CallsLeave ==
  ASSUME \/ ChangeSilently \/ \E g \in Call : CallStep(g) \/ ControlStep(g)
  PROVE  UNCHANGED <<registered, subscribed, closed, publishing, due, feed, browser, shown, asked>>
<1>1. ASSUME NEW g \in Call, CallStep(g)
      PROVE  UNCHANGED <<registered, subscribed, closed, publishing, due, feed, browser, shown, asked>>
  <2>1. CASE \E page \in Client \cup {None} : Patch(g, page) \/ \E on \in BOOLEAN : Toggle(g, on, page)
    BY <2>1 DEF Patch, Toggle, hubVars, busVars, webVars, pageVars
  <2>2. CASE ProbeStart(g) \/ ProbePublish(g) \/ MergePublish(g)
    BY <2>2 DEF ProbeStart, ProbePublish, MergePublish, PutBack, hubVars, busVars, webVars, pageVars
  <2>3. CASE BroadcastStep(g)
    BY <2>3 DEF BroadcastStep, Control, Collect, Marshal, Broadcast, Offer, Offered, BroadcastEnds,
                hubVars, busVars, webVars, pageVars
  <2> QED
    BY <1>1, <2>1, <2>2, <2>3 DEF CallStep
<1> QED
  BY <1>1 DEF ChangeSilently, ControlStep, DockerActs, ControlFails, hubVars, busVars, webVars,
              pageVars

LEMMA LogsLeave ==
  ASSUME LogStep
  PROVE  UNCHANGED <<poolVars, dockerVars, hubVars, webVars>>
BY DEF LogStep, LogPublish, LogEnds, LogOffer

(* A browser that leaves is no longer the page of its requests.            *)
LEMMA OnlyLeaveCalls ==
  ASSUME NEW c, FeedStep(c) \/ SendStep(c) \/ BrowserStep(c), ~ Leave(c)
  PROVE  call' = call
BY DEF FeedStep, SendStep, BrowserStep, Register, Subscribe, Snapshot, TakePool, TakeLog,
       Unregister, Release, Close, SendTaken, SendIntoVoid, SendFails, Open, Refresh,
       AnswerGet, ApplyGet, ApplyPatch, Show, poolVars

LEMMA FeedsLeave ==
  ASSUME \E c \in Client : FeedStep(c) \/ SendStep(c) \/ BrowserStep(c)
  PROVE  UNCHANGED <<pool, enabled, announced, dockerVars, publishing, due>>
BY DEF FeedStep, SendStep, BrowserStep, Register, Subscribe, Snapshot, TakePool, TakeLog,
       Unregister, Release, Close, SendTaken, SendIntoVoid, SendFails, Open, Refresh, Leave,
       AnswerGet, ApplyGet, ApplyPatch, Show, poolVars, busVars

LEMMA FeedsKeepCalls ==
  ASSUME TypeOK, NEW c \in Client, FeedStep(c) \/ SendStep(c) \/ BrowserStep(c), NEW g \in Call
  PROVE  /\ call'[g].pc = call[g].pc /\ call'[g].payload = call[g].payload
         /\ call'[g].seen = call[g].seen /\ call'[g].todo = call[g].todo
<1>1. CASE Leave(c)
  <2>1. call'[g] = IF call[g].page = c THEN [call[g] EXCEPT !.page = None] ELSE call[g]
    BY <1>1 DEF Leave
  <2> QED
    BY <2>1 DEF TypeOK
<1>2. CASE ~ Leave(c)
  BY <1>2, OnlyLeaveCalls
<1> QED
  BY <1>1, <1>2

-----------------------------------------------------------------------------
(* Requests, the background loop and docker.                               *)
LEMMA CallTypes ==
  ASSUME TypeOK, NEW g \in Call, CallStep(g) \/ ControlStep(g)
  PROVE  TypeOK'
<1>1. PoolType /\ DockerType /\ HubType /\ BusType /\ WebType /\ call[g] \in CallType
      /\ MaxPool \in Nat /\ HubRoom \in Nat \ {0}
  BY TypeParts, MaxPoolAssumption, RoomAssumption DEF PoolType
<1>2. ASSUME NEW on \in BOOLEAN, NewPool(on)
      PROVE  pool' \in 0..MaxPool /\ enabled' \in BOOLEAN /\ announced' \in BOOLEAN
  <2>1. pool \in 0..MaxPool /\ pool < MaxPool /\ pool' = pool + 1 /\ announced' = FALSE
        /\ enabled' = on
    BY <1>1, <1>2 DEF NewPool, PoolType
  <2>2. pool' \in 0..MaxPool
    BY <1>1, <2>1
  <2> QED
    BY <2>1, <2>2
<1>3. ASSUME NEW pc \in {"toggled", "patched", "broadcast", "probing", "published", "offer"},
             NEW v \in 0..MaxPool, NEW on \in BOOLEAN, NEW todo \in SUBSET Client
      PROVE  /\ [call EXCEPT ![g].pc = pc] \in [Call -> CallType]
             /\ [call EXCEPT ![g].pc = pc, ![g].payload = v] \in [Call -> CallType]
             /\ [call EXCEPT ![g].pc = pc, ![g].seen = on] \in [Call -> CallType]
             /\ [call EXCEPT ![g].pc = pc, ![g].todo = todo] \in [Call -> CallType]
             /\ [call EXCEPT ![g].todo = todo] \in [Call -> CallType]
  <2>1. call \in [Call -> CallType]
    BY <1>1 DEF PoolType
  <2>2. [call EXCEPT ![g].pc = pc] \in [Call -> CallType]
    BY <1>1, <2>1 DEF CallType
  <2>3. [call EXCEPT ![g].pc = pc, ![g].payload = v] \in [Call -> CallType]
    BY <1>1, <2>1 DEF CallType
  <2>4. [call EXCEPT ![g].pc = pc, ![g].seen = on] \in [Call -> CallType]
    BY <1>1, <2>1 DEF CallType
  <2>5. [call EXCEPT ![g].pc = pc, ![g].todo = todo] \in [Call -> CallType]
    BY <1>1, <2>1 DEF CallType
  <2>6. [call EXCEPT ![g].todo = todo] \in [Call -> CallType]
    BY <1>1, <2>1 DEF CallType
  <2> QED
    BY <2>2, <2>3, <2>4, <2>5, <2>6
<1>4. ASSUME UNCHANGED <<hubVars, busVars, webVars>>, PoolType', DockerType'
      PROVE  TypeOK'
  BY <1>1, <1>4, HubTypeKept, BusTypeKept, WebTypeKept, TypeParts
<1>5. ASSUME UNCHANGED dockerVars
      PROVE  DockerType'
  BY <1>1, <1>5, DockerTypeKept
<1>6. ASSUME UNCHANGED poolVars
      PROVE  PoolType'
  BY <1>1, <1>6, PoolTypeKept
<1>7. CASE Collect(g) \/ ProbeStart(g) \/ Marshal(g) \/ Broadcast(g)
  <2>1. pool \in 0..MaxPool /\ enabled \in BOOLEAN /\ call[g].payload \in 0..MaxPool
        /\ registered \in SUBSET Client
    BY <1>1 DEF PoolType, CallType, HubType
  <2>2. ASSUME Collect(g)
        PROVE  PoolType'
    BY <1>1, <1>3, <2>1, <2>2 DEF Collect, PoolType
  <2>3. ASSUME ProbeStart(g)
        PROVE  PoolType'
    BY <1>1, <1>3, <2>1, <2>3 DEF ProbeStart, PoolType
  <2>4. ASSUME Marshal(g)
        PROVE  PoolType'
    <3>1. PICK v \in 0..MaxPool : call' = [call EXCEPT ![g].pc = "broadcast", ![g].payload = v]
      BY <2>1, <2>4 DEF Marshal
    <3> QED
      BY <1>1, <1>3, <2>4, <3>1 DEF Marshal, PoolType
  <2>5. ASSUME Broadcast(g)
        PROVE  PoolType'
    BY <1>1, <1>3, <2>1, <2>5 DEF Broadcast, PoolType
  <2> QED
    BY <1>4, <1>5, <1>7, <2>2, <2>3, <2>4, <2>5
    DEF Collect, ProbeStart, Marshal, Broadcast
<1>8. ASSUME NEW page \in Client \cup {None},
             Patch(g, page) \/ \E on \in BOOLEAN : Toggle(g, on, page)
      PROVE  TypeOK'
  <2>1. PICK pc \in {"toggled", "patched"}, on \in BOOLEAN : Patched(g, pc, on, page)
    BY <1>1, <1>8 DEF Patch, Toggle, PoolType
  <2>2. pool' \in 0..MaxPool /\ enabled' \in BOOLEAN /\ announced' \in BOOLEAN
    BY <1>2, <2>1 DEF Patched
  <2>3. PoolType'
    <3> DEFINE k == [call[g] EXCEPT !.pc = pc, !.made = pool', !.page = page, !.seen = on]
    <3>1. call' = [call EXCEPT ![g] = k]
      BY <2>1 DEF Patched
    <3>2. k \in CallType
      BY <1>1, <2>2 DEF CallType
    <3> HIDE DEF k
    <3> QED
      BY <1>1, <2>2, <3>1, <3>2 DEF PoolType
  <2>4. DockerType'
    BY <1>1, <1>5, <1>8 DEF Patch, Toggle, DockerType
  <2> QED
    BY <1>4, <1>8, <2>3, <2>4 DEF Patch, Toggle
<1>9. CASE Control(g)
  <2>1. PoolType'
    BY <1>1, <1>3, <1>9 DEF Control, PoolType
  <2>2. DockerType'
    BY <1>1, <1>9 DEF Control, DockerType
  <2> QED
    BY <1>4, <1>9, <2>1, <2>2 DEF Control
<1>10. CASE ProbePublish(g) \/ MergePublish(g)
  <2>1. call[g].seen \in BOOLEAN /\ PutBack(g)
    BY <1>1, <1>10 DEF CallType, ProbePublish, MergePublish
  <2>2. pool' \in 0..MaxPool /\ enabled' \in BOOLEAN /\ announced' \in BOOLEAN
    BY <1>2, <2>1 DEF PutBack
  <2>3. call' \in [Call -> CallType]
    <3>1. CASE ProbePublish(g)
      BY <1>3, <2>2, <3>1 DEF ProbePublish
    <3>2. CASE MergePublish(g)
      <4>1. NoCall \in CallType
        BY <1>1 DEF NoCall, CallType
      <4> QED
        BY <1>1, <3>2, <4>1 DEF MergePublish, PoolType
    <3> QED
      BY <1>10, <3>1, <3>2
  <2>4. DockerType'
    BY <1>1, <2>1 DEF PutBack, DockerType
  <2> QED
    BY <1>4, <2>1, <2>2, <2>3, <2>4 DEF PutBack, PoolType
<1>11. ASSUME NEW c \in Client, Offer(g, c)
       PROVE  TypeOK'
  <2>1. PoolType'
    BY <1>1, <1>3, <1>11 DEF Offer, Offered, PoolType, CallType
  <2>2. call[g].payload \in 0..MaxPool
    BY <1>1 DEF CallType
  <2>3. HubType'
    <3> DEFINE queue == IF Len(hub[c]) < HubRoom THEN Append(hub[c], call[g].payload) ELSE hub[c]
    <3>1. hub[c] \in Seq(0..MaxPool) /\ Len(hub[c]) <= HubRoom
      BY <1>1 DEF HubType
    <3>2. queue \in Seq(0..MaxPool) /\ Len(queue) <= HubRoom
      <4>1. CASE Len(hub[c]) < HubRoom
        <5>1. Append(hub[c], call[g].payload) \in Seq(0..MaxPool)
              /\ Len(Append(hub[c], call[g].payload)) = Len(hub[c]) + 1 /\ Len(hub[c]) \in Nat
          BY <2>2, <3>1
        <5> QED
          BY <1>1, <4>1, <5>1
      <4>2. CASE ~ (Len(hub[c]) < HubRoom)
        BY <3>1, <4>2
      <4> QED
        BY <4>1, <4>2
    <3>3. hub' = [hub EXCEPT ![c] = queue] /\ registered' = registered
      BY <1>11 DEF Offer, Offered
    <3>4. behind' \in [Client -> BOOLEAN]
      BY <1>1, <1>11 DEF Offer, Offered, HubType
    <3> HIDE DEF queue
    <3> QED
      BY <1>1, <3>2, <3>3, <3>4 DEF HubType
  <2> QED
    BY <1>1, <1>11, <2>1, <2>3, DockerTypeKept, BusTypeKept, WebTypeKept, TypeParts
    DEF Offer, Offered
<1>12. CASE BroadcastEnds(g)
  <2>1. PoolType'
    BY <1>1, <1>12 DEF BroadcastEnds, PoolType, NoCall, CallType
  <2>2. WebType'
    <3>1. call[g].made \in 0..MaxPool /\ UNCHANGED <<feed, browser, shown, asked>>
      BY <1>1, <1>12 DEF CallType, BroadcastEnds
    <3>2. \A c \in Client : patched[c] \cup {call[g].made} \in SUBSET (0..MaxPool)
      BY <1>1, <3>1 DEF WebType
    <3>3. patched' \in [Client -> SUBSET (0..MaxPool)]
      BY <1>1, <1>12, <3>2 DEF WebType, BroadcastEnds
    <3> QED
      BY <1>1, <3>1, <3>3 DEF WebType
  <2> QED
    BY <1>1, <1>12, <2>1, <2>2, DockerTypeKept, HubTypeKept, BusTypeKept, TypeParts
    DEF BroadcastEnds
<1>13. CASE ControlStep(g)
  <2>1. DockerType'
    BY <1>1, <1>13 DEF ControlStep, DockerActs, ControlFails, DockerType
  <2> QED
    BY <1>4, <1>6, <1>13, <2>1 DEF ControlStep, DockerActs, ControlFails
<1> QED
  BY <1>7, <1>8, <1>9, <1>10, <1>11, <1>12, <1>13 DEF CallStep, BroadcastStep

LEMMA LogTypes ==
  ASSUME TypeOK, LogStep
  PROVE  TypeOK'
<1>1. PoolType /\ DockerType /\ HubType /\ BusType /\ WebType /\ LogRoom \in Nat \ {0}
  BY TypeParts, RoomAssumption
<1>2. BusType'
  <2>1. CASE LogPublish \/ LogEnds
    BY <1>1, <2>1 DEF LogPublish, LogEnds, BusType
  <2>2. ASSUME NEW c \in Client, LogOffer(c)
        PROVE  BusType'
    BY <1>1, <2>2 DEF LogOffer, BusType
  <2> QED
    BY <2>1, <2>2 DEF LogStep
<1>3. UNCHANGED <<poolVars, dockerVars, hubVars, webVars>>
  BY DEF LogStep, LogPublish, LogEnds, LogOffer
<1> QED
  BY <1>1, <1>2, <1>3, PoolTypeKept, DockerTypeKept, HubTypeKept, WebTypeKept, TypeParts

(* Feeds and browsers.                                                     *)
LEMMA FeedTypes ==
  ASSUME TypeOK, NEW c \in Client, FeedStep(c) \/ SendStep(c) \/ BrowserStep(c)
  PROVE  TypeOK'
<1>1. PoolType /\ DockerType /\ HubType /\ BusType /\ WebType
      /\ MaxPool \in Nat /\ HubRoom \in Nat \ {0} /\ LogRoom \in Nat \ {0}
  BY TypeParts, MaxPoolAssumption, RoomAssumption
<1>2. UNCHANGED <<pool, enabled, announced, dockerVars>> /\ call' \in [Call -> CallType]
  <2>1. UNCHANGED <<pool, enabled, announced, dockerVars>>
    BY FeedsLeave
  <2>2. call \in [Call -> CallType]
    BY <1>1 DEF PoolType
  <2>3. ASSUME Leave(c)
        PROVE  call' \in [Call -> CallType]
    <3>1. ASSUME NEW g \in Call
          PROVE  [call[g] EXCEPT !.page = None] \in CallType /\ call[g] \in CallType
      BY <2>2 DEF CallType
    <3> QED
      BY <2>3, <3>1 DEF Leave
  <2> QED
    BY <2>1, <2>2, <2>3, OnlyLeaveCalls
<1>3. SUFFICES HubType' /\ BusType' /\ WebType'
  <2>1. PoolType'
    BY <1>1, <1>2 DEF PoolType
  <2> QED
    BY <1>1, <1>2, <2>1, DockerTypeKept, TypeParts
<1>4. ASSUME NEW pc \in Steps, NEW v \in 0..MaxPool
      PROVE  /\ [feed EXCEPT ![c].pc = pc] \in [Client -> [pc : Steps, frame : 0..MaxPool]]
             /\ [feed EXCEPT ![c] = [pc |-> pc, frame |-> v]]
                  \in [Client -> [pc : Steps, frame : 0..MaxPool]]
  BY <1>1 DEF WebType
<1>5. ASSUME NEW pc \in Steps, FeedTo(c, pc), UNCHANGED pageVars
      PROVE  WebType'
  BY <1>1, <1>4, <1>5 DEF WebType, FeedTo, pageVars
<1>6. CASE Register(c) \/ Unregister(c)
  <2>1. WebType'
    BY <1>5, <1>6 DEF Register, Unregister, Steps
  <2>2. hub' = [hub EXCEPT ![c] = << >>] /\ registered' \subseteq Client
    BY <1>1, <1>6 DEF Register, Unregister, HubType
  <2>3. behind' \in [Client -> BOOLEAN]
    BY <1>1, <1>6 DEF Register, Unregister, HubType
  <2>4. << >> \in Seq(0..MaxPool) /\ Len(<< >>) <= HubRoom
    BY <1>1
  <2>5. HubType'
    BY <1>1, <2>2, <2>3, <2>4 DEF HubType
  <2> QED
    BY <1>1, <1>6, <2>1, <2>5, BusTypeKept DEF Register, Unregister
<1>7. CASE Subscribe(c) \/ Release(c) \/ TakeLog(c)
  <2>1. BusType' /\ WebType'
    BY <1>1, <1>5, <1>7 DEF Subscribe, Release, TakeLog, BusType, Steps
  <2> QED
    BY <1>1, <1>7, <2>1, HubTypeKept DEF Subscribe, Release, TakeLog
<1>8. CASE Snapshot(c)
  <2>1. WebType'
    BY <1>1, <1>4, <1>8 DEF Snapshot, WebType, PoolType, Steps, pageVars
  <2> QED
    BY <1>1, <1>8, <2>1, HubTypeKept, BusTypeKept DEF Snapshot
<1>9. CASE TakePool(c)
  <2>1. /\ hub[c] \in Seq(0..MaxPool) /\ hub[c] # << >> /\ Len(hub[c]) <= HubRoom
    BY <1>1, <1>9 DEF TakePool, HubType
  <2>2. Head(hub[c]) \in 0..MaxPool /\ Tail(hub[c]) \in Seq(0..MaxPool)
        /\ Len(Tail(hub[c])) <= HubRoom
    <3>1. Len(hub[c]) \in Nat \ {0} /\ Len(Tail(hub[c])) = Len(hub[c]) - 1
      BY <2>1
    <3>2. Len(Tail(hub[c])) <= HubRoom
      BY <1>1, <2>1, <3>1
    <3>3. Head(hub[c]) \in 0..MaxPool /\ Tail(hub[c]) \in Seq(0..MaxPool)
      BY <2>1, HeadTailProperties
    <3> QED
      BY <3>2, <3>3
  <2>3. hub' = [hub EXCEPT ![c] = Tail(hub[c])] /\ registered' = registered /\ behind' = behind
        /\ feed' = [feed EXCEPT ![c] = [pc |-> "sendPool", frame |-> Head(hub[c])]]
        /\ UNCHANGED <<browser, shown, asked, patched>> /\ UNCHANGED busVars
    BY <1>9 DEF TakePool, pageVars
  <2>4. HubType'
    BY <1>1, <2>2, <2>3 DEF HubType
  <2>5. WebType'
    BY <1>1, <1>4, <2>2, <2>3 DEF WebType, Steps
  <2> QED
    BY <1>1, <2>3, <2>4, <2>5, BusTypeKept
<1>10. CASE SendStep(c)
  <2>1. 0 \in 0..MaxPool /\ feed[c].frame \in 0..MaxPool
    BY <1>1 DEF WebType
  <2>2. feed' \in [Client -> [pc : Steps, frame : 0..MaxPool]]
    BY <1>4, <1>10, <2>1 DEF SendStep, SendTaken, SendIntoVoid, SendFails, Steps
  <2>3. browser' \in [Client -> {"away", "open", "gone", "reset"}] 
        /\ asked' = asked /\ patched' = patched
    BY <1>1, <1>10 DEF SendStep, SendTaken, SendIntoVoid, SendFails, WebType, pageVars
  <2>4. shown' \in [Client -> 0..MaxPool \cup {None, Mixed}]
    BY <1>1, <1>10, <2>1 DEF SendStep, SendTaken, SendIntoVoid, SendFails, WebType, pageVars
  <2>5. WebType'
    BY <1>1, <2>2, <2>3, <2>4 DEF WebType
  <2> QED
    BY <1>1, <1>10, <2>5, HubTypeKept, BusTypeKept DEF SendStep, SendTaken, SendIntoVoid, SendFails
<1>11. CASE Close(c)
  <2>1. BusType' /\ WebType'
    BY <1>1, <1>4, <1>11 DEF Close, BusType, WebType, Steps
  <2> QED
    BY <1>1, <1>11, <2>1, HubTypeKept DEF Close
<1>12. CASE Open(c) \/ Refresh(c) \/ Leave(c) \/ AnswerGet(c)
  <2>1. WebType'
    <3>1. CASE Open(c)
      <4>1. feed' \in [Client -> [pc : Steps, frame : 0..MaxPool]]
        BY <1>1, <1>4, <3>1 DEF Open, FeedTo, Steps
      <4> QED
        BY <1>1, <3>1, <4>1 DEF Open, WebType
    <3>2. CASE Leave(c)
      BY <1>1, <3>2 DEF Leave, WebType
    <3>3. CASE AnswerGet(c)
      <4>1. (asked[c] \ {Sent}) \cup {pool} \in SUBSET (0..MaxPool \cup {Sent})
        BY <1>1 DEF WebType, PoolType
      <4> QED
        BY <1>1, <3>3, <4>1 DEF AnswerGet, WebType
    <3>4. CASE Refresh(c)
      <4>1. asked[c] \cup {Sent} \in SUBSET (0..MaxPool \cup {Sent})
        BY <1>1 DEF WebType
      <4> QED
        BY <1>1, <3>4, <4>1 DEF Refresh, WebType
    <3> QED
      BY <1>12, <3>1, <3>2, <3>3, <3>4
  <2> QED
    BY <1>1, <1>12, <2>1, HubTypeKept, BusTypeKept DEF Open, Refresh, Leave, AnswerGet
<1>13. CASE ApplyGet(c) \/ ApplyPatch(c)
  <2>1. PICK v \in 0..MaxPool \cup {None, Mixed} : Show(c, v)
    <3>1. CASE ApplyGet(c)
      BY <1>1, <3>1 DEF ApplyGet, WebType
    <3>2. CASE ApplyPatch(c)
      BY <1>1, <3>2 DEF ApplyPatch, WebType
    <3> QED
      BY <1>13, <3>1, <3>2
  <2>2. /\ shown' = [shown EXCEPT ![c] = v]
        /\ behind' = [behind EXCEPT ![c] = behind[c] \/ (Quiet(c) /\ v # shown[c] /\ v # pool)]
        /\ UNCHANGED <<registered, hub, busVars, feed, browser>>
    BY <2>1 DEF Show
  <2>3. HubType'
    <3>1. (behind[c] \/ (Quiet(c) /\ v # shown[c] /\ v # pool)) \in BOOLEAN
      BY <1>1 DEF HubType
    <3>2. behind' \in [Client -> BOOLEAN]
      BY <1>1, <2>2, <3>1 DEF HubType
    <3> QED
      BY <1>1, <2>2, <3>2 DEF HubType
  <2>4. asked' \in [Client -> SUBSET (0..MaxPool \cup {Sent})]
    <3>1. \A w : asked[c] \ {w} \in SUBSET (0..MaxPool \cup {Sent})
      BY <1>1 DEF WebType
    <3> QED
      BY <1>1, <1>13, <3>1 DEF ApplyGet, ApplyPatch, WebType
  <2>5. patched' \in [Client -> SUBSET (0..MaxPool)]
    <3>1. \A k : patched[c] \ {k} \in SUBSET (0..MaxPool)
      BY <1>1 DEF WebType
    <3> QED
      BY <1>1, <1>13, <3>1 DEF ApplyGet, ApplyPatch, WebType
  <2>6. shown' \in [Client -> 0..MaxPool \cup {None, Mixed}]
    BY <1>1, <2>1, <2>2 DEF WebType
  <2> QED
    BY <1>1, <2>2, <2>3, <2>4, <2>5, <2>6, BusTypeKept DEF WebType
<1> QED
  BY <1>6, <1>7, <1>8, <1>9, <1>10, <1>11, <1>12, <1>13 DEF FeedStep, BrowserStep

LEMMA InitTypes ==
  ASSUME Init
  PROVE  TypeOK
<1>1. MaxPool \in Nat /\ HubRoom \in Nat \ {0} /\ LogRoom \in Nat \ {0}
  BY MaxPoolAssumption, RoomAssumption
<1>2. /\ scenario \in Scenario /\ enabled \in BOOLEAN /\ container \in BOOLEAN
      /\ crossed \in BOOLEAN /\ disturbed \in BOOLEAN
  BY ScenarioAssumption DEF Init
<1>3. pool \in 0..MaxPool /\ announced \in BOOLEAN /\ call \in [Call -> CallType]
  BY <1>1 DEF Init, NoCall, CallType
<1>4. control \in [Call -> {"none", "start", "stop"}]
  BY DEF Init
<1>5. /\ registered \subseteq Client /\ hub \in [Client -> Seq(0..MaxPool)]
      /\ \A c \in Client : Len(hub[c]) <= HubRoom
      /\ behind \in [Client -> BOOLEAN]
  BY <1>1 DEF Init
<1>6. BusType
  <2>1. logs \in [Client -> 0..LogRoom]
    BY <1>1 DEF Init
  <2>2. /\ subscribed \subseteq Client /\ closed \subseteq Client
        /\ publishing \in BOOLEAN /\ due \subseteq Client
    BY DEF Init
  <2> QED
    BY <2>1, <2>2 DEF BusType
<1>7. WebType
  BY <1>1 DEF Init, WebType, Steps
<1> QED
  BY <1>2, <1>3, <1>4, <1>5, <1>6, <1>7 DEF TypeOK, BusType, WebType, CallType, Steps

(* Every variable has its type, and no channel holds more than its room.   *)
THEOREM TypeCorrect == Spec => []TypeOK
<1>1. TypeOK /\ [Next]_vars => TypeOK'
  <2> SUFFICES ASSUME TypeOK, [Next]_vars
               PROVE  TypeOK'
    OBVIOUS
  <2>1. CASE UNCHANGED vars
    BY <2>1, PoolTypeKept, DockerTypeKept, HubTypeKept, BusTypeKept, WebTypeKept, TypeParts DEF vars
  <2>2. CASE ChangeSilently
    <3>1. PoolType /\ pool < MaxPool /\ MaxPool \in Nat /\ pool' = pool + 1 /\ enabled' = enabled
          /\ announced' = FALSE /\ call' = call
      BY <2>2, TypeParts, MaxPoolAssumption DEF ChangeSilently, NewPool
    <3>2. PoolType'
      <4>1. pool' \in 0..MaxPool
        BY <3>1 DEF PoolType
      <4> QED
        BY <3>1, <4>1 DEF PoolType
    <3> QED
      BY <2>2, <3>2, DockerTypeKept, HubTypeKept, BusTypeKept, WebTypeKept, TypeParts
      DEF ChangeSilently
  <2> QED
    BY <2>1, <2>2, CallTypes, LogTypes, FeedTypes DEF Next
<1> QED
  BY <1>1, InitTypes, PTL DEF Spec

-----------------------------------------------------------------------------
(* The log bus: a channel is closed when it has left the bus, and it has   *)
(* left the bus when no line is on its way to anybody.                     *)
OnBus == {"snapshot", "first", "select", "sendPool", "sendLog", "unregister", "release"}
BusInv ==
  /\ due \subseteq subscribed /\ (due # {} => publishing)
  /\ subscribed \cap closed = {}
  /\ \A c \in Client : c \in subscribed => feed[c].pc \in OnBus

LEMMA BusStep ==
  ASSUME TypeOK, BusInv, [Next]_vars
  PROVE  BusInv'
<1>1. feed \in [Client -> [pc : Steps, frame : 0..MaxPool]] /\ subscribed \subseteq Client
      /\ publishing \in BOOLEAN
  BY DEF TypeOK, Steps
<1>2. ASSUME UNCHANGED <<subscribed, closed, publishing, due, feed>>
      PROVE  BusInv'
  BY <1>2 DEF BusInv
<1>3. CASE LogStep
  <2>1. feed' = feed /\ subscribed' = subscribed /\ closed' = closed
    BY <1>3, LogsLeave DEF LogStep, LogPublish, LogEnds, LogOffer, webVars
  <2>2. due' \subseteq subscribed /\ (due' # {} => publishing')
    <3>1. CASE LogPublish
      BY <3>1 DEF LogPublish
    <3>2. CASE LogEnds
      BY <3>2 DEF LogEnds, BusInv
    <3>3. ASSUME NEW c \in Client, LogOffer(c)
          PROVE  due' \subseteq subscribed /\ (due' # {} => publishing')
      BY <3>3 DEF LogOffer, BusInv
    <3> QED
      BY <1>3, <3>1, <3>2, <3>3 DEF LogStep
  <2> QED
    BY <2>1, <2>2 DEF BusInv
<1>4. ASSUME NEW c \in Client, FeedStep(c)
      PROVE  BusInv'
  <2>1. publishing' = publishing /\ due' = due
    BY <1>4, FeedsLeave
  <2>2. CASE Subscribe(c)
    <3>1. /\ subscribed' = subscribed \cup {c} /\ closed' = closed \ {c}
          /\ feed' = [feed EXCEPT ![c].pc = "snapshot"]
      BY <2>2 DEF Subscribe, FeedTo
    <3> QED
      BY <1>1, <2>1, <3>1 DEF BusInv, OnBus
  <2>3. CASE Release(c)
    <3>1. /\ subscribed' = subscribed \ {c} /\ closed' = closed /\ ~ publishing
          /\ feed' = [feed EXCEPT ![c].pc = "close"]
      BY <2>3 DEF Release, FeedTo
    <3> QED
      BY <1>1, <2>1, <3>1 DEF BusInv, OnBus
  <2>4. CASE Close(c)
    <3>1. /\ subscribed' = subscribed /\ closed' = closed \cup {c} /\ feed[c].pc = "close"
          /\ feed' = [feed EXCEPT ![c] = [pc |-> "off", frame |-> 0]]
      BY <2>4 DEF Close, FeedAt
    <3>2. c \notin subscribed
      BY <3>1 DEF BusInv, OnBus
    <3> QED
      BY <1>1, <2>1, <3>1, <3>2 DEF BusInv, OnBus
  <2>5. CASE Register(c)
    <3>1. /\ subscribed' = subscribed /\ closed' = closed /\ feed[c].pc = "register"
          /\ feed' = [feed EXCEPT ![c].pc = "subscribe"]
      BY <2>5 DEF Register, FeedAt, FeedTo, busVars
    <3> QED
      BY <1>1, <2>1, <3>1 DEF BusInv, OnBus
  <2>6. CASE Snapshot(c) \/ TakePool(c) \/ TakeLog(c) \/ Unregister(c)
    <3>1. /\ subscribed' = subscribed /\ closed' = closed
          /\ \A d \in Client : feed'[d].pc = feed[d].pc \/ (d = c /\ feed'[d].pc \in OnBus)
      BY <1>1, <2>6 DEF Snapshot, TakePool, TakeLog, Unregister, FeedAt, FeedTo, busVars, OnBus
    <3>2. feed[c].pc \in OnBus
      BY <2>6 DEF Snapshot, TakePool, TakeLog, Unregister, FeedAt, OnBus
    <3> QED
      BY <2>1, <3>1, <3>2 DEF BusInv
  <2> QED
    BY <1>4, <2>2, <2>3, <2>4, <2>5, <2>6 DEF FeedStep
<1>5. ASSUME NEW c \in Client, SendStep(c)
      PROVE  BusInv'
  <2>1. /\ UNCHANGED <<subscribed, closed, publishing, due>>
        /\ \A d \in Client : feed'[d].pc = feed[d].pc \/ (d = c /\ feed'[d].pc \in OnBus)
    BY <1>1, <1>5 DEF SendStep, SendTaken, SendIntoVoid, SendFails, busVars, OnBus
  <2> QED
    BY <2>1 DEF BusInv
<1>6. ASSUME NEW c \in Client, BrowserStep(c)
      PROVE  BusInv'
  <2>1. CASE Open(c)
    <3>1. /\ UNCHANGED <<subscribed, closed, publishing, due>> /\ feed[c].pc = "off"
          /\ feed' = [feed EXCEPT ![c].pc = "register"]
      BY <2>1 DEF Open, FeedAt, FeedTo, busVars
    <3> QED
      BY <1>1, <3>1 DEF BusInv, OnBus
  <2>2. CASE Refresh(c) \/ Leave(c) \/ AnswerGet(c) \/ ApplyGet(c) \/ ApplyPatch(c)
    BY <1>2, <2>2 DEF Refresh, Leave, AnswerGet, ApplyGet, ApplyPatch, Show, busVars
  <2> QED
    BY <1>6, <2>1, <2>2 DEF BrowserStep
<1>7. CASE UNCHANGED vars
  BY <1>2, <1>7 DEF vars, busVars, webVars
<1> QED
  BY <1>2, <1>3, <1>4, <1>5, <1>6, <1>7, CallsLeave DEF Next

(* No fan-out sends on a channel that its feed has closed.                 *)
THEOREM ClosedChannelsQuiet == Spec => []NoSendOnClosed
<1>1. Init => BusInv
  BY DEF Init, BusInv
<1>2. TypeOK /\ BusInv /\ [Next]_vars => BusInv'
  BY BusStep
<1>3. BusInv => NoSendOnClosed
  BY DEF BusInv, NoSendOnClosed
<1> QED
  BY <1>1, <1>2, <1>3, TypeCorrect, PTL DEF Spec

-----------------------------------------------------------------------------
(* The container.  While a toggle is alone, its is the only request that   *)
(* docker has or is about to get, and it asks for what the pool says.      *)
Pending(g) == control[g] # "none" \/ call[g].pc = "toggled"
Faithful ==
  /\ \A g \in Call : control[g] # "none" => control[g] = IF enabled THEN "start" ELSE "stop"
  /\ \A g \in Call : call[g].pc = "toggled" => call[g].seen = enabled
  /\ Settled => container = enabled
DockerInv ==
  /\ \A g \in Call : call[g].pc = "toggled" => control[g] = "none"
  /\ ~ crossed => \A g, h \in Call : Pending(g) /\ Pending(h) => g = h
  /\ ~ crossed /\ ~ disturbed => Faithful

(* A request that is not one to docker comes or goes.                      *)
LEMMA OtherCalls ==
  ASSUME TypeOK, DockerInv, UNCHANGED <<enabled, dockerVars>>,
         \A h \in Call : /\ call'[h].pc = "toggled" <=> call[h].pc = "toggled"
                         /\ call[h].pc = "toggled" => call'[h].seen = call[h].seen
  PROVE  DockerInv'
<1>1. /\ \A h \in Call : Pending(h)' <=> Pending(h)
      /\ Settled' <=> Settled
  BY DEF Pending, Settled, dockerVars
<1>2. Faithful => Faithful'
  BY <1>1 DEF Faithful, dockerVars
<1> QED
  BY <1>1, <1>2 DEF DockerInv, dockerVars

LEMMA DockerStep ==
  ASSUME TypeOK, DockerInv, [Next]_vars
  PROVE  DockerInv'
<1>1. control \in [Call -> {"none", "start", "stop"}] /\ enabled \in BOOLEAN
      /\ container \in BOOLEAN /\ crossed \in BOOLEAN /\ disturbed \in BOOLEAN
      /\ call \in [Call -> CallType] /\ \A g \in Call : call[g].seen \in BOOLEAN
  BY DEF TypeOK, CallType
<1>2. ASSUME NEW g \in Call, NEW on \in BOOLEAN, NEW page, Toggle(g, on, page)
      PROVE  DockerInv'
  <2>1. /\ control' = control /\ control[g] = "none" /\ enabled' = on /\ disturbed' = FALSE
        /\ crossed' = \E h \in Call : Pending(h)
        /\ call' = [call EXCEPT ![g].pc = "toggled", ![g].made = pool', ![g].page = page, ![g].seen = on]
    BY <1>2 DEF Toggle, Patched, NewPool, Pending
  <2>2. /\ \A h \in Call \ {g} : call'[h] = call[h]
        /\ call'[g].pc = "toggled" /\ call'[g].seen = on
    BY <1>1, <2>1 DEF CallType
  <2>3. \A h \in Call : call'[h].pc = "toggled" => control'[h] = "none"
    BY <2>1, <2>2 DEF DockerInv
  <2>4. SUFFICES ASSUME \A h \in Call : ~ Pending(h)
                 PROVE  DockerInv'
    BY <2>1, <2>3 DEF DockerInv
  <2>5. \A h \in Call : Pending(h)' => h = g
    BY <2>1, <2>2, <2>4 DEF Pending
  <2>6. Faithful'
    BY <2>1, <2>2, <2>4 DEF Faithful, Pending, Settled
  <2> QED
    BY <2>3, <2>5, <2>6 DEF DockerInv
<1>3. ASSUME NEW g \in Call, Control(g)
      PROVE  DockerInv'
  <2>1. /\ call[g].pc = "toggled" /\ call' = [call EXCEPT ![g].pc = "patched"]
        /\ control' = [control EXCEPT ![g] = IF call[g].seen THEN "start" ELSE "stop"]
        /\ UNCHANGED <<enabled, container, crossed, disturbed>>
    BY <1>3 DEF Control
  <2>2. /\ \A h \in Call \ {g} : call'[h] = call[h] /\ control'[h] = control[h]
        /\ call'[g].pc = "patched" /\ control'[g] = (IF call[g].seen THEN "start" ELSE "stop")
    BY <1>1, <2>1 DEF CallType
  <2>3. \A h \in Call : Pending(h)' => Pending(h)
    BY <2>1, <2>2 DEF Pending
  <2>4. ASSUME Faithful
        PROVE  Faithful'
    <3>1. \A h \in Call : control'[h] # "none" => control'[h] = IF enabled' THEN "start" ELSE "stop"
      BY <2>1, <2>2, <2>4 DEF Faithful
    <3>2. \A h \in Call : call'[h].pc = "toggled" => call'[h].seen = enabled'
      BY <2>1, <2>2, <2>4 DEF Faithful
    <3>3. ~ Settled'
      BY <2>2 DEF Settled
    <3> QED
      BY <3>1, <3>2, <3>3 DEF Faithful
  <2>5. \A h \in Call : call'[h].pc = "toggled" => control'[h] = "none"
    BY <2>2 DEF DockerInv
  <2> QED
    BY <2>1, <2>3, <2>4, <2>5 DEF DockerInv
<1>4. ASSUME NEW g \in Call, ProbePublish(g) \/ MergePublish(g)
      PROVE  DockerInv'
  <2>1. /\ control' = control /\ container' = container /\ crossed' = crossed
        /\ enabled' = call[g].seen /\ call[g].pc = "probing"
        /\ disturbed' = (disturbed \/ call[g].seen # enabled)
    BY <1>4 DEF ProbePublish, MergePublish, PutBack, NewPool
  <2>2. /\ \A h \in Call \ {g} : call'[h] = call[h]
        /\ call'[g].pc # "toggled"
    <3>1. \/ call' = [call EXCEPT ![g].pc = "published", ![g].payload = pool']
          \/ call' = [call EXCEPT ![g] = NoCall]
      BY <1>4 DEF ProbePublish, MergePublish
    <3> QED
      BY <1>1, <3>1 DEF NoCall, CallType
  <2>3. \A h \in Call : Pending(h)' <=> Pending(h)
    BY <2>1, <2>2 DEF Pending
  <2>4. Settled' <=> Settled
    BY <2>1, <2>2 DEF Settled
  <2>5. ASSUME Faithful, ~ disturbed'
        PROVE  Faithful'
    <3>1. enabled' = enabled
      BY <1>1, <2>1, <2>5
    <3> QED
      BY <2>1, <2>2, <2>4, <2>5, <3>1 DEF Faithful
  <2>6. ~ disturbed' => ~ disturbed
    BY <1>1, <2>1
  <2>7. \A h \in Call : call'[h].pc = "toggled" => control'[h] = "none"
    BY <2>1, <2>2 DEF DockerInv
  <2> QED
    BY <2>1, <2>3, <2>5, <2>6, <2>7 DEF DockerInv
<1>5. ASSUME NEW g \in Call, DockerActs(g)
      PROVE  DockerInv'
  <2>1. /\ control[g] # "none" /\ container' = (control[g] = "start")
        /\ control' = [control EXCEPT ![g] = "none"]
        /\ UNCHANGED <<crossed, disturbed, enabled, call>>
    BY <1>5 DEF DockerActs, poolVars
  <2>2. \A h \in Call : control'[h] = IF h = g THEN "none" ELSE control[h]
    BY <1>1, <2>1
  <2>3. \A h \in Call : Pending(h)' => Pending(h)
    BY <2>1, <2>2 DEF Pending
  <2>4. ASSUME Faithful
        PROVE  Faithful'
    <3>1. container' = enabled
      BY <1>1, <2>1, <2>4 DEF Faithful
    <3> QED
      BY <2>1, <2>2, <2>4, <3>1 DEF Faithful
  <2>5. \A h \in Call : call'[h].pc = "toggled" => control'[h] = "none"
    BY <2>1, <2>2 DEF DockerInv
  <2> QED
    BY <2>1, <2>3, <2>4, <2>5 DEF DockerInv
<1>6. ASSUME NEW g \in Call, ControlFails(g)
      PROVE  DockerInv'
  <2>1. /\ control' = [control EXCEPT ![g] = "none"] /\ disturbed' = TRUE
        /\ UNCHANGED <<crossed, call>>
    BY <1>6 DEF ControlFails, poolVars
  <2>2. \A h \in Call : control'[h] = IF h = g THEN "none" ELSE control[h]
    BY <1>1, <2>1
  <2>3. \A h \in Call : Pending(h)' => Pending(h)
    BY <2>1, <2>2 DEF Pending
  <2> QED
    BY <2>1, <2>2, <2>3 DEF DockerInv
<1>7. ASSUME NEW g \in Call, NEW page, Patch(g, page)
      PROVE  DockerInv'
  <2>1. /\ UNCHANGED <<enabled, dockerVars>> /\ call[g].pc = "idle"
        /\ call' = [call EXCEPT ![g].pc = "patched", ![g].made = pool', ![g].page = page,
                               ![g].seen = enabled]
    BY <1>7 DEF Patch, Patched, NewPool
  <2>2. /\ \A h \in Call \ {g} : call'[h] = call[h]
        /\ call'[g].pc = "patched"
    BY <1>1, <2>1 DEF CallType
  <2> QED
    BY <2>1, <2>2, OtherCalls
<1>8. ASSUME NEW g \in Call,
             \/ ProbeStart(g) \/ Collect(g) \/ Marshal(g) \/ Broadcast(g)
             \/ BroadcastEnds(g) \/ \E c \in Client : Offer(g, c)
      PROVE  DockerInv'
  <2>1. UNCHANGED <<enabled, dockerVars>>
    BY <1>8 DEF ProbeStart, Collect, Marshal, Broadcast, BroadcastEnds, Offer, Offered
  <2>2. /\ \A h \in Call \ {g} : call'[h] = call[h]
        /\ call'[g].pc # "toggled" /\ call[g].pc # "toggled"
    BY <1>1, <1>8 DEF ProbeStart, Collect, Marshal, Broadcast, BroadcastEnds, Offer, Offered, NoCall,
                      CallType
  <2> QED
    BY <2>1, <2>2, OtherCalls
<1>9. CASE ChangeSilently
  <2>1. UNCHANGED <<enabled, dockerVars, call>>
    BY <1>9 DEF ChangeSilently, NewPool
  <2> QED
    BY <2>1, OtherCalls
<1>10. CASE LogStep
  <2>1. UNCHANGED <<enabled, dockerVars, call>>
    BY <1>10, LogsLeave DEF poolVars
  <2> QED
    BY <2>1, OtherCalls
<1>11. ASSUME NEW c \in Client, FeedStep(c) \/ SendStep(c) \/ BrowserStep(c)
       PROVE  DockerInv'
  <2>1. \A h \in Call : call'[h].pc = call[h].pc /\ call'[h].seen = call[h].seen
    BY <1>11, FeedsKeepCalls
  <2> QED
    BY <1>11, <2>1, FeedsLeave, OtherCalls
<1>12. CASE UNCHANGED vars
  <2>1. UNCHANGED <<enabled, dockerVars, call>>
    BY <1>12 DEF vars, poolVars
  <2> QED
    BY <2>1, OtherCalls
<1> QED
  BY <1>2, <1>3, <1>4, <1>5, <1>6, <1>7, <1>8, <1>9, <1>10, <1>11, <1>12
  DEF Next, CallStep, ControlStep, BroadcastStep

(* A sidecar's container follows its last toggle when no other toggle was   *)
(* under way at that one, docker has not failed, and no probe or merge has  *)
(* put back the old Enabled since.                                          *)
THEOREM ContainerFollows == Spec => []ContainerFollowsToggle
<1>1. Init => DockerInv
  BY DEF Init, DockerInv, Faithful, Pending, NoCall
<1>2. TypeOK /\ DockerInv /\ [Next]_vars => DockerInv'
  BY DockerStep
<1>3. DockerInv => ContainerFollowsToggle
  BY DEF DockerInv, Faithful, ContainerFollowsToggle
<1> QED
  BY <1>1, <1>2, <1>3, TypeCorrect, PTL DEF Spec

-----------------------------------------------------------------------------
(* What a page is shown.  The newest pool on its way to the page of a feed *)
(* f, or the one shown when none is, is the pool p; before the feed has    *)
(* taken its first pool only its channel h counts.                         *)
Live == {"subscribe", "snapshot", "first", "select", "sendPool", "sendLog"}
InHand(f) == f.pc \in {"first", "sendPool"}
Current(f, b, h, s, p) ==
  /\ h # << >> /\ (f.pc \in {"subscribe", "snapshot"} \/ (f.pc \in Live /\ b = "open")) => h[Len(h)] = p
  /\ h = << >> /\ f.pc \in {"first", "select", "sendPool", "sendLog"} /\ b = "open" =>
       (IF InHand(f) THEN f.frame ELSE s) = p
UpToDate(c) == Current(feed[c], browser[c], hub[c], shown[c], pool)

(* A pool that has been announced, or is being and has been offered to the *)
(* feed, is what the page gets to see, unless it fell behind.              *)
FeedInv ==
  /\ \A c \in Client : feed[c].pc \in Live => c \in registered
  /\ \A g \in Call : call[g].payload <= pool
  /\ \A c \in Client : ~ behind[c] /\ announced => UpToDate(c)
  /\ \A c \in Client, g \in Call :
       (/\ ~ behind[c] /\ call[g].pc = "offer" /\ call[g].payload = pool
        /\ c \in registered \ call[g].todo) => UpToDate(c)

(* A step that leaves feeds and pages alone.                               *)
LEMMA Untouched ==
  ASSUME UNCHANGED <<feed, browser, hub, shown, pool>>, NEW c
  PROVE  UpToDate(c)' <=> UpToDate(c)
BY DEF UpToDate

LEMMA Unregistered ==
  ASSUME FeedInv, NEW c \in Client, c \notin registered
  PROVE  UpToDate(c)
BY DEF FeedInv, UpToDate, Current, Live

(* The pool changes: nobody has been told of it.                           *)
LEMMA NewPoolFeeds ==
  ASSUME TypeOK, FeedInv, NEW on, NewPool(on), NEW g, NEW k, k.pc # "offer", k.payload <= pool',
         call' = [call EXCEPT ![g] = k] \/ call' = call,
         UNCHANGED <<hubVars, feed, browser, shown>>
  PROVE  FeedInv'
<1>1. pool \in Nat /\ pool' = pool + 1 /\ announced' = FALSE
  BY MaxPoolAssumption DEF NewPool, TypeOK
<1>2. \A h \in Call : /\ call[h].payload \in Nat /\ call[h].payload <= pool
                      /\ call'[h] = call[h] \/ call'[h] = k
  BY MaxPoolAssumption DEF TypeOK, FeedInv
<1>3. \A h \in Call : /\ call'[h].payload <= pool'
                      /\ call'[h].pc = "offer" => call'[h].payload # pool'
  BY <1>1, <1>2
<1>4. \A c \in Client : feed'[c].pc \in Live => c \in registered'
  BY DEF FeedInv, hubVars
<1>5. \A h \in Call : call'[h].payload <= pool'
  BY <1>3
<1>6. \A h \in Call : ~ (call'[h].pc = "offer" /\ call'[h].payload = pool')
  BY <1>3
<1>7. ~ announced'
  BY <1>1
<1> QED
  BY <1>4, <1>5, <1>6, <1>7, Zenon DEF FeedInv

(* A request goes on without a word to any feed.                           *)
LEMMA CallFeeds ==
  ASSUME TypeOK, FeedInv, NEW g \in Call, NEW k, call' = [call EXCEPT ![g] = k],
         k.payload <= pool, k.pc = "offer" => registered \ k.todo = {},
         UNCHANGED <<pool, hubVars, feed, browser, shown>>,
         announced' => \/ announced
                       \/ /\ call[g].pc = "offer" /\ call[g].payload = pool
                          /\ call[g].todo = {}
  PROVE  FeedInv'
<1>1. \A h \in Call : call'[h] = IF h = g THEN k ELSE call[h]
  BY DEF TypeOK
<1>2. \A c : UpToDate(c)' <=> UpToDate(c)
  BY Untouched DEF hubVars
<1>3. registered' = registered /\ behind' = behind
  BY DEF hubVars
<1>4. ASSUME NEW c \in Client, ~ behind[c], announced'
      PROVE  UpToDate(c)
  <2>1. CASE announced
    BY <1>4, <2>1 DEF FeedInv
  <2>2. CASE call[g].pc = "offer" /\ call[g].payload = pool /\ call[g].todo = {}
    BY <1>4, <2>2, Unregistered DEF FeedInv
  <2> QED
    BY <1>4, <2>1, <2>2
<1> QED
  BY <1>1, <1>2, <1>3, <1>4 DEF FeedInv

LEMMA OfferFeeds ==
  ASSUME TypeOK, FeedInv, NEW g \in Call, NEW c \in Client, Offer(g, c)
  PROVE  FeedInv'
<1> DEFINE queue == IF Len(hub[c]) < HubRoom THEN Append(hub[c], call[g].payload) ELSE hub[c]
<1>1. /\ hub' = [hub EXCEPT ![c] = queue] /\ registered' = registered /\ pool' = pool
      /\ announced' = announced
      /\ behind' = [behind EXCEPT ![c] = Len(hub[c]) = HubRoom \/ call[g].payload # pool]
      /\ call' = [call EXCEPT ![g].todo = call[g].todo \ {c}]
      /\ UNCHANGED <<feed, browser, shown>>
  BY DEF Offer, Offered, webVars, pageVars
<1>2. /\ hub[c] \in Seq(0..MaxPool) /\ Len(hub[c]) <= HubRoom /\ HubRoom \in Nat
      /\ Len(hub[c]) \in Nat /\ call[g].payload \in 0..MaxPool
  BY RoomAssumption DEF TypeOK
<1>3. ~ behind'[c] => UpToDate(c)'
  <2>1. SUFFICES ASSUME ~ behind'[c]
                 PROVE  UpToDate(c)'
    OBVIOUS
  <2>2. Len(hub[c]) < HubRoom /\ call[g].payload = pool
    <3>1. behind'[c] = (Len(hub[c]) = HubRoom \/ call[g].payload # pool)
      BY <1>1 DEF TypeOK
    <3>2. Len(hub[c]) # HubRoom /\ call[g].payload = pool
      BY <2>1, <3>1
    <3> QED
      BY <1>2, <3>2
  <2>3. hub'[c] = Append(hub[c], pool)
    BY <1>1, <2>2 DEF TypeOK
  <2>4. hub'[c] # << >> /\ hub'[c][Len(hub'[c])] = pool
    BY <1>2, <2>2, <2>3
  <2> QED
    BY <1>1, <2>4 DEF UpToDate, Current
<1>4. \A d \in Client \ {c} : behind'[d] = behind[d] /\ (UpToDate(d)' <=> UpToDate(d))
  BY <1>1 DEF TypeOK, UpToDate
<1>5. \A h \in Call : /\ call'[h].pc = call[h].pc /\ call'[h].payload = call[h].payload
                      /\ call[h].todo \ {c} \subseteq call'[h].todo
  BY <1>1 DEF TypeOK
<1> HIDE DEF queue
<1> QED
  BY <1>1, <1>3, <1>4, <1>5 DEF FeedInv

(* A feed or its browser moves.                                            *)
LEMMA MoveFeeds ==
  ASSUME TypeOK, FeedInv, NEW c \in Client, UNCHANGED <<pool, announced>>,
         \A g \in Call : /\ call'[g].pc = call[g].pc /\ call'[g].payload = call[g].payload
                         /\ call'[g].todo = call[g].todo,
         \A d \in Client \ {c} : /\ feed'[d] = feed[d] /\ browser'[d] = browser[d]
                                 /\ hub'[d] = hub[d] /\ shown'[d] = shown[d]
                                 /\ behind'[d] = behind[d] /\ (d \in registered' <=> d \in registered),
         feed'[c].pc \in Live => c \in registered',
         \/ UpToDate(c)'
         \/ /\ UpToDate(c) => behind'[c] \/ UpToDate(c)'
            /\ behind[c] => behind'[c]
            /\ c \in registered' => c \in registered
  PROVE  FeedInv'
<1>1. pool' = pool /\ announced' = announced
  OBVIOUS
<1>2. \A d \in Client \ {c} : UpToDate(d)' <=> UpToDate(d)
  BY <1>1 DEF UpToDate
<1>3. ~ behind'[c] /\ announced => UpToDate(c)'
  BY DEF FeedInv
<1>4. \A g \in Call :
        (/\ ~ behind'[c] /\ call[g].pc = "offer" /\ call[g].payload = pool
         /\ c \in registered' \ call[g].todo) => UpToDate(c)'
  BY DEF FeedInv
<1> QED
  BY <1>1, <1>2, <1>3, <1>4 DEF FeedInv

LEMMA LastOfTail ==
  ASSUME NEW S, NEW q \in Seq(S), q # << >>
  PROVE  /\ Tail(q) # << >> => Tail(q)[Len(Tail(q))] = q[Len(q)]
         /\ Tail(q) = << >> => Head(q) = q[Len(q)]
<1>1. /\ Len(q) \in Nat \ {0} /\ Len(Tail(q)) = Len(q) - 1
      /\ Head(q) = q[1]
      /\ \A i \in 1..Len(Tail(q)) : Tail(q)[i] = q[i + 1]
  <2>1. Len(q) \in Nat \ {0}
    OBVIOUS
  <2>2. Head(q) = q[1]
    OBVIOUS
  <2>3. Len(Tail(q)) = Len(q) - 1
    OBVIOUS
  <2>4. \A i \in 1..Len(Tail(q)) : Tail(q)[i] = q[i + 1]
    BY <2>1, <2>3
  <2> QED
    BY <2>1, <2>2, <2>3, <2>4
<1>2. CASE Len(q) = 1
  <2>1. Tail(q) \in Seq(S) /\ Len(Tail(q)) = 0
    BY <1>1, <1>2, HeadTailProperties
  <2>2. Tail(q) = << >>
    BY <2>1, EmptySeq
  <2>3. Head(q) = q[Len(q)]
    BY <1>1, <1>2
  <2> QED
    BY <2>2, <2>3
<1>3. CASE Len(q) # 1
  <2> DEFINE n == Len(Tail(q))
             m == Len(q)
  <2>1. n \in Nat \ {0} /\ m \in Nat /\ n = m - 1
    BY <1>1, <1>3
  <2> HIDE DEF n, m
  <2>2. n \in 1..n /\ n + 1 = m
    BY <2>1
  <2>3. Tail(q)[n] = q[m] /\ Tail(q) # << >>
    <3>1. Tail(q)[n] = q[n + 1]
      BY <1>1, <2>2 DEF n
    <3> QED
      BY <2>1, <2>2, <3>1 DEF n, m
  <2> QED
    BY <2>3 DEF n, m
<1> QED
  BY <1>2, <1>3

LEMMA FeedFeeds ==
  ASSUME TypeOK, FeedInv, NEW c \in Client, FeedStep(c) \/ SendStep(c) \/ BrowserStep(c)
  PROVE  FeedInv'
<1>1. /\ feed \in [Client -> [pc : Steps, frame : 0..MaxPool]] /\ behind \in [Client -> BOOLEAN]
      /\ hub \in [Client -> Seq(0..MaxPool)] /\ hub[c] \in Seq(0..MaxPool) /\ pool \in 0..MaxPool
      /\ shown \in [Client -> 0..MaxPool \cup {None, Mixed}]
      /\ browser \in [Client -> {"away", "open", "gone", "reset"}]
  BY DEF TypeOK, Steps
<1>2. /\ UNCHANGED <<pool, announced>>
      /\ \A g \in Call : /\ call'[g].pc = call[g].pc /\ call'[g].payload = call[g].payload
                         /\ call'[g].todo = call[g].todo
  BY FeedsLeave, FeedsKeepCalls
<1>3. CASE Register(c)
  <2>1. /\ registered' = registered \cup {c} /\ hub' = [hub EXCEPT ![c] = << >>]
        /\ behind' = [behind EXCEPT ![c] = FALSE] /\ feed' = [feed EXCEPT ![c].pc = "subscribe"]
        /\ UNCHANGED <<browser, shown>>
    BY <1>3 DEF Register, FeedTo, pageVars
  <2>2. UpToDate(c)'
    BY <1>1, <2>1 DEF UpToDate, Current
  <2> QED
    BY <1>1, <1>2, <2>1, <2>2, MoveFeeds
<1>4. CASE Unregister(c)
  <2>1. /\ registered' = registered \ {c} /\ hub' = [hub EXCEPT ![c] = << >>]
        /\ behind' = behind /\ feed' = [feed EXCEPT ![c].pc = "release"]
        /\ UNCHANGED <<browser, shown>>
    BY <1>4 DEF Unregister, FeedTo, pageVars
  <2>2. UpToDate(c)' /\ feed'[c].pc \notin Live
    BY <1>1, <2>1 DEF UpToDate, Current, Live
  <2> QED
    BY <1>1, <1>2, <2>1, <2>2, MoveFeeds
<1>5. ASSUME UNCHANGED <<registered, hub, behind>>,
             \A d \in Client \ {c} : /\ feed'[d] = feed[d] /\ browser'[d] = browser[d]
                                     /\ shown'[d] = shown[d],
             feed'[c].pc \in Live => feed[c].pc \in Live,
             UpToDate(c) => UpToDate(c)'
      PROVE  FeedInv'
  <2>1. feed'[c].pc \in Live => c \in registered'
    BY <1>5 DEF FeedInv
  <2> QED
    BY <1>2, <1>5, <2>1, MoveFeeds
<1>6. CASE Subscribe(c)
  <2>1. /\ feed[c].pc = "subscribe" /\ feed' = [feed EXCEPT ![c].pc = "snapshot"]
        /\ UNCHANGED <<registered, hub, behind, browser, shown>>
    BY <1>6 DEF Subscribe, FeedAt, FeedTo, hubVars, pageVars
  <2>2. feed'[c].pc = "snapshot"
    BY <1>1, <2>1
  <2>3. UpToDate(c) => UpToDate(c)'
    BY <1>2, <2>1, <2>2 DEF UpToDate, Current
  <2> QED
    BY <1>1, <1>5, <2>1, <2>3 DEF Live
<1>7. CASE Snapshot(c)
  <2>1. /\ feed[c].pc = "snapshot" /\ feed' = [feed EXCEPT ![c] = [pc |-> "first", frame |-> pool]]
        /\ UNCHANGED <<registered, hub, behind, browser, shown>>
    BY <1>7 DEF Snapshot, FeedAt, hubVars, pageVars
  <2>2. feed'[c].pc = "first" /\ feed'[c].frame = pool
    BY <1>1, <2>1
  <2>3. UpToDate(c) => UpToDate(c)'
    BY <1>2, <2>1, <2>2 DEF UpToDate, Current, InHand
  <2> QED
    BY <1>1, <1>5, <2>1, <2>3 DEF Live
<1>8. CASE TakePool(c)
  <2>1. /\ feed[c].pc = "select" /\ hub[c] # << >> /\ hub' = [hub EXCEPT ![c] = Tail(hub[c])]
        /\ feed' = [feed EXCEPT ![c] = [pc |-> "sendPool", frame |-> Head(hub[c])]]
        /\ UNCHANGED <<registered, behind, browser, shown>>
    BY <1>8 DEF TakePool, FeedAt, pageVars
  <2>2. feed'[c].pc = "sendPool" /\ feed'[c].frame = Head(hub[c]) /\ hub'[c] = Tail(hub[c])
    BY <1>1, <2>1
  <2>3. /\ Tail(hub[c]) # << >> => Tail(hub[c])[Len(Tail(hub[c]))] = hub[c][Len(hub[c])]
        /\ Tail(hub[c]) = << >> => Head(hub[c]) = hub[c][Len(hub[c])]
    BY <1>1, <2>1, LastOfTail
  <2>4. UpToDate(c) => UpToDate(c)'
    BY <1>2, <2>1, <2>2, <2>3 DEF UpToDate, Current, InHand, Live
  <2>5. c \in registered
    BY <2>1 DEF FeedInv, Live
  <2> QED
    BY <1>1, <1>2, <2>1, <2>4, <2>5, MoveFeeds
<1>9. CASE TakeLog(c)
  <2>1. /\ feed[c].pc = "select" /\ feed' = [feed EXCEPT ![c].pc = "sendLog"]
        /\ UNCHANGED <<registered, hub, behind, browser, shown>>
    BY <1>9 DEF TakeLog, FeedAt, FeedTo, hubVars, pageVars
  <2>2. feed'[c].pc = "sendLog"
    BY <1>1, <2>1
  <2>3. UpToDate(c) => UpToDate(c)'
    BY <1>2, <2>1, <2>2 DEF UpToDate, Current, InHand, Live
  <2> QED
    BY <1>1, <1>5, <2>1, <2>3 DEF Live
<1>10. CASE Release(c) \/ Close(c)
  <2>1. /\ feed'[c].pc \notin Live /\ UNCHANGED <<registered, hub, behind>>
        /\ \A d \in Client \ {c} : /\ feed'[d] = feed[d] /\ browser'[d] = browser[d]
                                   /\ shown'[d] = shown[d]
    BY <1>1, <1>10 DEF Release, Close, FeedTo, hubVars, pageVars, Live
  <2>2. UpToDate(c)'
    BY <2>1 DEF UpToDate, Current, Live
  <2> QED
    BY <1>5, <2>1, <2>2
<1>11. CASE SendTaken(c)
  <2>1. /\ feed[c].pc \in {"first", "sendPool", "sendLog"} /\ browser[c] = "open"
        /\ shown' = [shown EXCEPT ![c] = IF InHand(feed[c]) THEN feed[c].frame ELSE shown[c]]
        /\ feed' = [feed EXCEPT ![c] = [pc |-> "select", frame |-> 0]]
        /\ UNCHANGED <<registered, hub, behind, browser>>
    BY <1>11 DEF SendTaken, Sending, PoolInHand, InHand, hubVars
  <2>2. feed'[c].pc = "select" /\ shown'[c] = IF InHand(feed[c]) THEN feed[c].frame ELSE shown[c]
    BY <1>1, <2>1
  <2>3. UpToDate(c) => UpToDate(c)'
    BY <1>2, <2>1, <2>2 DEF UpToDate, Current, InHand, Live
  <2> QED
    BY <1>1, <1>5, <2>1, <2>3 DEF Live
<1>12. CASE SendIntoVoid(c) \/ SendFails(c)
  <2>1. /\ feed[c].pc \in Live /\ browser'[c] # "open" /\ UNCHANGED <<registered, hub, behind>>
        /\ feed'[c].pc \in {"select", "unregister"}
        /\ \A d \in Client \ {c} : /\ feed'[d] = feed[d] /\ browser'[d] = browser[d]
                                   /\ shown'[d] = shown[d]
    BY <1>1, <1>12 DEF SendIntoVoid, SendFails, Sending, hubVars, pageVars, Live
  <2>2. UpToDate(c)'
    BY <2>1 DEF UpToDate, Current, Live
  <2> QED
    BY <1>5, <2>1, <2>2
<1>13. CASE Open(c)
  <2>1. /\ feed'[c].pc = "register" /\ UNCHANGED <<registered, hub, behind>>
        /\ \A d \in Client \ {c} : /\ feed'[d] = feed[d] /\ browser'[d] = browser[d]
                                   /\ shown'[d] = shown[d]
    BY <1>1, <1>13 DEF Open, FeedTo, hubVars
  <2>2. UpToDate(c)'
    BY <2>1 DEF UpToDate, Current, Live
  <2> QED
    BY <1>5, <2>1, <2>2 DEF Live
<1>14. CASE Leave(c)
  <2>1. /\ feed' = feed /\ browser' = [browser EXCEPT ![c] = "gone"]
        /\ shown' = [shown EXCEPT ![c] = None] /\ UNCHANGED <<registered, hub, behind>>
    BY <1>14 DEF Leave, hubVars
  <2>2. browser'[c] = "gone"
    BY <1>1, <2>1
  <2>3. UpToDate(c) => UpToDate(c)'
    BY <1>2, <2>1, <2>2 DEF UpToDate, Current
  <2> QED
    BY <1>1, <1>5, <2>1, <2>3
<1>15. CASE Refresh(c) \/ AnswerGet(c)
  <2>1. UNCHANGED <<registered, hub, behind, feed, browser, shown>>
    BY <1>15 DEF Refresh, AnswerGet, hubVars
  <2> QED
    BY <1>2, <1>5, <2>1, Untouched
<1>16. CASE ApplyGet(c) \/ ApplyPatch(c)
  <2>1. PICK v : Show(c, v)
    BY <1>16 DEF ApplyGet, ApplyPatch
  <2>2. /\ shown' = [shown EXCEPT ![c] = v] /\ UNCHANGED <<registered, hub, feed, browser>>
        /\ behind' = [behind EXCEPT ![c] = behind[c] \/ (Quiet(c) /\ v # shown[c] /\ v # pool)]
    BY <2>1 DEF Show
  <2>3. /\ behind'[c] = (behind[c] \/ (Quiet(c) /\ v # shown[c] /\ v # pool)) /\ shown'[c] = v
        /\ \A d \in Client \ {c} : shown'[d] = shown[d] /\ behind'[d] = behind[d]
    BY <1>1, <2>2
  <2>4. UpToDate(c) => behind'[c] \/ UpToDate(c)'
    <3>1. CASE Quiet(c) /\ v # shown[c]
      <4>1. v = pool \/ behind'[c]
        BY <1>1, <2>3, <3>1
      <4>2. v = pool => UpToDate(c)'
        BY <1>2, <2>2, <2>3, <3>1 DEF UpToDate, Current, Quiet, InHand
      <4> QED
        BY <4>1, <4>2
    <3>2. CASE v = shown[c]
      BY <1>2, <2>2, <2>3, <3>2 DEF UpToDate
    <3>3. CASE ~ Quiet(c)
      BY <1>2, <2>2, <3>3 DEF UpToDate, Current, Quiet, InHand
    <3> QED
      BY <3>1, <3>2, <3>3
  <2>5. behind[c] => behind'[c]
    BY <1>1, <2>3
  <2>6. feed'[c].pc \in Live => c \in registered'
    BY <2>2 DEF FeedInv
  <2> QED
    BY <1>1, <1>2, <2>2, <2>3, <2>4, <2>5, <2>6, MoveFeeds
<1> QED
  BY <1>3, <1>4, <1>6, <1>7, <1>8, <1>9, <1>10, <1>11, <1>12, <1>13, <1>14, <1>15, <1>16
  DEF FeedStep, SendStep, BrowserStep

LEMMA FeedsStep ==
  ASSUME TypeOK, FeedInv, [Next]_vars
  PROVE  FeedInv'
<1>1. ASSUME UNCHANGED <<poolVars, hubVars, webVars>>
      PROVE  FeedInv'
  BY <1>1, Untouched DEF poolVars, hubVars, webVars, pageVars, FeedInv
<1>2. CASE ChangeSilently
  <2>1. NewPool(enabled) /\ call' = call /\ UNCHANGED <<hubVars, feed, browser, shown>>
    BY <1>2 DEF ChangeSilently, webVars, pageVars
  <2>2. [pc |-> "idle", payload |-> 0].pc # "offer" /\ [pc |-> "idle", payload |-> 0].payload <= pool'
    BY <2>1 DEF NewPool, TypeOK
  <2> QED
    BY <2>1, <2>2, NewPoolFeeds
<1>3. ASSUME NEW g \in Call, CallStep(g)
      PROVE  FeedInv'
  <2>1. /\ call \in [Call -> CallType] /\ call[g] \in CallType /\ pool \in 0..MaxPool
        /\ MaxPool \in Nat /\ call[g].payload <= pool /\ call[g].payload \in Nat
    BY <1>3, MaxPoolAssumption DEF TypeOK, FeedInv, CallType
  <2>2. UNCHANGED <<feed, browser, shown>>
    BY <1>3, CallsLeave
  <2>3. ASSUME NEW pc \in {"toggled", "patched"}, NEW on, NEW page, Patched(g, pc, on, page),
               UNCHANGED hubVars
        PROVE  FeedInv'
    <3> DEFINE k == [call[g] EXCEPT !.pc = pc, !.made = pool', !.page = page, !.seen = on]
    <3>1. call' = [call EXCEPT ![g] = k] /\ NewPool(on)
      BY <2>3 DEF Patched
    <3>2. k.pc # "offer" /\ k.payload <= pool'
      BY <2>1, <3>1 DEF CallType, NewPool
    <3> HIDE DEF k
    <3> QED
      BY <2>2, <2>3, <3>1, <3>2, NewPoolFeeds
  <2>4. CASE \E page \in Client \cup {None} :
               Patch(g, page) \/ \E on \in BOOLEAN : Toggle(g, on, page)
    BY <2>3, <2>4 DEF Patch, Toggle
  <2>5. CASE ProbePublish(g) \/ MergePublish(g)
    <3>1. NewPool(call[g].seen) /\ UNCHANGED hubVars
      BY <2>5 DEF ProbePublish, MergePublish, PutBack
    <3> DEFINE published == [call[g] EXCEPT !.pc = "published", !.payload = pool']
    <3>2. published.pc # "offer" /\ published.payload <= pool'
      BY <2>1, <3>1 DEF CallType, NewPool
    <3>3. NoCall.pc # "offer" /\ NoCall.payload <= pool'
      BY <2>1, <3>1 DEF NewPool, NoCall
    <3>4. \/ call' = [call EXCEPT ![g] = published]
          \/ call' = [call EXCEPT ![g] = NoCall]
      BY <2>5 DEF ProbePublish, MergePublish
    <3> HIDE DEF published
    <3> QED
      BY <2>2, <3>1, <3>2, <3>3, <3>4, NewPoolFeeds
  <2>6. CASE Collect(g)
    <3> DEFINE k == [call[g] EXCEPT !.pc = "broadcast", !.payload = pool]
    <3>1. call' = [call EXCEPT ![g] = k] /\ k.pc # "offer" /\ k.payload <= pool
          /\ UNCHANGED <<pool, announced, hubVars>>
      <4>1. UNCHANGED <<pool, announced, hubVars>> /\ call' = [call EXCEPT ![g] = k]
        BY <2>6 DEF Collect
      <4> QED
        BY <2>1, <4>1 DEF CallType
    <3> HIDE DEF k
    <3> QED
      BY <2>2, <3>1, CallFeeds
  <2>7. CASE ProbeStart(g)
    <3> DEFINE k == [call[g] EXCEPT !.pc = "probing", !.seen = enabled]
    <3>1. call' = [call EXCEPT ![g] = k] /\ k.pc # "offer" /\ k.payload <= pool
          /\ UNCHANGED <<pool, announced, hubVars>>
      BY <2>1, <2>7 DEF ProbeStart, CallType
    <3> HIDE DEF k
    <3> QED
      BY <2>2, <3>1, CallFeeds
  <2>8. CASE Marshal(g)
    <3>1. PICK v \in {call[g].payload, pool} :
            call' = [call EXCEPT ![g].pc = "broadcast", ![g].payload = v]
      BY <2>8 DEF Marshal
    <3> DEFINE k == [call[g] EXCEPT !.pc = "broadcast", !.payload = v]
    <3>2. call' = [call EXCEPT ![g] = k] /\ k.pc # "offer" /\ k.payload <= pool
          /\ UNCHANGED <<pool, announced, hubVars>>
      <4>1. UNCHANGED <<pool, announced, hubVars>> /\ call' = [call EXCEPT ![g] = k]
        BY <2>8, <3>1 DEF Marshal
      <4>2. v \in Nat /\ v <= pool
        BY <2>1
      <4> QED
        BY <2>1, <4>1, <4>2 DEF CallType
    <3> HIDE DEF k
    <3> QED
      BY <2>2, <3>2, CallFeeds
  <2>9. CASE Broadcast(g)
    <3> DEFINE k == [call[g] EXCEPT !.pc = "offer", !.todo = registered]
    <3>1. call' = [call EXCEPT ![g] = k] /\ k.payload <= pool /\ registered \ k.todo = {}
          /\ UNCHANGED <<pool, announced, hubVars>>
      BY <2>1, <2>9 DEF Broadcast, CallType
    <3> HIDE DEF k
    <3> QED
      BY <2>2, <3>1, CallFeeds
  <2>10. CASE \E c \in Client : Offer(g, c)
    BY <2>10, OfferFeeds
  <2>11. CASE Control(g)
    <3> DEFINE k == [call[g] EXCEPT !.pc = "patched"]
    <3>1. call' = [call EXCEPT ![g] = k] /\ k.pc # "offer" /\ k.payload <= pool
          /\ UNCHANGED <<pool, announced, hubVars>>
      BY <2>1, <2>11 DEF Control, CallType
    <3> HIDE DEF k
    <3> QED
      BY <2>2, <3>1, CallFeeds
  <2>12. CASE BroadcastEnds(g)
    <3>1. call' = [call EXCEPT ![g] = NoCall] /\ NoCall.pc # "offer" /\ NoCall.payload <= pool
          /\ UNCHANGED <<pool, hubVars>> /\ call[g].pc = "offer" /\ call[g].todo = {}
          /\ announced' = (announced \/ call[g].payload = pool)
      BY <2>1, <2>12 DEF BroadcastEnds, NoCall
    <3> QED
      BY <2>2, <3>1, CallFeeds
  <2> QED
    BY <1>3, <2>4, <2>5, <2>6, <2>7, <2>8, <2>9, <2>10, <2>11, <2>12 DEF CallStep, BroadcastStep
<1>4. ASSUME NEW g \in Call, ControlStep(g)
      PROVE  FeedInv'
  BY <1>1, <1>4 DEF ControlStep, DockerActs, ControlFails
<1>5. CASE LogStep
  BY <1>1, <1>5, LogsLeave
<1>6. CASE UNCHANGED vars
  BY <1>1, <1>6 DEF vars
<1> QED
  BY <1>2, <1>3, <1>4, <1>5, <1>6, FeedFeeds DEF Next

(* A page whose feed is idle shows the pool that was announced last, unless *)
(* its channel was full, another change overtook the last broadcast to      *)
(* reach it, or the answer to a GET or to a PATCH of its own, older than    *)
(* what it showed, came with no frame behind it.                            *)
THEOREM PagesCurrent == Spec => []IdleFeedsCurrent
<1>1. Init => FeedInv
  BY DEF Init, FeedInv, NoCall, UpToDate, Current, Live
<1>2. TypeOK /\ FeedInv /\ [Next]_vars => FeedInv'
  BY FeedsStep
<1>3. FeedInv => IdleFeedsCurrent
  BY DEF FeedInv, IdleFeedsCurrent, Idle, FeedAt, UpToDate, Current, InHand
<1> QED
  BY <1>1, <1>2, <1>3, TypeCorrect, PTL DEF Spec
=============================================================================
