------------------------------ MODULE LiveFeed ------------------------------
(***************************************************************************)
(* What a dashboard is shown of the pool, and the container of a sidecar.  *)
(* PATCH /api/endpoints/<id> and POST /api/probe change the pool and then  *)
(* broadcast it to the WebSocket hub, a PATCH of a sidecar also sends a    *)
(* goroutine to start or stop its container, and every log line goes to    *)
(* the subscribers of the log bus.  A feed (handleWebSocket) has a channel *)
(* of each and sends what comes to its browser.  The page also asks for    *)
(* GET /api/endpoints when it is opened and at every refresh, and puts the *)
(* answer to a PATCH of its own into the table it shows.                   *)
(*                                                                         *)
(* A pool is a number, that of the change which made it, and whether the   *)
(* sidecar is enabled in it.  hubMu and subsMu are held in reading by a    *)
(* fan-out from its first offer to its last; a feed takes them in writing. *)
(***************************************************************************)
EXTENDS Naturals, Sequences

CONSTANTS Client,    \* browsers, each with at most one feed at a time
          Call,      \* requests in progress, and merges of the probing loop
          HubRoom,   \* capacity of a feed's channel of pools
          LogRoom,   \* capacity of its channel of log events
          MaxPool,   \* bound: changes of the pool
          Scenario,  \* bound: is docker's socket mounted, who opens a page, and
                     \* which requests come
          None, Sent,  \* nothing shown, or no page; asked, and no answer yet
          Mixed        \* a table that is no pool: an endpoint of one, the rest
                       \* of another

ASSUME RoomAssumption == HubRoom \in Nat \ {0} /\ LogRoom \in Nat \ {0}
ASSUME MaxPoolAssumption == MaxPool \in Nat
ASSUME ScenarioAssumption ==
  Scenario \subseteq [mounted : BOOLEAN, pages : SUBSET Client, calls : SUBSET Call]
ASSUME NoneAssumption ==
  /\ None \notin Nat /\ Sent \notin Nat /\ Mixed \notin Nat
  /\ None # Mixed /\ None \notin Client

VARIABLES
  pool, enabled,    \* the pool: its number, and the sidecar's Enabled
  call,             \* per request: its step and what it holds
  scenario,         \* an element of Scenario
  container,        \* the sidecar's container runs
  control,          \* per request: what its goroutine asks of docker
  registered, hub,  \* Server.clients and the channels in it
  subscribed, closed, logs,    \* Bus.subs, the channels closed, their lengths
  publishing, due,  \* a log line is being fanned out; who is still to get it
  feed,             \* per client: its handler's step and the pool in its hands
  browser, shown,   \* per client: the page and the pool it shows
  asked, patched,   \* the answers under way to its GETs and to its PATCHes
  announced,        \* history: the pool as it is has been offered to all feeds
  behind,           \* history: the last offer to the client was of an older
                    \* pool or did not fit, or an older answer came after it
  crossed,          \* history: another toggle was under way at the last one
  disturbed         \* history: since the last toggle docker has failed, or a
                    \* probe or a merge has put back the old Enabled

poolVars == <<pool, enabled, call, announced>>
dockerVars == <<scenario, container, control, crossed, disturbed>>
hubVars == <<registered, hub, behind>>
busVars == <<subscribed, closed, logs, publishing, due>>
pageVars == <<browser, shown, asked, patched>>
webVars == <<feed, pageVars>>
vars == <<poolVars, dockerVars, hubVars, busVars, webVars>>

(* Of a request: the Enabled it saw or asks for, the pool it has made, and *)
(* the page that made the request, if one did.                             *)
NoCall == [pc |-> "idle", payload |-> 0, seen |-> TRUE, todo |-> {}, made |-> 0, page |-> None]

(* Without docker a toggle is a change of the pool like any other.         *)
Init ==
  /\ scenario \in Scenario
  /\ pool = 0 /\ enabled \in IF scenario.mounted THEN BOOLEAN ELSE {TRUE}
  /\ call = [g \in Call |-> NoCall]
  /\ container = enabled
  /\ control = [g \in Call |-> "none"]
  /\ registered = {} /\ hub = [c \in Client |-> << >>]
  /\ subscribed = {} /\ closed = {} /\ logs = [c \in Client |-> 0]
  /\ publishing = FALSE /\ due = {}
  /\ feed = [c \in Client |-> [pc |-> "off", frame |-> 0]]
  /\ browser = [c \in Client |-> "away"]
  /\ shown = [c \in Client |-> None]
  /\ asked = [c \in Client |-> {}]
  /\ patched = [c \in Client |-> {}]
  /\ announced = TRUE
  /\ behind = [c \in Client |-> FALSE]
  /\ crossed = FALSE
  /\ disturbed = ~ scenario.mounted

-----------------------------------------------------------------------------
(* The pool and its broadcasts.                                            *)
NewPool(on) ==
  /\ pool < MaxPool
  /\ pool' = pool + 1
  /\ enabled' = on
  /\ announced' = FALSE

(* Who may send a PATCH: nobody we show, or an open page with a table.     *)
Pages == {None} \cup {c \in Client : browser[c] = "open" /\ shown[c] # None}
Patched(g, pc, on, page) ==
  /\ g \in scenario.calls
  /\ call[g].pc = "idle"
  /\ page \in Pages
  /\ NewPool(on)
  /\ call' = [call EXCEPT ![g].pc = pc, ![g].made = pool', ![g].page = page, ![g].seen = on]

(* A PATCH of another endpoint, of a priority, or with no docker to tell.  *)
Patch(g, page) ==
  /\ Patched(g, "patched", enabled, page)
  /\ UNCHANGED <<dockerVars, hubVars, busVars, webVars>>

(* One that sets the sidecar's Enabled, and after a look at docker (of 5   *)
(* seconds at most) a goroutine that brings it there.                      *)
Toggle(g, on, page) ==
  /\ scenario.mounted
  /\ control[g] = "none"
  /\ Patched(g, "toggled", on, page)
  /\ crossed' = \E h \in Call : control[h] # "none" \/ call[h].pc = "toggled"
  /\ disturbed' = FALSE
  /\ UNCHANGED <<scenario, container, control, hubVars, busVars, webVars>>

Control(g) ==
  /\ call[g].pc = "toggled"
  /\ call' = [call EXCEPT ![g].pc = "patched"]
  /\ control' = [control EXCEPT ![g] = IF call[g].seen THEN "start" ELSE "stop"]
  /\ UNCHANGED <<pool, enabled, announced, scenario, container, crossed, disturbed,
                 hubVars, busVars, webVars>>

(* The handler has saved the pool and takes a copy of it to broadcast.     *)
Collect(g) ==
  /\ call[g].pc = "patched"
  /\ call' = [call EXCEPT ![g].pc = "broadcast", ![g].payload = pool]
  /\ UNCHANGED <<pool, enabled, announced, dockerVars, hubVars, busVars, webVars>>

(* A probe works on a copy and puts it back, with the Enabled it saw; a    *)
(* merge of the probing loop does so too, and tells nobody.                *)
ProbeStart(g) ==
  /\ g \in scenario.calls
  /\ call[g].pc = "idle"
  /\ call' = [call EXCEPT ![g].pc = "probing", ![g].seen = enabled]
  /\ UNCHANGED <<pool, enabled, announced, dockerVars, hubVars, busVars, webVars>>

PutBack(g) ==
  /\ call[g].pc = "probing"
  /\ NewPool(call[g].seen)
  /\ disturbed' = (disturbed \/ call[g].seen # enabled)
  /\ UNCHANGED <<scenario, container, control, crossed, hubVars, busVars, webVars>>

ProbePublish(g) ==
  /\ PutBack(g)
  /\ call' = [call EXCEPT ![g].pc = "published", ![g].payload = pool']

MergePublish(g) ==
  /\ PutBack(g)
  /\ call' = [call EXCEPT ![g] = NoCall]

(* What it broadcasts is its own slice, the pool itself by now: a PATCH in  *)
(* the meantime is in it or, when the pool has been replaced, is not.       *)
Marshal(g) ==
  /\ call[g].pc = "published"
  /\ \E v \in {call[g].payload, pool} :
       call' = [call EXCEPT ![g].pc = "broadcast", ![g].payload = v]
  /\ UNCHANGED <<pool, enabled, announced, dockerVars, hubVars, busVars, webVars>>

(* markError, and a merge that found Enabled as it is, change the pool and  *)
(* tell nobody.                                                             *)
ChangeSilently ==
  /\ NewPool(enabled)
  /\ UNCHANGED <<call, dockerVars, hubVars, busVars, webVars>>

(* broadcast takes the read lock, offers, and lets go of it.               *)
Broadcast(g) ==
  /\ call[g].pc = "broadcast"
  /\ call' = [call EXCEPT ![g].pc = "offer", ![g].todo = registered]
  /\ UNCHANGED <<pool, enabled, announced, dockerVars, hubVars, busVars, webVars>>

Offered(g, c) ==
  /\ behind' = [behind EXCEPT ![c] = Len(hub[c]) = HubRoom \/ call[g].payload # pool]
  /\ call' = [call EXCEPT ![g].todo = @ \ {c}]
  /\ UNCHANGED <<pool, enabled, announced, dockerVars, registered, busVars, webVars>>

(* Mutant: no default case, so a full channel is waited for.               *)
OfferBlocking(g, c) ==
  /\ call[g].pc = "offer" /\ c \in call[g].todo
  /\ Len(hub[c]) < HubRoom
  /\ hub' = [hub EXCEPT ![c] = Append(@, call[g].payload)]
  /\ Offered(g, c)

Offer(g, c) ==
  /\ call[g].pc = "offer" /\ c \in call[g].todo
  /\ hub' = [hub EXCEPT ![c] = IF Len(@) < HubRoom THEN Append(@, call[g].payload) ELSE @]
  /\ Offered(g, c)

(* A PATCH is answered now, with its endpoint as it left it.               *)
BroadcastEnds(g) ==
  /\ call[g].pc = "offer" /\ call[g].todo = {}
  /\ call' = [call EXCEPT ![g] = NoCall]
  /\ announced' = (announced \/ call[g].payload = pool)
  /\ patched' = [c \in Client |-> IF c = call[g].page THEN patched[c] \cup {call[g].made}
                                  ELSE patched[c]]
  /\ UNCHANGED <<pool, enabled, dockerVars, hubVars, busVars, feed, browser, shown, asked>>

-----------------------------------------------------------------------------
(* controlSidecarContainer and docker, which may carry a request out after  *)
(* the goroutine has stopped waiting for the answer.                        *)

(* Mutant: both branches start.                                            *)
DockerOnlyStarts(g) ==
  /\ control[g] # "none"
  /\ container' = TRUE
  /\ control' = [control EXCEPT ![g] = "none"]
  /\ UNCHANGED <<scenario, crossed, disturbed, poolVars, hubVars, busVars, webVars>>

DockerActs(g) ==
  /\ control[g] # "none"
  /\ container' = (control[g] = "start")
  /\ control' = [control EXCEPT ![g] = "none"]
  /\ UNCHANGED <<scenario, crossed, disturbed, poolVars, hubVars, busVars, webVars>>

(* No socket, no such container, an error or no time left.                 *)
ControlFails(g) ==
  /\ control[g] # "none"
  /\ control' = [control EXCEPT ![g] = "none"]
  /\ disturbed' = TRUE
  /\ UNCHANGED <<scenario, container, crossed, poolVars, hubVars, busVars, webVars>>

-----------------------------------------------------------------------------
(* The log bus: CapturingWriter lets one line through at a time.           *)
LogPublish ==
  /\ ~ publishing
  /\ publishing' = TRUE
  /\ due' = subscribed
  /\ UNCHANGED <<subscribed, closed, logs, poolVars, dockerVars, hubVars, webVars>>

(* Mutant: a full channel is not noticed.                                  *)
LogOfferUnbounded(c) ==
  /\ c \in due
  /\ due' = due \ {c}
  /\ logs' = [logs EXCEPT ![c] = @ + 1]
  /\ UNCHANGED <<subscribed, closed, publishing, poolVars, dockerVars, hubVars, webVars>>

LogOffer(c) ==
  /\ c \in due
  /\ due' = due \ {c}
  /\ logs' = [logs EXCEPT ![c] = IF @ < LogRoom THEN @ + 1 ELSE @]
  /\ UNCHANGED <<subscribed, closed, publishing, poolVars, dockerVars, hubVars, webVars>>

LogEnds ==
  /\ publishing /\ due = {}
  /\ publishing' = FALSE
  /\ UNCHANGED <<subscribed, closed, logs, due, poolVars, dockerVars, hubVars, webVars>>

-----------------------------------------------------------------------------
(* A feed.                                                                 *)
FeedAt(c, pc) == feed[c].pc = pc
FeedTo(c, pc) == feed' = [feed EXCEPT ![c].pc = pc]
HubUnlocked == \A g \in Call : call[g].pc # "offer"

Register(c) ==
  /\ FeedAt(c, "register") /\ HubUnlocked
  /\ registered' = registered \cup {c}
  /\ hub' = [hub EXCEPT ![c] = << >>]
  /\ behind' = [behind EXCEPT ![c] = FALSE]
  /\ FeedTo(c, "subscribe")
  /\ UNCHANGED <<poolVars, dockerVars, busVars, pageVars>>

Subscribe(c) ==
  /\ FeedAt(c, "subscribe") /\ ~ publishing
  /\ subscribed' = subscribed \cup {c}
  /\ closed' = closed \ {c}                       \* a channel of its own
  /\ logs' = [logs EXCEPT ![c] = 0]
  /\ FeedTo(c, "snapshot")
  /\ UNCHANGED <<publishing, due, poolVars, dockerVars, hubVars, pageVars>>

Snapshot(c) ==
  /\ FeedAt(c, "snapshot")
  /\ feed' = [feed EXCEPT ![c] = [pc |-> "first", frame |-> pool]]
  /\ UNCHANGED <<poolVars, dockerVars, hubVars, busVars, pageVars>>

TakePool(c) ==
  /\ FeedAt(c, "select") /\ hub[c] # << >>
  /\ hub' = [hub EXCEPT ![c] = Tail(@)]
  /\ feed' = [feed EXCEPT ![c] = [pc |-> "sendPool", frame |-> Head(hub[c])]]
  /\ UNCHANGED <<poolVars, dockerVars, registered, behind, busVars, pageVars>>

TakeLog(c) ==
  /\ FeedAt(c, "select") /\ logs[c] > 0
  /\ logs' = [logs EXCEPT ![c] = @ - 1]
  /\ FeedTo(c, "sendLog")
  /\ UNCHANGED <<subscribed, closed, publishing, due, poolVars, dockerVars, hubVars,
                 pageVars>>

Sending(c) == feed[c].pc \in {"first", "sendPool", "sendLog"}
PoolInHand(c) == feed[c].pc \in {"first", "sendPool"}

(* A frame goes out when the browser takes it, whenever that is.           *)
SendTaken(c) ==
  /\ Sending(c) /\ browser[c] = "open"
  /\ shown' = [shown EXCEPT ![c] = IF PoolInHand(c) THEN feed[c].frame ELSE @]
  /\ feed' = [feed EXCEPT ![c] = [pc |-> "select", frame |-> 0]]
  /\ UNCHANGED <<poolVars, dockerVars, hubVars, busVars, browser, asked, patched>>

(* Mutant: no send's error is looked at.                                   *)
SendFailsUnnoticed(c) ==
  /\ Sending(c) /\ browser[c] \in {"gone", "reset"}
  /\ feed' = [feed EXCEPT ![c] = [pc |-> "select", frame |-> 0]]
  /\ UNCHANGED <<poolVars, dockerVars, hubVars, busVars, pageVars>>

(* One that has gone lets the first frame be written, and then resets the  *)
(* connection.  The error of the first send of all is not looked at.       *)
SendIntoVoid(c) ==
  /\ Sending(c) /\ browser[c] = "gone"
  /\ browser' = [browser EXCEPT ![c] = "reset"]
  /\ feed' = [feed EXCEPT ![c] = [pc |-> "select", frame |-> 0]]
  /\ UNCHANGED <<poolVars, dockerVars, hubVars, busVars, shown, asked, patched>>

SendFails(c) ==
  /\ Sending(c) /\ browser[c] \in {"gone", "reset"}
  /\ feed' = [feed EXCEPT ![c] = [pc |-> IF FeedAt(c, "first") THEN "select" ELSE "unregister",
                                  frame |-> 0]]
  /\ UNCHANGED <<poolVars, dockerVars, hubVars, busVars, pageVars>>

Unregister(c) ==
  /\ FeedAt(c, "unregister") /\ HubUnlocked
  /\ registered' = registered \ {c}
  /\ hub' = [hub EXCEPT ![c] = << >>]
  /\ FeedTo(c, "release")
  /\ UNCHANGED <<behind, poolVars, dockerVars, busVars, pageVars>>

(* Mutant: the log channel is closed before it leaves the bus.             *)
ReleaseClosing(c) ==
  /\ FeedAt(c, "release")
  /\ closed' = closed \cup {c}
  /\ IF publishing THEN UNCHANGED <<subscribed, feed>>
     ELSE subscribed' = subscribed \ {c} /\ FeedTo(c, "close")
  /\ UNCHANGED <<logs, publishing, due, poolVars, dockerVars, hubVars,
                 pageVars>>

(* releaseLog: the channel leaves the bus, and then it is closed.          *)
Release(c) ==
  /\ FeedAt(c, "release") /\ ~ publishing
  /\ subscribed' = subscribed \ {c}
  /\ FeedTo(c, "close")
  /\ UNCHANGED <<closed, logs, publishing, due, poolVars, dockerVars, hubVars,
                 pageVars>>

(* close(ch) and ws.Close().                                               *)
Close(c) ==
  /\ FeedAt(c, "close")
  /\ closed' = closed \cup {c}
  /\ logs' = [logs EXCEPT ![c] = 0]
  /\ feed' = [feed EXCEPT ![c] = [pc |-> "off", frame |-> 0]]
  /\ browser' = [browser EXCEPT ![c] = "away"]
  /\ shown' = [shown EXCEPT ![c] = None]
  /\ UNCHANGED <<subscribed, publishing, due, poolVars, dockerVars, hubVars, asked, patched>>

-----------------------------------------------------------------------------
(* The browser: a page opens its feed and asks for the pool, then and at   *)
(* every refresh, and may go at any time.  A member of asked stands for    *)
(* any number of answers with that pool.                                   *)
Open(c) ==
  /\ c \in scenario.pages
  /\ FeedAt(c, "off") /\ browser[c] = "away"
  /\ browser' = [browser EXCEPT ![c] = "open"]
  /\ asked' = [asked EXCEPT ![c] = {Sent}]
  /\ FeedTo(c, "register")
  /\ UNCHANGED <<poolVars, dockerVars, hubVars, busVars, shown, patched>>

Refresh(c) ==
  /\ browser[c] = "open"
  /\ asked' = [asked EXCEPT ![c] = @ \cup {Sent}]
  /\ UNCHANGED <<poolVars, dockerVars, hubVars, busVars, feed, browser, shown, patched>>

Leave(c) ==
  /\ browser[c] = "open"
  /\ browser' = [browser EXCEPT ![c] = "gone"]
  /\ asked' = [asked EXCEPT ![c] = {}]
  /\ patched' = [patched EXCEPT ![c] = {}]
  /\ shown' = [shown EXCEPT ![c] = None]
  /\ call' = [g \in Call |-> IF call[g].page = c THEN [call[g] EXCEPT !.page = None] ELSE call[g]]
  /\ UNCHANGED <<pool, enabled, announced, dockerVars, hubVars, busVars, feed>>

AnswerGet(c) ==
  /\ Sent \in asked[c]
  /\ asked' = [asked EXCEPT ![c] = (@ \ {Sent}) \cup {pool}]
  /\ UNCHANGED <<poolVars, dockerVars, hubVars, busVars, feed, browser, shown, patched>>

(* No frame is under way to c that will replace what it shows.             *)
Quiet(c) == hub[c] = << >> /\ feed[c].pc \in {"select", "sendLog"}
Show(c, v) ==
  /\ shown' = [shown EXCEPT ![c] = v]
  /\ behind' = [behind EXCEPT ![c] = @ \/ (Quiet(c) /\ v # shown[c] /\ v # pool)]
  /\ UNCHANGED <<poolVars, dockerVars, registered, hub, busVars, feed, browser>>

ApplyGet(c) ==
  /\ \E v \in asked[c] \ {Sent} :
       /\ Show(c, v)
       /\ asked' \in {asked, [asked EXCEPT ![c] = @ \ {v}]}
  /\ UNCHANGED patched

(* One endpoint of the table is replaced.                                  *)
ApplyPatch(c) ==
  /\ \E k \in patched[c] :
       /\ \E v \in {shown[c], k, Mixed} : Show(c, v)
       /\ patched' = [patched EXCEPT ![c] = @ \ {k}]
  /\ UNCHANGED asked

-----------------------------------------------------------------------------
BroadcastStep(g) ==
  \/ Control(g) \/ Collect(g) \/ Marshal(g) \/ Broadcast(g)
  \/ \E c \in Client : Offer(g, c)
  \/ BroadcastEnds(g)
CallStep(g) ==
  \/ \E page \in Client \cup {None} :
       Patch(g, page) \/ \E on \in BOOLEAN : Toggle(g, on, page)
  \/ ProbeStart(g) \/ ProbePublish(g) \/ MergePublish(g) \/ BroadcastStep(g)
ControlStep(g) == DockerActs(g) \/ ControlFails(g)
LogStep == LogPublish \/ LogEnds \/ \E c \in Client : LogOffer(c)
SendStep(c) == SendTaken(c) \/ SendIntoVoid(c) \/ SendFails(c)

(* Mutant: the first pool is read before the channels are registered.      *)
SnapshotEarly(c) ==
  /\ FeedAt(c, "register")
  /\ feed' = [feed EXCEPT ![c] = [pc |-> "snapshot", frame |-> pool]]
  /\ UNCHANGED <<poolVars, dockerVars, hubVars, busVars, pageVars>>
RegisterLate(c) ==
  /\ FeedAt(c, "snapshot") /\ HubUnlocked /\ ~ publishing
  /\ registered' = registered \cup {c}
  /\ hub' = [hub EXCEPT ![c] = << >>]
  /\ behind' = [behind EXCEPT ![c] = FALSE]
  /\ subscribed' = subscribed \cup {c} /\ closed' = closed \ {c}
  /\ logs' = [logs EXCEPT ![c] = 0]
  /\ FeedTo(c, "first")
  /\ UNCHANGED <<publishing, due, poolVars, dockerVars, pageVars>>
FeedStepRegisteringLate(c) ==
  \/ SnapshotEarly(c) \/ RegisterLate(c) \/ TakePool(c) \/ TakeLog(c)
  \/ Unregister(c) \/ Release(c) \/ Close(c)

FeedStep(c) ==
  \/ Register(c) \/ Subscribe(c) \/ Snapshot(c) \/ TakePool(c) \/ TakeLog(c)
  \/ Unregister(c) \/ Release(c) \/ Close(c)
BrowserStep(c) ==
  Open(c) \/ Refresh(c) \/ Leave(c) \/ AnswerGet(c) \/ ApplyGet(c) \/ ApplyPatch(c)

Next ==
  \/ ChangeSilently \/ LogStep
  \/ \E g \in Call : CallStep(g) \/ ControlStep(g)
  \/ \E c \in Client : FeedStep(c) \/ SendStep(c) \/ BrowserStep(c)

Spec == Init /\ [][Next]_vars

(* Goroutines that can run do, a writer that waits for a lock gets it in   *)
(* the end (sync.RWMutex lets no new reader pass it), and something is     *)
(* logged again and again (each probe pass logs).  A browser that is there *)
(* need not take anything.                                                 *)
Fairness ==
  /\ \A g \in Call : WF_vars(BroadcastStep(g))
  /\ WF_vars(LogStep)
  /\ \A c \in Client :
       /\ SF_vars(FeedStep(c))
       /\ WF_vars(SendIntoVoid(c) \/ SendFails(c))

FairSpec == Spec /\ Fairness

-----------------------------------------------------------------------------
TypeOK ==
  /\ scenario \in Scenario
  /\ pool \in 0..MaxPool /\ enabled \in BOOLEAN
  /\ call \in [Call -> [pc : {"idle", "toggled", "patched", "probing", "published", "broadcast",
                              "offer"},
                        payload : 0..MaxPool, seen : BOOLEAN, todo : SUBSET Client,
                        made : 0..MaxPool, page : Client \cup {None}]]
  /\ container \in BOOLEAN /\ control \in [Call -> {"none", "start", "stop"}]
  /\ registered \subseteq Client /\ hub \in [Client -> Seq(0..MaxPool)]
  /\ \A c \in Client : Len(hub[c]) <= HubRoom
  /\ subscribed \subseteq Client /\ closed \subseteq Client
  /\ logs \in [Client -> 0..LogRoom]
  /\ publishing \in BOOLEAN /\ due \subseteq Client
  /\ feed \in [Client -> [pc : {"off", "register", "subscribe", "snapshot", "first", "select",
                                "sendPool", "sendLog", "unregister", "release", "close"},
                          frame : 0..MaxPool]]
  /\ browser \in [Client -> {"away", "open", "gone", "reset"}]
  /\ shown \in [Client -> 0..MaxPool \cup {None, Mixed}]
  /\ asked \in [Client -> SUBSET (0..MaxPool \cup {Sent})]
  /\ patched \in [Client -> SUBSET (0..MaxPool)]
  /\ announced \in BOOLEAN /\ behind \in [Client -> BOOLEAN]
  /\ crossed \in BOOLEAN /\ disturbed \in BOOLEAN

(* A fan-out never sends on a channel that its feed has closed, which would *)
(* panic in whatever goroutine was writing a log line.                      *)
NoSendOnClosed == due \cap closed = {}

(* A page shows the pool as it is once that has been broadcast and its feed *)
(* is idle, whatever was sent, asked, patched or changed before, but for    *)
(* four things: its channel was full, the last broadcast to reach it was    *)
(* overtaken by another change, or an older answer to a GET or to a PATCH   *)
(* of its own came with no frame behind it.                                 *)
Idle(c) == FeedAt(c, "select") /\ browser[c] = "open" /\ hub[c] = << >>
IdleFeedsCurrent ==
  \A c \in Client : announced /\ ~ behind[c] /\ Idle(c) => shown[c] = pool

(* The container of a sidecar follows its last toggle, when no other toggle *)
(* crossed that one, no probe and no merge undid it, and docker did what it *)
(* was asked.                                                               *)
Settled == \A g \in Call : control[g] = "none" /\ call[g].pc # "toggled"
ContainerFollowsToggle == ~ crossed /\ ~ disturbed /\ Settled => container = enabled

(* A feed whose browser has gone is noticed at the next line that is        *)
(* logged, and both its channels are given up.                              *)
GoneClientsReleased ==
  \A c \in Client :
    browser[c] \in {"gone", "reset"} ~> (c \notin registered \cup subscribed)

(* A PATCH or a probe is answered although no browser takes what it is sent. *)
BroadcastsEnd ==
  \A g \in Call : call[g].pc = "offer" ~> call[g].pc = "idle"
=============================================================================
