-------------------------------- MODULE Proxy --------------------------------
(***************************************************************************)
(* One client connection through proxy-core: a listener takes it, the      *)
(* torrent blocker and the rule engine decide it, it is dropped, dialed    *)
(* directly or handed to the balancer, and an HTTP tunnel copies until one *)
(* side ends.  Meanwhile the rules and the kill-switch are replaced, and   *)
(* somebody edits the list files that rules name.                          *)
(*                                                                         *)
(* Evaluate holds the engine's read lock over the whole list, so SetRules  *)
(* waits; the files it reads are under no lock of its own, and loadList    *)
(* caches what it parsed by modification time.                             *)
(*                                                                         *)
(* A matcher that looks at the connection alone is the set of hosts it     *)
(* matches.  Balancer.DialContext is what module Dialing says it is: an    *)
(* endpoint, or, when all have failed, a refusal or a direct dial as the   *)
(* kill-switch says at that moment; here it is either.                     *)
(***************************************************************************)
EXTENDS Naturals, Sequences

CONSTANTS Conn,       \* client connections
          Listener,   \* bound: the listeners a connection may come to
          Host,       \* destinations as a rule sees them: names and addresses
          Name,       \* the names among them
          Address,    \* what a name resolves to; an address is its own
          File,       \* paths of list files
          RuleList,   \* bound: the rule lists the dashboard sets
          Content,    \* bound: what is written into list files
          Torrent,    \* the hosts TorrentBlocker matches, {} when it is off
          MaxEdits,   \* bound: changes to list files
          None        \* no file, no cache entry

ASSUME ListenerAssumption == Listener \in [Conn -> SUBSET {"http", "socks5"}]
ASSUME NameAssumption == Name \subseteq Host
ASSUME AddressAssumption ==
  /\ Address \in [Host -> Host]
  /\ \A h \in Host : Address[h] \notin Name /\ (h \notin Name => Address[h] = h)
ASSUME ContentAssumption == Content \subseteq SUBSET Host
ASSUME TorrentAssumption == Torrent \subseteq Host
ASSUME MaxEditsAssumption == MaxEdits \in Nat

Action == {"proxy", "direct", "block"}
Match == [kind : {"hosts"}, hosts : SUBSET Host]
           \cup [kind : {"domain_list", "ip_list", "geoip"}, path : File]
Rule == [match : Match, action : Action, enabled : BOOLEAN]
ListFile == [stamp : Nat, hosts : SUBSET Host]   \* also a cache entry

ASSUME RuleListAssumption == RuleList \subseteq Seq(Rule) /\ RuleList # {}
ASSUME NoneNoFileAssumption == None \notin ListFile

VARIABLES
  rules,        \* Engine.rules
  file,         \* per path: modification time and the hosts listed, or None
  clock,        \* the last modification time given
  cache,        \* listCache
  conn,         \* per connection: the local state of its handler
  tunnel,       \* per connection: its copiers and the two ends
  always, ever  \* history: the rules of its list that matched throughout its
                \* evaluation, and at some moment of it

lists == <<file, clock>>
vars == <<rules, lists, cache, conn, tunnel, always, ever>>

-----------------------------------------------------------------------------
(* Matching.                                                               *)

(* The host the engine is asked about.  The SOCKS5 library is configured   *)
(* with no Resolver of ours, and resolves a name before it calls Dial.     *)
Seen(listener, h) == IF listener = "socks5" THEN Address[h] ELSE h

(* ip_list and geoip look at no file unless the host is an address.        *)
NeedsFile(m, h) == m.kind = "domain_list" \/ (m.kind \in {"ip_list", "geoip"} /\ h \notin Name)

(* Of a file, domain lines match names and addresses match addresses.      *)
Lists(m, h, hosts) == h \in hosts /\ (m.kind = "domain_list" <=> h \in Name)

(* What a rule says with the files as they are: the meaning of a rule.     *)
Matches(m, h, files) ==
  IF m.kind = "hosts" THEN h \in m.hosts
  ELSE /\ NeedsFile(m, h)
       /\ files[m.path] # None
       /\ Lists(m, h, files[m.path].hosts)

(* The next rule from i on that is enabled and either matches h without a  *)
(* file or has to read one; 0 if there is none.                            *)
NextRule(list, i, h) ==
  LET relevant == {j \in i..Len(list) :
                     /\ list[j].enabled
                     /\ \/ NeedsFile(list[j].match, h)
                        \/ list[j].match.kind = "hosts" /\ h \in list[j].match.hosts}
  IN  IF relevant = {} THEN 0 ELSE CHOOSE j \in relevant : \A k \in relevant : j <= k

(* Mutant: every rule is taken for one that reads a file.                  *)
EnterBlind(k, i) ==
  LET j == NextRule(k.list, i, k.host)
  IN  [k EXCEPT !.at = j,
                !.pc = IF j = 0 THEN "decided"
                       ELSE IF k.list[j].match.kind = "geoip" THEN "scan"
                       ELSE "stat"]

(* A handler k about to look at rule i, and one that has matched its rule  *)
(* against a file.                                                         *)
Enter(k, i) ==
  LET j == NextRule(k.list, i, k.host)
  IN  [k EXCEPT !.at = j,
                !.pc = IF j = 0 \/ k.list[j].match.kind = "hosts" THEN "decided"
                       ELSE IF k.list[j].match.kind = "geoip" THEN "scan"
                       ELSE "stat"]
Resolve(k, matched) == IF matched THEN [k EXCEPT !.pc = "decided"] ELSE Enter(k, k.at + 1)

Path(k) == k.list[k.at].match.path
Decision(k) == IF k.at = 0 THEN "proxy" ELSE k.list[k.at].action
Evaluating(k) == k.pc \in {"scan", "stat", "lookup", "open", "store"}

-----------------------------------------------------------------------------
Fresh == [pc |-> "idle", listener |-> "http", host |-> None,
          list |-> << >>, at |-> 0, stamp |-> 0, hosts |-> {},
          way |-> "none", flow |-> "none"]
Still == [up |-> "off", down |-> "off", done |-> 0, client |-> "here", target |-> "here"]

Init ==
  /\ rules \in RuleList
  /\ file \in [File -> {None} \cup [stamp : {0}, hosts : Content]]
  /\ clock = 0
  /\ cache = [f \in File |-> None]
  /\ conn = [c \in Conn |-> Fresh]
  /\ tunnel = [c \in Conn |-> Still]
  /\ always = [c \in Conn |-> {}]
  /\ ever = [c \in Conn |-> {}]

(* A step of the handler of c from one of its steps to another.            *)
At(c, pc) == conn[c].pc = pc
Handler(c, k) ==
  /\ conn' = [conn EXCEPT ![c] = k]
  /\ UNCHANGED <<rules, lists, tunnel>>

(* Once it is decided, what led to that is forgotten.                      *)
Forget(k) == [k EXCEPT !.list = << >>, !.at = 0, !.stamp = 0, !.host = None]

Arrive(c, listener, h) ==
  /\ listener \in Listener[c]
  /\ At(c, "idle")
  /\ Handler(c, [conn[c] EXCEPT !.pc = "match", !.listener = listener,
                                !.host = Seen(listener, h)])
  /\ UNCHANGED cache

BlockTorrent(c) ==
  /\ At(c, "match")
  /\ conn[c].host \in Torrent
  /\ Handler(c, [Forget(conn[c]) EXCEPT !.pc = "closed"])
  /\ UNCHANGED cache

(* Evaluate takes the read lock and walks the list it finds.               *)
Evaluate(c) ==
  /\ At(c, "match")
  /\ conn[c].host \notin Torrent
  /\ Handler(c, Enter([conn[c] EXCEPT !.list = rules], 1))
  /\ UNCHANGED cache

-----------------------------------------------------------------------------
(* loadList: stat, look up, open and read, store.                          *)
ListStat(c) ==
  LET f == file[Path(conn[c])] IN
  /\ At(c, "stat")
  /\ Handler(c, IF f = None THEN Resolve(conn[c], FALSE)
                ELSE [conn[c] EXCEPT !.pc = "lookup", !.stamp = f.stamp])
  /\ UNCHANGED cache

(* Mutant: a cached list is used without a look at its time.               *)
ListLookupAnyTime(c) ==
  LET k == conn[c]
      e == cache[Path(k)] IN
  /\ At(c, "lookup")
  /\ Handler(c, IF e # None
                THEN Resolve(k, Lists(k.list[k.at].match, k.host, e.hosts))
                ELSE [k EXCEPT !.pc = "open"])
  /\ UNCHANGED cache

ListLookup(c) ==
  LET k == conn[c]
      e == cache[Path(k)] IN
  /\ At(c, "lookup")
  /\ Handler(c, IF e # None /\ e.stamp = k.stamp
                THEN Resolve(k, Lists(k.list[k.at].match, k.host, e.hosts))
                ELSE [k EXCEPT !.pc = "open"])
  /\ UNCHANGED cache

ListOpen(c) ==
  LET f == file[Path(conn[c])] IN
  /\ At(c, "open")
  /\ Handler(c, IF f = None THEN Resolve(conn[c], FALSE)
                ELSE [conn[c] EXCEPT !.pc = "store", !.hosts = f.hosts])
  /\ UNCHANGED cache

(* Mutant: the time is taken when the list is stored.                      *)
ListStoreStampedLate(c) ==
  LET k == conn[c] IN
  /\ At(c, "store")
  /\ cache' = [cache EXCEPT ![Path(k)] =
                 [stamp |-> IF file[Path(k)] = None THEN k.stamp ELSE file[Path(k)].stamp,
                  hosts |-> k.hosts]]
  /\ Handler(c, Resolve([k EXCEPT !.hosts = {}],
                        Lists(k.list[k.at].match, k.host, k.hosts)))

ListStore(c) ==
  LET k == conn[c] IN
  /\ At(c, "store")
  /\ cache' = [cache EXCEPT ![Path(k)] = [stamp |-> k.stamp, hosts |-> k.hosts]]
  /\ Handler(c, Resolve([k EXCEPT !.hosts = {}],
                        Lists(k.list[k.at].match, k.host, k.hosts)))

(* geoip reads its file each time.                                         *)
GeoipScan(c) ==
  LET k == conn[c] IN
  /\ At(c, "scan")
  /\ Handler(c, Resolve(k, Matches(k.list[k.at].match, k.host, file)))
  /\ UNCHANGED cache

-----------------------------------------------------------------------------
(* The decision is carried out.                                            *)
Drop(c) ==
  /\ At(c, "decided") /\ Decision(conn[c]) = "block"
  /\ Handler(c, [Forget(conn[c]) EXCEPT !.pc = "closed"])
  /\ UNCHANGED cache

DialByRule(c) ==
  /\ At(c, "decided") /\ Decision(conn[c]) = "direct"
  /\ Handler(c, [Forget(conn[c]) EXCEPT !.pc = "dialing", !.way = "rule"])
  /\ UNCHANGED cache

HandToBalancer(c) ==
  /\ At(c, "decided") /\ Decision(conn[c]) = "proxy"
  /\ Handler(c, [Forget(conn[c]) EXCEPT !.pc = "balancer"])
  /\ UNCHANGED cache

(* DialContext: an endpoint answers, and the flow begins.                  *)
DialEndpoint(c) ==
  /\ At(c, "balancer")
  /\ Handler(c, [conn[c] EXCEPT !.pc = "connected", !.way = "endpoint", !.flow = "open"])
  /\ UNCHANGED cache

AllEndpointsFail(c) ==
  /\ At(c, "balancer")
  /\ Handler(c, [conn[c] EXCEPT !.pc = "fallback"])
  /\ UNCHANGED cache

Refuse(c) ==
  /\ At(c, "fallback")
  /\ Handler(c, [conn[c] EXCEPT !.pc = "closed", !.way = "refused", !.flow = "open"])
  /\ UNCHANGED cache

FallBack(c) ==
  /\ At(c, "fallback")
  /\ Handler(c, [conn[c] EXCEPT !.pc = "dialing", !.way = "fallback"])
  /\ UNCHANGED cache

(* net.Dial, of a direct rule or of the fallback; a rule's has no flow.    *)
DialAnswered(c) ==
  /\ At(c, "dialing")
  /\ Handler(c, [conn[c] EXCEPT !.pc = "connected",
                                !.flow = IF conn[c].way = "fallback" THEN "open" ELSE @])
  /\ UNCHANGED cache

DialFailed(c) ==
  /\ At(c, "dialing")
  /\ Handler(c, [conn[c] EXCEPT !.pc = "closed"])
  /\ UNCHANGED cache

-----------------------------------------------------------------------------
(* What happens to the connection.  countingConn.Close ends the flow.      *)
FlowAtClose(k) == IF k.flow = "open" THEN "ended" ELSE k.flow
TunnelStep(c, k, t) ==
  /\ conn' = [conn EXCEPT ![c] = k]
  /\ tunnel' = [tunnel EXCEPT ![c] = t]
  /\ UNCHANGED <<rules, lists, cache>>

Hijack(c) ==
  /\ At(c, "connected") /\ conn[c].listener = "http"
  /\ TunnelStep(c, [conn[c] EXCEPT !.pc = "tunnel"],
                   [tunnel[c] EXCEPT !.up = "reads", !.down = "reads"])

(* Mutant: dst is closed only by the tunnel's own return.                  *)
HijackFailsUnclosed(c) ==
  /\ At(c, "connected") /\ conn[c].listener = "http"
  /\ TunnelStep(c, [conn[c] EXCEPT !.pc = "closed"], tunnel[c])

HijackFails(c) ==
  /\ At(c, "connected") /\ conn[c].listener = "http"
  /\ TunnelStep(c, [conn[c] EXCEPT !.pc = "closed", !.flow = FlowAtClose(conn[c])],
                   tunnel[c])

(* The SOCKS5 library copies both ways and closes when it is done; when    *)
(* that is we do not say.                                                  *)
LibraryCloses(c) ==
  /\ At(c, "connected") /\ conn[c].listener = "socks5"
  /\ TunnelStep(c, [conn[c] EXCEPT !.pc = "closed", !.flow = FlowAtClose(conn[c])],
                   tunnel[c])

(* A copier reads what its source has sent and writes it to its sink, with *)
(* no deadline on either: it waits for an end that sends nothing and for   *)
(* one that takes nothing, and while it waits to write it does not see     *)
(* that its source has gone.  It ends when it finds the end it waits for   *)
(* gone, by itself or closed by the tunnel, though a first write to such   *)
(* an end may still succeed; then it sends on done, which has room for     *)
(* both.  What an end sent before it went is one write at the most.        *)
Sources == [up |-> "client", down |-> "target"]
Sinks == [up |-> "target", down |-> "client"]
Copier(c, dir, step) == TunnelStep(c, conn[c], [tunnel[c] EXCEPT ![dir] = step])

SourceSends(c, dir) ==
  /\ tunnel[c][dir] = "reads" /\ tunnel[c][Sources[dir]] = "here"
  /\ Copier(c, dir, "writes")

SinkTakes(c, dir) ==
  /\ tunnel[c][dir] = "writes" /\ tunnel[c][Sinks[dir]] = "here"
  /\ Copier(c, dir, "reads")

CopyIntoVoid(c, dir) ==
  /\ tunnel[c][dir] = "writes" /\ tunnel[c][Sinks[dir]] = "gone"
  /\ Copier(c, dir, "reads")

CopyEnds(c, dir) ==
  /\ \/ tunnel[c][dir] = "reads" /\ tunnel[c][Sources[dir]] = "gone"
     \/ tunnel[c][dir] = "writes" /\ tunnel[c][Sinks[dir]] = "gone"
  /\ Copier(c, dir, "sends")

(* Mutant: done has no buffer, so a send meets the receive of the tunnel.  *)
CopySendsUnbuffered(c, dir) ==
  /\ tunnel[c][dir] = "sends"
  /\ At(c, "tunnel") /\ tunnel[c].done = 0
  /\ TunnelStep(c, conn[c], [tunnel[c] EXCEPT ![dir] = "off", !.done = @ + 1])

CopySends(c, dir) ==
  /\ tunnel[c][dir] = "sends"
  /\ tunnel[c].done < 2
  /\ TunnelStep(c, conn[c], [tunnel[c] EXCEPT ![dir] = "off", !.done = @ + 1])

TunnelReturns(c) ==
  /\ At(c, "tunnel") /\ tunnel[c].done > 0
  /\ TunnelStep(c, [conn[c] EXCEPT !.pc = "closeClient"], [tunnel[c] EXCEPT !.done = @ - 1])

CloseClient(c) ==
  /\ At(c, "closeClient")
  /\ TunnelStep(c, [conn[c] EXCEPT !.pc = "closeTarget"],
                   [tunnel[c] EXCEPT !.client = "gone"])

CloseTarget(c) ==
  /\ At(c, "closeTarget")
  /\ TunnelStep(c, [conn[c] EXCEPT !.pc = "closed", !.flow = FlowAtClose(conn[c])],
                   [tunnel[c] EXCEPT !.target = "gone"])

-----------------------------------------------------------------------------
(* The dashboard, the operator's editor, and the two ends.                 *)
SetRules(list) ==
  /\ list # rules
  /\ \A c \in Conn : ~ Evaluating(conn[c])
  /\ rules' = list
  /\ UNCHANGED <<lists, cache, conn, tunnel>>

(* A file changes, appears or goes, and every change has a time of its own *)
(* (the cache cannot notice two changes that a coarse clock gives one      *)
(* time, or a copy that brings back an older one).                         *)
EditList(f, hosts) ==
  /\ clock < MaxEdits
  /\ clock' = clock + 1
  /\ file' = [file EXCEPT ![f] = [stamp |-> clock + 1, hosts |-> hosts]]
  /\ UNCHANGED <<rules, cache, conn, tunnel>>

RemoveList(f) ==
  /\ file[f] # None
  /\ clock < MaxEdits
  /\ clock' = clock + 1
  /\ file' = [file EXCEPT ![f] = None]
  /\ UNCHANGED <<rules, cache, conn, tunnel>>

EndLeaves(c, end) ==
  /\ At(c, "tunnel") /\ tunnel[c][end] = "here"
  /\ TunnelStep(c, conn[c], [tunnel[c] EXCEPT ![end] = "gone"])

-----------------------------------------------------------------------------
(* What the history variables see after each step.                         *)
MatchingIn(k, files) ==
  {i \in DOMAIN k.list : k.list[i].enabled /\ Matches(k.list[i].match, k.host, files)}

RecordConns ==
  LET InList(c) == Evaluating(conn'[c]) \/ conn'[c].pc = "decided"
      Starts(c) == conn[c].pc = "match" IN
  /\ always' = [c \in Conn |->
       IF InList(c) THEN MatchingIn(conn'[c], file')
                           \cap (IF Starts(c) THEN DOMAIN conn'[c].list ELSE always[c])
       ELSE {}]
  /\ ever' = [c \in Conn |->
       IF InList(c) THEN MatchingIn(conn'[c], file') \cup (IF Starts(c) THEN {} ELSE ever[c])
       ELSE {}]

DecideStep(c) ==
  \/ BlockTorrent(c) \/ Evaluate(c)
  \/ ListStat(c) \/ ListLookup(c) \/ ListOpen(c) \/ ListStore(c) \/ GeoipScan(c)
  \/ Drop(c) \/ DialByRule(c) \/ HandToBalancer(c)
  \/ Refuse(c) \/ FallBack(c)

NetworkStep(c) ==
  DialEndpoint(c) \/ AllEndpointsFail(c) \/ DialAnswered(c) \/ DialFailed(c)

Dir == {"up", "down"}
CopyStep(c, dir) == CopyIntoVoid(c, dir) \/ CopyEnds(c, dir) \/ CopySends(c, dir)
EndStep(c, dir) == SourceSends(c, dir) \/ SinkTakes(c, dir)
UnwindStep(c) ==
  \/ Hijack(c) \/ HijackFails(c)
  \/ \E dir \in Dir : CopyStep(c, dir)
  \/ TunnelReturns(c) \/ CloseClient(c) \/ CloseTarget(c)

OutsideStep ==
  \/ \E c \in Conn, listener \in {"http", "socks5"}, h \in Host : Arrive(c, listener, h)
  \/ \E c \in Conn : LibraryCloses(c)
  \/ \E c \in Conn, end \in {"client", "target"} : EndLeaves(c, end)
  \/ \E c \in Conn, dir \in Dir : EndStep(c, dir)
  \/ \E list \in RuleList : SetRules(list)
  \/ \E f \in File, hosts \in Content : EditList(f, hosts)
  \/ \E f \in File : RemoveList(f)

Next ==
  /\ \/ \E c \in Conn : DecideStep(c) \/ NetworkStep(c) \/ UnwindStep(c)
     \/ OutsideStep
  /\ RecordConns

Spec == Init /\ [][Next]_vars

(* Goroutines that can run do: a copier whose end is there and neither     *)
(* sends nor takes anything cannot.  Writes to an end that is gone do not  *)
(* succeed for ever.  Nothing is asked of the network, of the ends of a    *)
(* tunnel or of the people who change rules and lists.                     *)
Fairness ==
  \A c \in Conn :
    /\ WF_vars((TunnelReturns(c) \/ CloseClient(c) \/ CloseTarget(c)) /\ RecordConns)
    /\ \A dir \in Dir : /\ SF_vars(CopyEnds(c, dir) /\ RecordConns)
                        /\ WF_vars(CopySends(c, dir) /\ RecordConns)

FairSpec == Spec /\ Fairness

-----------------------------------------------------------------------------
(* The types, and what a handler at each step holds.                       *)
Pc == {"idle", "match", "scan", "stat", "lookup", "open", "store", "decided", "balancer",
       "fallback", "dialing", "connected", "tunnel", "closeClient", "closeTarget", "closed"}
Connection == [pc : Pc, listener : {"http", "socks5"}, host : Host \cup {None},
               list : RuleList \cup {<< >>}, at : Nat, stamp : Nat, hosts : SUBSET Host,
               way : {"none", "rule", "endpoint", "fallback", "refused"},
               flow : {"none", "open", "ended"}]
Copying == {"off", "reads", "writes", "sends"}
Tunnel == [up : Copying, down : Copying, done : 0..2, client : {"here", "gone"},
           target : {"here", "gone"}]
TypeOK ==
  /\ rules \in RuleList
  /\ file \in [File -> ListFile \cup {None}]
  /\ clock \in Nat
  /\ cache \in [File -> ListFile \cup {None}]
  /\ conn \in [Conn -> Connection]
  /\ tunnel \in [Conn -> Tunnel]
  /\ always \in [Conn -> SUBSET Nat] /\ ever \in [Conn -> SUBSET Nat]
  /\ \A c \in Conn : Evaluating(conn[c]) =>
       /\ conn[c].at \in DOMAIN conn[c].list
       /\ conn[c].list[conn[c].at].match.kind # "hosts"

(* A cached list with the time of the file is the list in the file, however *)
(* loads and edits interleave: a lookup that hits is never out of date.     *)
ListCacheTrue ==
  \A f \in File :
    cache[f] # None /\ file[f] # None /\ cache[f].stamp = file[f].stamp =>
      cache[f].hosts = file[f].hosts

(* docs/PLUGINS.md:19, "the first enabled rule whose match expression       *)
(* matches wins", although lists change while it is walked: the rule that   *)
(* decides matched at some moment of the evaluation, and none before it     *)
(* matched all the time.                                                    *)
FirstMatchWins ==
  \A c \in Conn : At(c, "decided") =>
    LET i == conn[c].at IN
    /\ i # 0 => i \in ever[c]
    /\ \A j \in always[c] : i # 0 /\ i <= j

(* /api/flows: a connection that is over is not shown as open, unless it    *)
(* was refused, whose flow nobody ends.                                     *)
FlowsSettle ==
  \A c \in Conn : At(c, "closed") /\ conn[c].flow = "open" => conn[c].way = "refused"

(* An HTTP tunnel that loses one end lets go of both and of its copiers,   *)
(* provided that an end which is there does not for ever refuse to take    *)
(* what is sent to it: tunnel waits for the first copier, whichever it is, *)
(* and a copier that cannot write does not see its source go.              *)
Blocked(c, dir) == tunnel[c][dir] = "writes" /\ tunnel[c][Sinks[dir]] = "here"
TunnelsUnwind ==
  \A c \in Conn :
    (\A dir \in Dir : []<>(~ Blocked(c, dir))) =>
      ((At(c, "tunnel") /\ "gone" \in {tunnel[c].client, tunnel[c].target})
         ~> (At(c, "closed") /\ tunnel[c].up = "off" /\ tunnel[c].down = "off"))
=============================================================================
