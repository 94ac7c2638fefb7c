----------------------------- MODULE Proxy_proofs -----------------------------
(***************************************************************************)
(* The rule engine over list files that change while it reads them, for    *)
(* any rules, files, hosts and connections: a list that the cache has by   *)
(* the time of the file is the list in the file, and the first rule that   *)
(* matches decides.                                                        *)
(***************************************************************************)
EXTENDS Proxy, WellFoundedInduction, TLAPS

(* Walking a list.                                                         *)
LEMMA Least ==
  ASSUME NEW S, S \subseteq Nat, S # {}
  PROVE  \E n \in S : \A m \in S : n <= m
<1>1. PICK n \in S : \A m \in S : ~ (<<m, n>> \in OpToRel(<, Nat))
  BY NatLessThanWellFounded, WFMin, Zenon
<1>2. \A m \in S : <<m, n>> \in Nat \X Nat /\ <<m, n>>[1] = m /\ <<m, n>>[2] = n
  OBVIOUS
<1>3. \A m \in S : ~ (m < n)
  BY <1>1, <1>2 DEF OpToRel
<1> QED
  BY <1>3

Relevant(r, h) ==
  /\ r.enabled
  /\ \/ NeedsFile(r.match, h)
     \/ r.match.kind = "hosts" /\ h \in r.match.hosts

LEMMA NextRuleIs ==
  ASSUME NEW list \in Seq(Rule), NEW i \in Nat \ {0}, NEW h, NEW j, j = NextRule(list, i, h)
  PROVE  \/ j = 0 /\ \A m \in i..Len(list) : ~ Relevant(list[m], h)
         \/ /\ j \in i..Len(list) /\ j # 0 /\ Relevant(list[j], h)
            /\ \A m \in i..Len(list) : m < j => ~ Relevant(list[m], h)
<1> DEFINE relevant == {m \in i..Len(list) : Relevant(list[m], h)}
<1>1. j = IF relevant = {} THEN 0 ELSE CHOOSE m \in relevant : \A n \in relevant : m <= n
  BY DEF NextRule, Relevant
<1>2. relevant \subseteq Nat /\ Len(list) \in Nat
  OBVIOUS
<1>3. CASE relevant = {}
  BY <1>1, <1>3
<1>4. CASE relevant # {}
  <2>1. \E m \in relevant : \A n \in relevant : m <= n
    BY <1>2, <1>4, Least, Zenon
  <2>2. j \in relevant /\ \A n \in relevant : j <= n
    BY <1>1, <1>4, <2>1, Zenon
  <2> QED
    BY <2>2
<1> QED
  BY <1>3, <1>4

(* A rule that is not relevant matches nothing, whatever the files hold.   *)
LEMMA IrrelevantNoMatch ==
  ASSUME NEW r \in Rule, NEW h, NEW files, ~ Relevant(r, h), r.enabled
  PROVE  ~ Matches(r.match, h, files)
BY DEF Relevant, Matches

LEMMA RuleShape ==
  ASSUME NEW r \in Rule
  PROVE  /\ r.enabled \in BOOLEAN
         /\ r.match.kind \in {"hosts", "domain_list", "ip_list", "geoip"}
         /\ r.match.kind # "hosts" => r.match.path \in File
BY DEF Rule, Match

LEMMA ListShape ==
  ASSUME NEW k \in Connection
  PROVE  k.list \in Seq(Rule) /\ DOMAIN k.list = 1..Len(k.list) /\ Len(k.list) \in Nat
<1>1. k.list \in RuleList \cup {<< >>}
  BY DEF Connection
<1>2. << >> \in Seq(Rule)
  OBVIOUS
<1>3. k.list \in Seq(Rule)
  BY <1>1, <1>2, RuleListAssumption, Zenon
<1> QED
  BY <1>3

(* Which rule a walk from rule i on stops at.                              *)
LEMMA EnterIs ==
  ASSUME NEW k \in Connection, NEW i \in Nat \ {0}, NEW e, e = Enter(k, i)
  PROVE  /\ e \in Connection
         /\ e = [k EXCEPT !.at = e.at, !.pc = e.pc]
         /\ e.pc \in {"decided", "scan", "stat"}
         /\ \/ /\ e.at = 0 /\ e.pc = "decided"
               /\ \A m \in i..Len(k.list) : ~ Relevant(k.list[m], k.host)
            \/ /\ e.at \in i..Len(k.list) /\ e.at # 0 /\ Relevant(k.list[e.at], k.host)
               /\ \A m \in i..Len(k.list) : m < e.at => ~ Relevant(k.list[m], k.host)
               /\ e.pc = "decided" <=> k.list[e.at].match.kind = "hosts"
<1> DEFINE j == NextRule(k.list, i, k.host)
           p == IF j = 0 \/ k.list[j].match.kind = "hosts" THEN "decided"
                ELSE IF k.list[j].match.kind = "geoip" THEN "scan" ELSE "stat"
<1>1. k.list \in Seq(Rule) /\ Len(k.list) \in Nat
  BY ListShape
<1>2. \/ j = 0 /\ \A m \in i..Len(k.list) : ~ Relevant(k.list[m], k.host)
      \/ /\ j \in i..Len(k.list) /\ j # 0 /\ Relevant(k.list[j], k.host)
         /\ \A m \in i..Len(k.list) : m < j => ~ Relevant(k.list[m], k.host)
  BY <1>1, NextRuleIs
<1>3. e = [k EXCEPT !.at = j, !.pc = p]
  BY DEF Enter
<1>4. p \in {"decided", "scan", "stat"} /\ j \in Nat
  BY <1>1, <1>2
<1> HIDE DEF j, p
<1>5. e.at = j /\ e.pc = p /\ e \in Connection /\ e = [k EXCEPT !.at = e.at, !.pc = e.pc]
  BY <1>3, <1>4 DEF Connection, Pc
<1>6. j = 0 => p = "decided"
  BY DEF p
<1>7. j # 0 => (p = "decided" <=> k.list[j].match.kind = "hosts")
  BY DEF p
<1> QED
  BY <1>2, <1>4, <1>5, <1>6, <1>7

LEMMA EnterTyped ==
  ASSUME NEW k \in Connection, NEW i \in Nat \ {0}, NEW e, e = Enter(k, i), Evaluating(e)
  PROVE  e.at \in DOMAIN e.list /\ e.list[e.at].match.kind # "hosts"
<1>1. /\ e = [k EXCEPT !.at = e.at, !.pc = e.pc]
      /\ e.at \in i..Len(k.list) /\ k.list[e.at].match.kind # "hosts"
  BY EnterIs DEF Evaluating
<1>2. e.list = k.list
  BY <1>1 DEF Connection
<1> QED
  BY <1>1, <1>2, ListShape

-----------------------------------------------------------------------------
(* Types.                                                                  *)
Typed(k) ==
  /\ k \in Connection
  /\ Evaluating(k) => k.at \in DOMAIN k.list /\ k.list[k.at].match.kind # "hosts"

(* A rule that reads a file has one, and the file and the cache hold what   *)
(* they should there.                                                       *)
LEMMA PathIs ==
  ASSUME TypeOK, NEW c \in Conn, Evaluating(conn[c])
  PROVE  /\ conn[c] \in Connection /\ conn[c].at \in Nat \ {0}
         /\ conn[c].list[conn[c].at] \in Rule
         /\ Path(conn[c]) \in File
         /\ file[Path(conn[c])] \in ListFile \cup {None}
         /\ cache[Path(conn[c])] \in ListFile \cup {None}
<1>1. conn[c] \in Connection
  BY DEF TypeOK
<1>2. conn[c].at \in DOMAIN conn[c].list /\ conn[c].list[conn[c].at].match.kind # "hosts"
  BY DEF TypeOK
<1>3. conn[c].list \in Seq(Rule) /\ DOMAIN conn[c].list = 1..Len(conn[c].list)
  BY <1>1, ListShape
<1>4. conn[c].list[conn[c].at] \in Rule /\ conn[c].at \in Nat \ {0}
  BY <1>2, <1>3
<1>5. Path(conn[c]) \in File
  BY <1>2, <1>4, RuleShape DEF Path
<1> QED
  BY <1>1, <1>4, <1>5 DEF TypeOK

LEMMA WalkTyped ==
  ASSUME NEW k \in Connection, NEW i \in Nat \ {0}
  PROVE  Typed(Enter(k, i))
<1> DEFINE e == Enter(k, i)
<1>1. e = Enter(k, i)
  OBVIOUS
<1> HIDE DEF e
<1>2. e \in Connection
  BY <1>1, EnterIs
<1>3. Evaluating(e) => e.at \in DOMAIN e.list /\ e.list[e.at].match.kind # "hosts"
  BY <1>1, EnterTyped
<1>4. Typed(e)
  BY <1>2, <1>3 DEF Typed
<1> QED
  BY <1>1, <1>4

LEMMA ResolveTyped ==
  ASSUME NEW k \in Connection, NEW matched
  PROVE  Typed(Resolve(k, matched))
<1>1. CASE matched
  BY <1>1 DEF Resolve, Typed, Connection, Pc, Evaluating
<1>2. CASE ~ matched
  <2>1. k.at + 1 \in Nat \ {0}
    BY DEF Connection
  <2>2. Resolve(k, matched) = Enter(k, k.at + 1)
    BY <1>2 DEF Resolve
  <2> QED
    BY <2>1, <2>2, WalkTyped
<1> QED
  BY <1>1, <1>2

(* The history of what matches is about the rules of a list.               *)
LEMMA HistoryTyped ==
  ASSUME TypeOK, RecordConns, conn' \in [Conn -> Connection]
  PROVE  always' \in [Conn -> SUBSET Nat] /\ ever' \in [Conn -> SUBSET Nat]
<1>1. \A c \in Conn : MatchingIn(conn'[c], file') \subseteq Nat
  <2>1. TAKE c \in Conn
  <2>2. DOMAIN conn'[c].list = 1..Len(conn'[c].list) /\ Len(conn'[c].list) \in Nat
    BY ListShape
  <2> QED
    BY <2>2 DEF MatchingIn
<1>2. ever \in [Conn -> SUBSET Nat]
  BY DEF TypeOK
<1> QED
  BY <1>1, <1>2 DEF RecordConns

LEMMA TypeKept ==
  ASSUME TypeOK, RecordConns, NEW c \in Conn, NEW k, Typed(k), conn' = [conn EXCEPT ![c] = k],
         rules' = rules, lists' = lists, cache' \in [File -> ListFile \cup {None}],
         tunnel' \in [Conn -> Tunnel]
  PROVE  TypeOK'
<1>1. conn' \in [Conn -> Connection]
  BY DEF TypeOK, Typed
<1>2. \A d \in Conn : Evaluating(conn'[d]) =>
        /\ conn'[d].at \in DOMAIN conn'[d].list
        /\ conn'[d].list[conn'[d].at].match.kind # "hosts"
  BY DEF TypeOK, Typed
<1>3. always' \in [Conn -> SUBSET Nat] /\ ever' \in [Conn -> SUBSET Nat]
  BY <1>1, HistoryTyped
<1> QED
  BY <1>1, <1>2, <1>3 DEF TypeOK, lists

LEMMA DecideTypes ==
  ASSUME TypeOK, RecordConns, NEW c \in Conn, DecideStep(c) \/ NetworkStep(c)
  PROVE  TypeOK'
<1>1. conn[c] \in Connection /\ tunnel \in [Conn -> Tunnel] /\ rules \in RuleList
      /\ cache \in [File -> ListFile \cup {None}]
  BY DEF TypeOK
<1>2. SUFFICES ASSUME NEW k, Typed(k), Handler(c, k), cache' \in [File -> ListFile \cup {None}]
               PROVE  TypeOK'
  <2>1. ASSUME NEW k, Typed(k), Handler(c, k), cache' = cache
        PROVE  TypeOK'
    BY <1>1, <1>2, <2>1
  <2>2. CASE BlockTorrent(c) \/ Drop(c) \/ DialByRule(c) \/ HandToBalancer(c)
    <3>1. PICK pc \in {"closed", "dialing", "balancer"}, way \in {conn[c].way, "rule"} :
            Handler(c, [Forget(conn[c]) EXCEPT !.pc = pc, !.way = way]) /\ cache' = cache
      <4>1. ASSUME NEW pc
            PROVE  [Forget(conn[c]) EXCEPT !.pc = pc]
                     = [Forget(conn[c]) EXCEPT !.pc = pc, !.way = conn[c].way]
        BY <1>1 DEF Forget, Connection
      <4>2. CASE BlockTorrent(c) \/ Drop(c)
        <5>1. Handler(c, [Forget(conn[c]) EXCEPT !.pc = "closed"]) /\ cache' = cache
          BY <4>2 DEF BlockTorrent, Drop
        <5> QED
          BY <5>1, <4>1
      <4>3. CASE DialByRule(c)
        BY <4>3 DEF DialByRule
      <4>4. CASE HandToBalancer(c)
        <5>1. Handler(c, [Forget(conn[c]) EXCEPT !.pc = "balancer"]) /\ cache' = cache
          BY <4>4 DEF HandToBalancer
        <5> QED
          BY <5>1, <4>1
      <4> QED
        BY <2>2, <4>2, <4>3, <4>4
    <3>2. Typed([Forget(conn[c]) EXCEPT !.pc = pc, !.way = way])
      BY <1>1 DEF Forget, Typed, Connection, Pc, Evaluating
    <3> QED
      BY <3>1, <3>2, <2>1
  <2>3. CASE Evaluate(c)
    <3> DEFINE k == [conn[c] EXCEPT !.list = rules]
    <3>1. k \in Connection
      BY <1>1 DEF Connection
    <3>2. Typed(Enter(k, 1))
      BY <3>1, WalkTyped
    <3> QED
      BY <2>1, <2>3, <3>2 DEF Evaluate
  <2>4. CASE ListStat(c)
    <3>1. Evaluating(conn[c])
      BY <2>4 DEF ListStat, At, Evaluating
    <3>2. CASE file[Path(conn[c])] = None
      BY <1>1, <2>1, <2>4, <3>2, ResolveTyped DEF ListStat
    <3>3. CASE file[Path(conn[c])] # None
      <4> DEFINE k == [conn[c] EXCEPT !.pc = "lookup", !.stamp = file[Path(conn[c])].stamp]
      <4>1. file[Path(conn[c])].stamp \in Nat
        BY <3>1, <3>3, PathIs DEF ListFile
      <4>2. Typed(k)
        BY <1>1, <3>1, <4>1 DEF Typed, TypeOK, Connection, Pc, Evaluating
      <4> QED
        BY <2>1, <2>4, <3>3, <4>2 DEF ListStat
    <3> QED
      BY <3>2, <3>3
  <2>5. CASE ListLookup(c)
    <3>1. Evaluating(conn[c])
      BY <2>5 DEF ListLookup, At, Evaluating
    <3> DEFINE e == cache[Path(conn[c])]
               matched == Lists(conn[c].list[conn[c].at].match, conn[c].host, e.hosts)
    <3>2. CASE e # None /\ e.stamp = conn[c].stamp
      <4>1. Handler(c, Resolve(conn[c], matched)) /\ cache' = cache
        BY <2>5, <3>2 DEF ListLookup
      <4> HIDE DEF matched
      <4> QED
        BY <1>1, <2>1, <4>1, ResolveTyped
    <3>3. CASE ~ (e # None /\ e.stamp = conn[c].stamp)
      <4>1. Handler(c, [conn[c] EXCEPT !.pc = "open"]) /\ cache' = cache
        BY <2>5, <3>3 DEF ListLookup
      <4>2. Typed([conn[c] EXCEPT !.pc = "open"])
        BY <1>1, <3>1 DEF Typed, TypeOK, Connection, Pc, Evaluating
      <4> QED
        BY <2>1, <4>1, <4>2
    <3> QED
      BY <3>2, <3>3
  <2>6. CASE ListOpen(c)
    <3>1. Evaluating(conn[c])
      BY <2>6 DEF ListOpen, At, Evaluating
    <3>2. CASE file[Path(conn[c])] = None
      BY <1>1, <2>1, <2>6, <3>2, ResolveTyped DEF ListOpen
    <3>3. CASE file[Path(conn[c])] # None
      <4> DEFINE k == [conn[c] EXCEPT !.pc = "store", !.hosts = file[Path(conn[c])].hosts]
      <4>1. file[Path(conn[c])].hosts \in SUBSET Host
        BY <3>1, <3>3, PathIs DEF ListFile
      <4>2. Typed(k)
        BY <1>1, <3>1, <4>1 DEF Typed, TypeOK, Connection, Pc, Evaluating
      <4> QED
        BY <2>1, <2>6, <3>3, <4>2 DEF ListOpen
    <3> QED
      BY <3>2, <3>3
  <2>7. CASE ListStore(c)
    <3>1. Evaluating(conn[c])
      BY <2>7 DEF ListStore, At, Evaluating
    <3> DEFINE matched == Lists(conn[c].list[conn[c].at].match, conn[c].host, conn[c].hosts)
               k == [conn[c] EXCEPT !.hosts = {}]
    <3>3. k \in Connection
      BY <1>1 DEF Connection
    <3>4. Handler(c, Resolve(k, matched))
      BY <2>7 DEF ListStore
    <3>5. [stamp |-> conn[c].stamp, hosts |-> conn[c].hosts] \in ListFile
      BY <1>1 DEF Connection, ListFile
    <3>6. cache' \in [File -> ListFile \cup {None}]
      BY <1>1, <2>7, <3>5 DEF ListStore
    <3> HIDE DEF matched, k
    <3> QED
      BY <1>2, <3>3, <3>4, <3>6, ResolveTyped
  <2>8. CASE GeoipScan(c)
    <3>1. Evaluating(conn[c])
      BY <2>8 DEF GeoipScan, At, Evaluating
    <3> DEFINE matched == Matches(conn[c].list[conn[c].at].match, conn[c].host, file)
    <3>3. Handler(c, Resolve(conn[c], matched)) /\ cache' = cache
      BY <2>8 DEF GeoipScan
    <3> HIDE DEF matched
    <3> QED
      BY <1>1, <2>1, <3>3, ResolveTyped
  <2>9. CASE Refuse(c) \/ FallBack(c) \/ NetworkStep(c)
    <3>1. PICK pc \in {"connected", "fallback", "closed", "dialing"},
               way \in {conn[c].way, "endpoint", "refused", "fallback"},
               flow \in {conn[c].flow, "open"} :
            Handler(c, [conn[c] EXCEPT !.pc = pc, !.way = way, !.flow = flow]) /\ cache' = cache
      <4>1. conn[c] = [conn[c] EXCEPT !.way = conn[c].way]
            /\ conn[c] = [conn[c] EXCEPT !.flow = conn[c].flow]
        BY <1>1 DEF Connection
      <4>2. ASSUME NEW pc
            PROVE  /\ [conn[c] EXCEPT !.pc = pc]
                       = [conn[c] EXCEPT !.pc = pc, !.way = conn[c].way, !.flow = conn[c].flow]
                   /\ \A way : [conn[c] EXCEPT !.pc = pc, !.way = way]
                       = [conn[c] EXCEPT !.pc = pc, !.way = way, !.flow = conn[c].flow]
                   /\ \A flow : [conn[c] EXCEPT !.pc = pc, !.flow = flow]
                       = [conn[c] EXCEPT !.pc = pc, !.way = conn[c].way, !.flow = flow]
        BY <1>1 DEF Connection
      <4>3. CASE Refuse(c)
        BY <4>3 DEF Refuse
      <4>4. CASE FallBack(c)
        <5>1. Handler(c, [conn[c] EXCEPT !.pc = "dialing", !.way = "fallback"]) /\ cache' = cache
          BY <4>4 DEF FallBack
        <5> QED
          BY <5>1, <4>2
      <4>5. CASE DialEndpoint(c)
        BY <4>5 DEF DialEndpoint
      <4>6. CASE AllEndpointsFail(c)
        <5>1. Handler(c, [conn[c] EXCEPT !.pc = "fallback"]) /\ cache' = cache
          BY <4>6 DEF AllEndpointsFail
        <5> QED
          BY <5>1, <4>2
      <4>7. CASE DialAnswered(c)
        <5>1. PICK flow \in {conn[c].flow, "open"} :
                Handler(c, [conn[c] EXCEPT !.pc = "connected", !.flow = flow]) /\ cache' = cache
          BY <4>7 DEF DialAnswered
        <5> QED
          BY <5>1, <4>2
      <4>8. CASE DialFailed(c)
        <5>1. Handler(c, [conn[c] EXCEPT !.pc = "closed"]) /\ cache' = cache
          BY <4>8 DEF DialFailed
        <5> QED
          BY <5>1, <4>2
      <4> QED
        BY <2>9, <4>3, <4>4, <4>5, <4>6, <4>7, <4>8 DEF NetworkStep
    <3>2. Typed([conn[c] EXCEPT !.pc = pc, !.way = way, !.flow = flow])
      <4> DEFINE k == [conn[c] EXCEPT !.pc = pc, !.way = way, !.flow = flow]
      <4>1. /\ pc \in Pc /\ ~ pc \in {"scan", "stat", "lookup", "open", "store"}
            /\ conn[c].way \in {"none", "rule", "endpoint", "fallback", "refused"}
            /\ conn[c].flow \in {"none", "open", "ended"}
        BY <1>1 DEF Pc, Connection
      <4>2. way \in {"none", "rule", "endpoint", "fallback", "refused"}
        BY <4>1
      <4>3. flow \in {"none", "open", "ended"}
        BY <4>1
      <4>4. k \in Connection
        BY <1>1, <4>1, <4>2, <4>3 DEF Connection
      <4>5. k.pc = pc
        BY <1>1 DEF Connection
      <4> HIDE DEF k
      <4>6. Typed(k)
        BY <4>1, <4>4, <4>5 DEF Typed, Evaluating
      <4> QED
        BY <4>6 DEF k
    <3> QED
      BY <3>1, <3>2, <2>1
  <2> QED
    BY <2>2, <2>3, <2>4, <2>5, <2>6, <2>7, <2>8, <2>9 DEF DecideStep
<1>3. conn' = [conn EXCEPT ![c] = k] /\ rules' = rules /\ lists' = lists /\ tunnel' = tunnel
  BY <1>2 DEF Handler, lists
<1> QED
  BY <1>1, <1>2, <1>3, TypeKept

(* A step of a copier moves the tunnel and nothing else.                   *)
LEMMA CopyStepIs ==
  ASSUME TypeOK, NEW c \in Conn, NEW dir \in Dir, CopyStep(c, dir) \/ EndStep(c, dir)
  PROVE  \E t \in Tunnel : TunnelStep(c, conn[c], t)
<1>1. tunnel[c] \in Tunnel
  BY DEF TypeOK
<1>2. ASSUME NEW step \in Copying, Copier(c, dir, step)
      PROVE  \E t \in Tunnel : TunnelStep(c, conn[c], t)
  <2>1. [tunnel[c] EXCEPT ![dir] = step] \in Tunnel
    BY <1>1 DEF Tunnel, Dir
  <2> QED
    BY <1>2, <2>1 DEF Copier
<1>3. CASE CopySends(c, dir)
  <2>1. tunnel[c].done + 1 \in 0..2
    <3>1. tunnel[c].done < 2
      BY <1>3 DEF CopySends
    <3>2. tunnel[c].done \in 0..2
      BY <1>1 DEF Tunnel
    <3> QED
      BY <3>1, <3>2
  <2>2. ASSUME NEW n \in 0..2
        PROVE  [[tunnel[c] EXCEPT ![dir] = "off"] EXCEPT !.done = n] \in Tunnel
    BY <1>1 DEF Tunnel, Copying, Dir
  <2>3. [tunnel[c] EXCEPT ![dir] = "off", !.done = @ + 1]
          = [[tunnel[c] EXCEPT ![dir] = "off"] EXCEPT !.done = tunnel[c].done + 1]
    BY <1>1 DEF Tunnel, Dir
  <2>4. [tunnel[c] EXCEPT ![dir] = "off", !.done = @ + 1] \in Tunnel
    BY <2>1, <2>2, <2>3
  <2> QED
    BY <1>3, <2>4 DEF CopySends
<1>4. CASE CopyIntoVoid(c, dir) \/ CopyEnds(c, dir) \/ EndStep(c, dir)
  BY <1>2, <1>4 DEF CopyIntoVoid, CopyEnds, EndStep, SourceSends, SinkTakes, Copying
<1> QED
  BY <1>3, <1>4 DEF CopyStep

LEMMA UnwindTypes ==
  ASSUME TypeOK, RecordConns, NEW c \in Conn,
         \/ UnwindStep(c) \/ LibraryCloses(c)
         \/ \E end \in {"client", "target"} : EndLeaves(c, end)
         \/ \E dir \in Dir : EndStep(c, dir)
  PROVE  TypeOK'
<1>1. conn[c] \in Connection /\ tunnel \in [Conn -> Tunnel] /\ tunnel[c] \in Tunnel
      /\ cache \in [File -> ListFile \cup {None}] /\ Typed(conn[c])
  BY DEF TypeOK, Typed
<1>2. ASSUME NEW k, Typed(k), NEW t, t \in Tunnel, TunnelStep(c, k, t)
      PROVE  TypeOK'
  <2>1. conn' = [conn EXCEPT ![c] = k] /\ rules' = rules /\ lists' = lists /\ cache' = cache
        /\ tunnel' \in [Conn -> Tunnel]
    BY <1>1, <1>2 DEF TunnelStep, lists
  <2> QED
    BY <1>1, <1>2, <2>1, TypeKept
<1>3. ASSUME NEW pc \in {"tunnel", "closed", "closeClient", "closeTarget"},
             NEW flow, flow \in {conn[c].flow, FlowAtClose(conn[c])}
      PROVE  /\ Typed([conn[c] EXCEPT !.pc = pc])
             /\ Typed([conn[c] EXCEPT !.pc = pc, !.flow = flow])
  <2>1. flow \in {"none", "open", "ended"}
    BY <1>1, <1>3 DEF FlowAtClose, Connection
  <2> QED
    BY <1>1, <2>1 DEF Typed, Connection, Pc, Evaluating
<1>4. CASE Hijack(c)
  <2>1. [tunnel[c] EXCEPT !.up = "reads", !.down = "reads"] \in Tunnel
    BY <1>1 DEF Tunnel, Copying
  <2> QED
    BY <1>2, <1>3, <1>4, <2>1 DEF Hijack
<1>5. CASE HijackFails(c) \/ LibraryCloses(c)
  BY <1>1, <1>2, <1>3, <1>5 DEF HijackFails, LibraryCloses
<1>6. ASSUME NEW dir \in Dir, CopyStep(c, dir) \/ EndStep(c, dir)
      PROVE  TypeOK'
  BY <1>1, <1>2, <1>6, CopyStepIs
<1>7. CASE TunnelReturns(c)
  <2>1. [tunnel[c] EXCEPT !.done = @ - 1] \in Tunnel
    BY <1>1, <1>7 DEF Tunnel, TunnelReturns
  <2> QED
    BY <1>2, <1>3, <1>7, <2>1 DEF TunnelReturns
<1>8. CASE CloseClient(c)
  <2>1. [tunnel[c] EXCEPT !.client = "gone"] \in Tunnel
    BY <1>1 DEF Tunnel
  <2> QED
    BY <1>2, <1>3, <1>8, <2>1 DEF CloseClient
<1>9. CASE CloseTarget(c)
  <2>1. [tunnel[c] EXCEPT !.target = "gone"] \in Tunnel
    BY <1>1 DEF Tunnel
  <2> QED
    BY <1>2, <1>3, <1>9, <2>1 DEF CloseTarget
<1>10. ASSUME NEW end \in {"client", "target"}, EndLeaves(c, end)
       PROVE  TypeOK'
  <2>1. [tunnel[c] EXCEPT ![end] = "gone"] \in Tunnel
    BY <1>1 DEF Tunnel
  <2> QED
    BY <1>1, <1>2, <1>10, <2>1 DEF EndLeaves
<1> QED
  BY <1>4, <1>5, <1>6, <1>7, <1>8, <1>9, <1>10 DEF UnwindStep

(* Connections arrive at what some rule may have to say about them.         *)
LEMMA ArriveTypes ==
  ASSUME TypeOK, RecordConns, NEW c \in Conn, NEW listener \in {"http", "socks5"},
         NEW h \in Host, Arrive(c, listener, h)
  PROVE  TypeOK'
<1> DEFINE k == [conn[c] EXCEPT !.pc = "match", !.listener = listener, !.host = Seen(listener, h)]
<1>1. Seen(listener, h) \in Host
  BY AddressAssumption DEF Seen
<1>2. Typed(k)
  <2>1. conn[c] \in Connection /\ k \in Connection
    <3>1. conn[c] \in Connection
      BY DEF TypeOK
    <3>2. \A g \in Host : [conn[c] EXCEPT !.pc = "match", !.listener = listener, !.host = g]
                            \in Connection
      BY <3>1 DEF Connection, Pc
    <3> QED
      BY <1>1, <3>1, <3>2
  <2>2. k.pc = "match"
    BY <2>1 DEF Connection
  <2> QED
    BY <2>1, <2>2 DEF Typed, Evaluating
<1>3. conn' = [conn EXCEPT ![c] = k] /\ rules' = rules /\ lists' = lists /\ tunnel' = tunnel
      /\ cache' = cache
  BY DEF Arrive, Handler, lists
<1>4. cache \in [File -> ListFile \cup {None}] /\ tunnel \in [Conn -> Tunnel]
  BY DEF TypeOK
<1> QED
  BY <1>2, <1>3, <1>4, TypeKept

LEMMA EditTypes ==
  ASSUME TypeOK, RecordConns,
         \/ \E list \in RuleList : SetRules(list)
         \/ \E f \in File, hosts \in Content : EditList(f, hosts)
         \/ \E f \in File : RemoveList(f)
  PROVE  TypeOK'
<1>1. conn' = conn /\ tunnel' = tunnel /\ cache' = cache
  BY DEF SetRules, EditList, RemoveList
<1>2. rules' \in RuleList
  BY DEF TypeOK, SetRules, EditList, RemoveList
<1>3. clock' \in Nat
  BY DEF TypeOK, SetRules, EditList, RemoveList, lists
<1>4. file' \in [File -> ListFile \cup {None}]
  <2>1. ASSUME NEW f \in File, NEW hosts \in Content, EditList(f, hosts)
        PROVE  file' \in [File -> ListFile \cup {None}]
    <3>1. [stamp |-> clock + 1, hosts |-> hosts] \in ListFile
      BY ContentAssumption DEF TypeOK, ListFile
    <3> QED
      BY <2>1, <3>1 DEF EditList, TypeOK
  <2> QED
    BY <2>1 DEF TypeOK, SetRules, RemoveList, lists
<1>5. conn' \in [Conn -> Connection]
  BY <1>1 DEF TypeOK
<1>6. always' \in [Conn -> SUBSET Nat] /\ ever' \in [Conn -> SUBSET Nat]
  BY <1>5, HistoryTyped
<1> QED
  BY <1>1, <1>2, <1>3, <1>4, <1>5, <1>6 DEF TypeOK

LEMMA FreshIs ==
  Init => \A c \in Conn : conn[c].pc = "idle" /\ conn[c].flow = "none"
<1>1. Init => conn = [c \in Conn |-> Fresh]
  BY DEF Init
<1>2. Fresh.pc = "idle" /\ Fresh.flow = "none"
  BY DEF Fresh
<1> QED
  BY <1>1, <1>2

LEMMA InitTypes ==
  ASSUME Init
  PROVE  TypeOK
<1>1. Fresh \in Connection
  BY DEF Fresh, Connection, Pc
<1>2. Still \in Tunnel
  BY DEF Still, Tunnel, Copying
<1>3. file \in [File -> ListFile \cup {None}]
  BY ContentAssumption DEF Init, ListFile
<1>4. \A c \in Conn : conn[c] = Fresh /\ ~ Evaluating(conn[c])
  BY DEF Init, Fresh, Evaluating
<1> QED
  BY <1>1, <1>2, <1>3, <1>4 DEF Init, TypeOK

LEMMA TypeStep ==
  ASSUME TypeOK, [Next]_vars
  PROVE  TypeOK'
<1>1. CASE Next
  <2>1. RecordConns
    BY <1>1 DEF Next
  <2> QED
    BY <1>1, <2>1, DecideTypes, UnwindTypes, ArriveTypes, EditTypes DEF Next, OutsideStep
<1>2. CASE UNCHANGED vars
  BY <1>2 DEF TypeOK, vars, lists, Evaluating
<1> QED
  BY <1>1, <1>2

(* A handler that looks at a rule looks at one of its list that names a     *)
(* file, and every other variable has its type.                             *)
THEOREM TypeCorrect == Spec => []TypeOK
BY InitTypes, TypeStep, PTL DEF Spec

-----------------------------------------------------------------------------
(* What the steps of a handler come to.                                    *)
InList(k) == Evaluating(k) \/ k.pc = "decided"
WalkStep(c) ==
  Evaluate(c) \/ ListStat(c) \/ ListLookup(c) \/ ListOpen(c) \/ ListStore(c) \/ GeoipScan(c)
OtherStep(c) ==
  \E k : /\ k = conn[c] \/ ~ InList(k)
         /\ conn' = [conn EXCEPT ![c] = k]
         /\ lists' = lists /\ cache' = cache

LEMMA StepIs ==
  ASSUME TypeOK, NEW c \in Conn,
         \/ DecideStep(c) \/ NetworkStep(c) \/ UnwindStep(c) \/ LibraryCloses(c)
         \/ \E end \in {"client", "target"} : EndLeaves(c, end)
         \/ \E dir \in Dir : EndStep(c, dir)
         \/ \E listener \in {"http", "socks5"}, h \in Host : Arrive(c, listener, h)
  PROVE  WalkStep(c) \/ OtherStep(c)
<1>1. conn[c] \in Connection
  BY DEF TypeOK
<1>2. ASSUME NEW k, Handler(c, k), cache' = cache, k = conn[c] \/ ~ InList(k)
      PROVE  OtherStep(c)
  BY <1>2 DEF Handler, OtherStep, lists
<1>3. ASSUME NEW k, NEW t, TunnelStep(c, k, t), k = conn[c] \/ ~ InList(k)
      PROVE  OtherStep(c)
  BY <1>3 DEF TunnelStep, OtherStep, lists
<1>4. ASSUME BlockTorrent(c) \/ Drop(c) \/ DialByRule(c) \/ HandToBalancer(c)
      PROVE  OtherStep(c)
  BY <1>1, <1>2, <1>4
  DEF BlockTorrent, Drop, DialByRule, HandToBalancer, Forget, InList, Evaluating, Connection
<1>5. ASSUME Refuse(c) \/ FallBack(c) \/ NetworkStep(c)
      PROVE  OtherStep(c)
  <2>1. CASE Refuse(c) \/ FallBack(c)
    BY <1>1, <1>2, <2>1 DEF Refuse, FallBack, InList, Evaluating, Connection
  <2>2. CASE DialEndpoint(c) \/ AllEndpointsFail(c) \/ DialFailed(c)
    BY <1>1, <1>2, <2>2 DEF DialEndpoint, AllEndpointsFail, DialFailed, InList, Evaluating, Connection
  <2>3. CASE DialAnswered(c)
    <3>1. PICK flow : Handler(c, [conn[c] EXCEPT !.pc = "connected", !.flow = flow])
                      /\ cache' = cache
      BY <2>3 DEF DialAnswered
    <3>2. ~ InList([conn[c] EXCEPT !.pc = "connected", !.flow = flow])
      BY <1>1 DEF InList, Evaluating, Connection
    <3> QED
      BY <1>2, <3>1, <3>2
  <2> QED
    BY <1>5, <2>1, <2>2, <2>3 DEF NetworkStep
<1>6. ASSUME NEW pc \in {"tunnel", "closed", "closeClient", "closeTarget"}, NEW flow
      PROVE  /\ ~ InList([conn[c] EXCEPT !.pc = pc])
             /\ ~ InList([conn[c] EXCEPT !.pc = pc, !.flow = flow])
  BY <1>1 DEF InList, Evaluating, Connection
<1>7. ASSUME \/ UnwindStep(c) \/ LibraryCloses(c)
             \/ \E dir \in Dir : EndStep(c, dir)
      PROVE  OtherStep(c)
  <2>1. CASE \E dir \in Dir : CopyStep(c, dir) \/ EndStep(c, dir)
    BY <1>3, <2>1, CopyStepIs
  <2>2. CASE Hijack(c) \/ TunnelReturns(c) \/ CloseClient(c)
    BY <1>3, <1>6, <2>2 DEF Hijack, TunnelReturns, CloseClient
  <2>3. CASE HijackFails(c) \/ CloseTarget(c) \/ LibraryCloses(c)
    BY <1>3, <1>6, <2>3 DEF HijackFails, CloseTarget, LibraryCloses
  <2> QED
    BY <1>7, <2>1, <2>2, <2>3 DEF UnwindStep
<1>8. ASSUME NEW end \in {"client", "target"}, EndLeaves(c, end)
      PROVE  OtherStep(c)
  BY <1>3, <1>8 DEF EndLeaves
<1>9. ASSUME NEW listener \in {"http", "socks5"}, NEW h \in Host, Arrive(c, listener, h)
      PROVE  OtherStep(c)
  <2>1. PICK g : Handler(c, [conn[c] EXCEPT !.pc = "match", !.listener = listener, !.host = g])
                 /\ cache' = cache
    BY <1>9 DEF Arrive
  <2>2. ~ InList([conn[c] EXCEPT !.pc = "match", !.listener = listener, !.host = g])
    BY <1>1 DEF InList, Evaluating, Connection
  <2> QED
    BY <1>2, <2>1, <2>2
<1> QED
  BY <1>4, <1>5, <1>7, <1>8, <1>9 DEF DecideStep, WalkStep

LEMMA ResolveIs ==
  ASSUME NEW k \in Connection, NEW matched
  PROVE  Resolve(k, matched).pc \in {"decided", "scan", "stat"}
<1>1. CASE matched
  BY <1>1 DEF Resolve, Connection
<1>2. CASE ~ matched
  <2>1. k.at + 1 \in Nat \ {0} /\ Resolve(k, matched) = Enter(k, k.at + 1)
    BY <1>2 DEF Resolve, Connection
  <2> QED
    BY <2>1, EnterIs
<1> QED
  BY <1>1, <1>2

-----------------------------------------------------------------------------
(* The cache.  Times only grow, and no list is known by a time that is yet *)
(* to come; a handler that has read a list since it saw the time that the  *)
(* file has now has read what is in it.                                    *)
Loading(k) == k.pc \in {"lookup", "open", "store"}

StampInv ==
  /\ \A f \in File : /\ file[f] # None => file[f].stamp <= clock
                     /\ cache[f] # None => cache[f].stamp <= clock
  /\ \A c \in Conn : Loading(conn[c]) => conn[c].stamp <= clock

ReadNow(k) ==
  /\ Loading(k) => k.stamp <= clock
  /\ k.pc = "store" /\ file[Path(k)] # None /\ file[Path(k)].stamp = k.stamp
       => file[Path(k)].hosts = k.hosts
LoadInv == \A c \in Conn : ReadNow(conn[c])

CacheInv == StampInv /\ LoadInv /\ ListCacheTrue

LEMMA CacheKept ==
  ASSUME TypeOK, CacheInv, NEW c \in Conn, NEW k, ReadNow(k),
         conn' = [conn EXCEPT ![c] = k], lists' = lists, cache' = cache
  PROVE  CacheInv'
<1>1. file' = file /\ clock' = clock
  BY DEF lists
<1>2. \A d \in Conn : conn'[d] = IF d = c THEN k ELSE conn[d]
  BY DEF TypeOK
<1>3. \A d \in Conn : ReadNow(conn'[d])
  BY <1>2 DEF CacheInv, LoadInv
<1>4. LoadInv'
  BY <1>1, <1>3 DEF LoadInv, ReadNow, Path, Loading
<1>5. StampInv'
  BY <1>1, <1>3 DEF CacheInv, StampInv, ReadNow
<1> QED
  BY <1>1, <1>4, <1>5 DEF CacheInv, ListCacheTrue

LEMMA WalkCache ==
  ASSUME TypeOK, CacheInv, NEW c \in Conn, WalkStep(c)
  PROVE  CacheInv'
<1>1. conn[c] \in Connection /\ rules \in RuleList
  BY DEF TypeOK
<1>2. ASSUME NEW k, Handler(c, k), ReadNow(k), cache' = cache
      PROVE  CacheInv'
  BY <1>2, CacheKept DEF Handler, lists
<1>3. ASSUME NEW k \in Connection, NEW matched
      PROVE  ReadNow(Resolve(k, matched)) /\ ReadNow(Enter(k, 1))
  <2>1. Resolve(k, matched).pc \in {"decided", "scan", "stat"}
    BY ResolveIs
  <2>2. Enter(k, 1).pc \in {"decided", "scan", "stat"}
    <3>1. 1 \in Nat \ {0}
      OBVIOUS
    <3> QED
      BY <3>1, EnterIs
  <2> QED
    BY <2>1, <2>2 DEF ReadNow, Loading
<1>4. CASE Evaluate(c)
  <2>1. [conn[c] EXCEPT !.list = rules] \in Connection
    BY <1>1 DEF Connection
  <2> QED
    BY <1>2, <1>3, <1>4, <2>1 DEF Evaluate
<1>5. CASE ListStat(c)
  <2>1. CASE file[Path(conn[c])] = None
    BY <1>1, <1>2, <1>3, <1>5, <2>1 DEF ListStat
  <2>2. CASE file[Path(conn[c])] # None
    <3>1. Path(conn[c]) \in File
      BY <1>5, PathIs DEF ListStat, At, Evaluating
    <3>2. file[Path(conn[c])].stamp <= clock
      BY <2>2, <3>1 DEF CacheInv, StampInv
    <3>3. ReadNow([conn[c] EXCEPT !.pc = "lookup", !.stamp = file[Path(conn[c])].stamp])
      BY <1>1, <3>2 DEF ReadNow, Loading, Connection
    <3> QED
      BY <1>2, <1>5, <2>2, <3>3 DEF ListStat
  <2> QED
    BY <2>1, <2>2
<1>6. CASE ListLookup(c)
  <2>1. ReadNow([conn[c] EXCEPT !.pc = "open"])
    BY <1>1, <1>6 DEF ListLookup, At, CacheInv, StampInv, ReadNow, Loading, Connection
  <2>2. \/ \E matched : Handler(c, Resolve(conn[c], matched)) /\ cache' = cache
        \/ Handler(c, [conn[c] EXCEPT !.pc = "open"]) /\ cache' = cache
    BY <1>6, Zenon DEF ListLookup
  <2> QED
    BY <1>1, <1>2, <1>3, <2>1, <2>2
<1>7. CASE ListOpen(c)
  <2>1. CASE file[Path(conn[c])] = None
    BY <1>1, <1>2, <1>3, <1>7, <2>1 DEF ListOpen
  <2>2. CASE file[Path(conn[c])] # None
    <3> DEFINE k == [conn[c] EXCEPT !.pc = "store", !.hosts = file[Path(conn[c])].hosts]
    <3>1. conn[c].stamp <= clock
      BY <1>7 DEF ListOpen, At, CacheInv, StampInv, Loading
    <3>2. Path(k) = Path(conn[c]) /\ k.stamp = conn[c].stamp
          /\ k.hosts = file[Path(conn[c])].hosts
      BY <1>1 DEF Path, Connection
    <3>3. ReadNow(k)
      BY <3>1, <3>2 DEF ReadNow
    <3> QED
      BY <1>2, <1>7, <2>2, <3>3 DEF ListOpen
  <2> QED
    BY <2>1, <2>2
<1>8. CASE ListStore(c)
  <2> DEFINE f == Path(conn[c])
             e == [stamp |-> conn[c].stamp, hosts |-> conn[c].hosts]
             matched == Lists(conn[c].list[conn[c].at].match, conn[c].host, conn[c].hosts)
             k == Resolve([conn[c] EXCEPT !.hosts = {}], matched)
  <2>1. conn' = [conn EXCEPT ![c] = k] /\ cache' = [cache EXCEPT ![f] = e]
        /\ file' = file /\ clock' = clock
    BY <1>8 DEF ListStore, Handler, lists
  <2>2. ReadNow(k)
    <3>1. [conn[c] EXCEPT !.hosts = {}] \in Connection
      BY <1>1 DEF Connection
    <3> HIDE DEF matched
    <3> QED
      BY <1>3, <3>1
  <2>3. f \in File /\ ReadNow(conn[c]) /\ conn[c].pc = "store"
    BY <1>8, PathIs DEF ListStore, At, Evaluating, CacheInv, LoadInv
  <2> HIDE DEF k
  <2>4. \A d \in Conn : ReadNow(conn'[d])
    BY <2>1, <2>2 DEF TypeOK, CacheInv, LoadInv
  <2>5. LoadInv'
    BY <2>1, <2>4 DEF LoadInv, ReadNow, Path, Loading
  <2>6. StampInv'
    BY <2>1, <2>3, <2>4 DEF TypeOK, CacheInv, StampInv, ReadNow, Loading
  <2>7. ListCacheTrue'
    BY <2>1, <2>3 DEF TypeOK, CacheInv, ListCacheTrue, ReadNow
  <2> QED
    BY <2>5, <2>6, <2>7 DEF CacheInv
<1>9. CASE GeoipScan(c)
  BY <1>1, <1>2, <1>3, <1>9, Zenon DEF GeoipScan
<1> QED
  BY <1>4, <1>5, <1>6, <1>7, <1>8, <1>9 DEF WalkStep

LEMMA CacheStep ==
  ASSUME TypeOK, CacheInv, [Next]_vars
  PROVE  CacheInv'
<1>1. ASSUME NEW c \in Conn, WalkStep(c) \/ OtherStep(c)
      PROVE  CacheInv'
  <2>1. CASE WalkStep(c)
    BY <2>1, WalkCache
  <2>2. CASE OtherStep(c)
    <3>1. PICK k : /\ k = conn[c] \/ ~ InList(k)
                   /\ conn' = [conn EXCEPT ![c] = k]
                   /\ lists' = lists /\ cache' = cache
      BY <2>2 DEF OtherStep
    <3>2. ReadNow(k)
      BY <3>1 DEF InList, Evaluating, ReadNow, Loading, CacheInv, LoadInv
    <3> QED
      BY <3>1, <3>2, CacheKept
  <2> QED
    BY <1>1, <2>1, <2>2
<1>2. ASSUME NEW list, SetRules(list)
      PROVE  CacheInv'
  BY <1>2 DEF SetRules, lists, CacheInv, StampInv, LoadInv, ReadNow, ListCacheTrue, Path, Loading
<1>3. ASSUME conn' = conn, cache' = cache, clock \in Nat, clock' = clock + 1,
             NEW f \in File, NEW e, file' = [file EXCEPT ![f] = e],
             e # None => e.stamp = clock + 1
      PROVE  CacheInv'
  <2>1. /\ \A c \in Conn : Loading(conn[c]) => conn[c].stamp \in Nat /\ conn[c].stamp <= clock
        /\ \A g \in File : /\ cache[g] # None => cache[g].stamp \in Nat /\ cache[g].stamp <= clock
                           /\ file[g] # None => file[g].stamp \in Nat /\ file[g].stamp <= clock
    BY DEF TypeOK, CacheInv, StampInv, Connection, ListFile
  <2>2. \A g \in File : file'[g] = IF g = f THEN e ELSE file[g]
    BY <1>3 DEF TypeOK
  <2>3. StampInv'
    BY <1>3, <2>1, <2>2 DEF StampInv, Loading
  <2>4. ListCacheTrue'
    BY <1>3, <2>1, <2>2 DEF CacheInv, ListCacheTrue
  <2>5. ASSUME NEW c \in Conn
        PROVE  ReadNow(conn[c])'
    <3>1. Loading(conn[c]) => conn[c].stamp <= clock'
      BY <1>3, <2>1 DEF TypeOK, Connection
    <3>2. conn[c].pc = "store" => Path(conn[c]) \in File
      BY PathIs DEF Evaluating
    <3>3. ReadNow(conn[c])
      BY DEF CacheInv, LoadInv
    <3>4. conn[c].pc = "store" => conn[c].stamp \in Nat /\ conn[c].stamp <= clock
      BY <2>1 DEF Loading
    <3> QED
      BY <1>3, <2>2, <3>1, <3>2, <3>3, <3>4 DEF ReadNow, Path, Loading
  <2> QED
    BY <1>3, <2>3, <2>4, <2>5 DEF CacheInv, LoadInv
<1>4. ASSUME NEW f \in File, NEW hosts \in Content, EditList(f, hosts)
      PROVE  CacheInv'
  BY <1>3, <1>4 DEF EditList, TypeOK
<1>5. ASSUME NEW f \in File, RemoveList(f)
      PROVE  CacheInv'
  BY <1>3, <1>5 DEF RemoveList, TypeOK
<1>6. CASE UNCHANGED vars
  BY <1>6 DEF vars, lists, CacheInv, StampInv, LoadInv, ReadNow, ListCacheTrue, Path, Loading
<1> QED
  BY <1>1, <1>2, <1>4, <1>5, <1>6, StepIs DEF Next, OutsideStep

(* A cached list that has the time of the file is the list in the file,    *)
(* whatever handlers load and whoever edits in between: loadList takes the *)
(* time before it reads, so what it stores under a time is at least as new.*)
THEOREM CacheTrue == Spec => []ListCacheTrue
<1>1. Init => CacheInv
  BY DEF Init, CacheInv, StampInv, LoadInv, ReadNow, ListCacheTrue, Loading, Fresh
<1>2. TypeOK /\ CacheInv /\ [Next]_vars => CacheInv'
  BY CacheStep
<1>3. CacheInv => ListCacheTrue
  BY DEF CacheInv
<1> QED
  BY <1>1, <1>2, <1>3, TypeCorrect, PTL DEF Spec

-----------------------------------------------------------------------------
(* The verdict.  History keeps what is the case now; no rule before the    *)
(* one that is looked at matched all the time; and what a list that holds  *)
(* H would say of it is no news to history.                                *)
Judged(c) ==
  LET k == conn[c] IN
  InList(k) => /\ MatchingIn(k, file) \subseteq ever[c]
               /\ always[c] \subseteq MatchingIn(k, file)
               /\ \A j \in always[c] : k.at # 0 /\ k.at <= j
               /\ Evaluating(k) => Relevant(k.list[k.at], k.host)
               /\ k.pc = "decided" /\ k.at # 0 => k.at \in ever[c]

Says(k, A, E, H) == IF Lists(k.list[k.at].match, k.host, H) THEN k.at \in E ELSE k.at \notin A
Sound(c, H) == Says(conn[c], always[c], ever[c], H)
SoundAfter(c, H) == Says(conn'[c], always'[c], ever'[c], H)

(* A handler between its stat and its lookup may find any list that is     *)
(* cached, or about to be, under the time it has seen.                     *)
MayFind(c) ==
  LET f == Path(conn[c]) IN
  /\ cache[f] # None /\ cache[f].stamp = conn[c].stamp => Sound(c, cache[f].hosts)
  /\ \A d \in Conn : At(d, "store") /\ Path(conn[d]) = f /\ conn[d].stamp = conn[c].stamp
       => Sound(c, conn[d].hosts)
Verdict(c) ==
  /\ At(c, "lookup") => MayFind(c)
  /\ At(c, "store") => Sound(c, conn[c].hosts)

JudgeInv == \A c \in Conn : Judged(c) /\ Verdict(c)

LEMMA EnterJudged ==
  ASSUME NEW k \in Connection, NEW i \in Nat \ {0}, NEW e, e = Enter(k, i), NEW files,
         NEW A, A \subseteq MatchingIn(e, files), \A j \in A : i <= j,
         NEW E, MatchingIn(e, files) \subseteq E
  PROVE  /\ \A j \in A : e.at # 0 /\ e.at <= j
         /\ Evaluating(e) => Relevant(e.list[e.at], e.host)
         /\ e.pc = "decided" /\ e.at # 0 => e.at \in E
<1>1. /\ e \in Connection /\ e = [k EXCEPT !.at = e.at, !.pc = e.pc]
      /\ e.pc \in {"decided", "scan", "stat"}
      /\ \/ /\ e.at = 0 /\ e.pc = "decided"
            /\ \A m \in i..Len(k.list) : ~ Relevant(k.list[m], k.host)
         \/ /\ e.at \in i..Len(k.list) /\ e.at # 0 /\ Relevant(k.list[e.at], k.host)
            /\ \A m \in i..Len(k.list) : m < e.at => ~ Relevant(k.list[m], k.host)
            /\ e.pc = "decided" <=> k.list[e.at].match.kind = "hosts"
  BY EnterIs
<1>2. e.list = k.list /\ e.host = k.host
  BY <1>1 DEF Connection
<1>3. k.list \in Seq(Rule) /\ DOMAIN k.list = 1..Len(k.list) /\ Len(k.list) \in Nat
  BY ListShape
<1>4. ASSUME NEW j \in A
      PROVE  j \in i..Len(k.list) /\ Relevant(k.list[j], k.host)
  <2>1. j \in DOMAIN k.list /\ k.list[j].enabled /\ Matches(k.list[j].match, k.host, files)
    BY <1>2 DEF MatchingIn
  <2>2. k.list[j] \in Rule
    BY <1>3, <2>1
  <2>3. Relevant(k.list[j], k.host)
    BY <2>1, <2>2, IrrelevantNoMatch
  <2>4. i <= j
    OBVIOUS
  <2> QED
    BY <1>3, <2>1, <2>3, <2>4
<1>5. \A j \in A : e.at # 0 /\ e.at <= j
  BY <1>1, <1>3, <1>4
<1>6. Evaluating(e) => Relevant(e.list[e.at], e.host)
  BY <1>1, <1>2 DEF Evaluating
<1>7. ASSUME e.pc = "decided", e.at # 0
      PROVE  e.at \in E
  <2>1. e.at \in DOMAIN e.list /\ Relevant(e.list[e.at], e.host) /\ e.list[e.at].match.kind = "hosts"
    BY <1>1, <1>2, <1>3, <1>7
  <2>2. e.list[e.at].enabled /\ Matches(e.list[e.at].match, e.host, files)
    BY <2>1 DEF Relevant, Matches, NeedsFile
  <2> QED
    BY <2>1, <2>2 DEF MatchingIn
<1> QED
  BY <1>5, <1>6, <1>7

(* What a step leaves of history.                                          *)
LEMMA HistoryIs ==
  ASSUME TypeOK, RecordConns, NEW c \in Conn, InList(conn'[c])
  PROVE  /\ always'[c] \subseteq MatchingIn(conn'[c], file')
         /\ MatchingIn(conn'[c], file') \subseteq ever'[c]
         /\ conn[c].pc # "match" => always'[c] \subseteq always[c] /\ ever[c] \subseteq ever'[c]
BY DEF RecordConns, InList

LEMMA JudgedKept ==
  ASSUME TypeOK, RecordConns, NEW c \in Conn, Judged(c), conn'[c] = conn[c]
  PROVE  Judged(c)'
<1>1. InList(conn[c]) => conn[c].pc # "match"
  BY DEF InList, Evaluating
<1> QED
  BY <1>1, HistoryIs DEF Judged, InList, Evaluating

LEMMA SoundKept ==
  ASSUME TypeOK, RecordConns, NEW c \in Conn, Evaluating(conn[c]), Evaluating(conn'[c]),
         conn'[c].list = conn[c].list, conn'[c].at = conn[c].at, conn'[c].host = conn[c].host,
         NEW H, Sound(c, H)
  PROVE  SoundAfter(c, H)
<1>1. always'[c] \subseteq always[c] /\ ever[c] \subseteq ever'[c]
  BY HistoryIs DEF InList, Evaluating
<1> QED
  BY <1>1 DEF Sound, SoundAfter, Says

LEMMA SoundNow ==
  ASSUME TypeOK, NEW c \in Conn, Judged(c), Evaluating(conn[c])
  PROVE  LET k == conn[c] IN
         /\ Matches(k.list[k.at].match, k.host, file) => k.at \in ever[c]
         /\ ~ Matches(k.list[k.at].match, k.host, file) => k.at \notin always[c]
         /\ file[Path(k)] = None => k.at \notin always[c]
         /\ file[Path(k)] # None => Sound(c, file[Path(k)].hosts)
<1> DEFINE k == conn[c]
           m == k.list[k.at].match
<1>1. /\ MatchingIn(k, file) \subseteq ever[c] /\ always[c] \subseteq MatchingIn(k, file)
      /\ Relevant(k.list[k.at], k.host)
  BY DEF Judged, InList
<1>2. k.at \in DOMAIN k.list /\ m.kind # "hosts"
  BY DEF TypeOK
<1>3. Matches(m, k.host, file) <=> /\ file[Path(k)] # None
                                   /\ Lists(m, k.host, file[Path(k)].hosts)
  BY <1>1, <1>2 DEF Matches, Relevant, Path
<1>4. k.at \in MatchingIn(k, file) <=> Matches(m, k.host, file)
  BY <1>1, <1>2 DEF MatchingIn, Relevant
<1> QED
  BY <1>1, <1>3, <1>4 DEF Sound, Says

LEMMA ResolveJudged ==
  ASSUME TypeOK, RecordConns, NEW c \in Conn, Judged(c), Evaluating(conn[c]),
         NEW k, k \in {conn[c], [conn[c] EXCEPT !.hosts = {}]}, NEW matched,
         matched => conn[c].at \in ever[c], ~ matched => conn[c].at \notin always[c],
         conn'[c] = Resolve(k, matched), file' = file
  PROVE  Judged(c)'
<1> DEFINE e == conn'[c]
           a == conn[c].at
<1>1. /\ conn[c] \in Connection /\ k \in Connection /\ a \in Nat \ {0}
      /\ k.list = conn[c].list /\ k.at = a /\ k.host = conn[c].host
  <2>1. conn[c] \in Connection /\ a \in Nat \ {0}
    BY PathIs
  <2> QED
    BY <2>1 DEF Connection
<1>2. e.pc \in {"decided", "scan", "stat"}
  BY <1>1, ResolveIs
<1>3. /\ always'[c] \subseteq MatchingIn(e, file') /\ MatchingIn(e, file') \subseteq ever'[c]
      /\ always'[c] \subseteq always[c] /\ ever[c] \subseteq ever'[c]
  BY <1>2, HistoryIs DEF InList, Evaluating
<1>4. \A j \in always[c] : a # 0 /\ a <= j
  BY DEF Judged, InList
<1>5. CASE matched
  <2>1. e = [k EXCEPT !.pc = "decided"]
    BY <1>5 DEF Resolve
  <2>2. e.at = a /\ e.pc = "decided"
    BY <1>1, <2>1 DEF Connection
  <2> QED
    BY <1>3, <1>4, <1>5, <2>2 DEF Judged, Evaluating
<1>6. CASE ~ matched
  <2>1. e = Enter(k, a + 1) /\ a + 1 \in Nat \ {0}
    BY <1>1, <1>6 DEF Resolve
  <2>2. \A j \in always'[c] : a + 1 <= j
    <3>1. TAKE j \in always'[c]
    <3>2. j \in Nat /\ j # a /\ a <= j
      BY <1>3, <1>4, <1>6 DEF TypeOK
    <3> QED
      BY <1>1, <3>2
  <2>3. /\ \A j \in always'[c] : e.at # 0 /\ e.at <= j
        /\ Evaluating(e) => Relevant(e.list[e.at], e.host)
        /\ e.pc = "decided" /\ e.at # 0 => e.at \in ever'[c]
    <3> DEFINE A == always'[c]
               E == ever'[c]
               files == file'
               i == a + 1
    <3>1. /\ k \in Connection /\ i \in Nat \ {0} /\ e = Enter(k, i)
          /\ A \subseteq MatchingIn(e, files) /\ MatchingIn(e, files) \subseteq E
          /\ \A j \in A : i <= j
      BY <1>1, <1>3, <2>1, <2>2
    <3> HIDE DEF A, E, files, i, e, a
    <3>2. /\ \A j \in A : e.at # 0 /\ e.at <= j
          /\ Evaluating(e) => Relevant(e.list[e.at], e.host)
          /\ e.pc = "decided" /\ e.at # 0 => e.at \in E
      BY <3>1, EnterJudged, Zenon
    <3> QED
      BY <3>2 DEF A, E
  <2> QED
    BY <1>3, <2>3 DEF Judged, Evaluating
<1> QED
  BY <1>5, <1>6

LEMMA JudgedStays ==
  ASSUME TypeOK, RecordConns, NEW c \in Conn, Judged(c), Evaluating(conn[c]), Evaluating(conn'[c]),
         conn'[c].list = conn[c].list, conn'[c].at = conn[c].at, conn'[c].host = conn[c].host
  PROVE  Judged(c)'
<1>1. conn[c].pc # "match"
  BY DEF Evaluating
<1> QED
  BY <1>1, HistoryIs DEF Judged, InList, Evaluating

(* The others see at most one more list: what c stores, which it has told  *)
(* them of before, or has just read, which is as the file is.              *)
LEMMA OthersJudged ==
  ASSUME TypeOK, RecordConns, JudgeInv, NEW c \in Conn, NEW d \in Conn, d # c,
         \A x \in Conn \ {c} : conn'[x] = conn[x],
         \A f \in File : \/ cache'[f] = cache[f]
                         \/ /\ At(c, "store") /\ f = Path(conn[c])
                            /\ cache'[f] = [stamp |-> conn[c].stamp, hosts |-> conn[c].hosts],
         conn'[c].pc = "store" => /\ file[Path(conn'[c])] # None
                                  /\ conn'[c].hosts = file[Path(conn'[c])].hosts
  PROVE  Judged(d)' /\ Verdict(d)'
<1>1. conn'[d] = conn[d] /\ Judged(d) /\ Verdict(d)
  BY DEF JudgeInv
<1>2. Judged(d)'
  BY <1>1, JudgedKept
<1>3. ASSUME conn[d].pc = "store"
      PROVE  SoundAfter(d, conn'[d].hosts)
  <2>1. Evaluating(conn[d]) /\ Evaluating(conn'[d]) /\ Sound(d, conn[d].hosts)
    BY <1>1, <1>3 DEF Evaluating, Verdict, At
  <2> QED
    BY <1>1, <2>1, SoundKept
<1>4. ASSUME conn[d].pc = "lookup"
      PROVE  MayFind(d)'
  <2> DEFINE f == Path(conn[d])
  <2>1. Evaluating(conn[d]) /\ Evaluating(conn'[d]) /\ MayFind(d) /\ f \in File
    BY <1>1, <1>4, PathIs DEF Evaluating, Verdict, At
  <2>2. \A H : Sound(d, H) => SoundAfter(d, H)
    BY <1>1, <2>1, SoundKept
  <2>3. ASSUME cache'[f] # None, cache'[f].stamp = conn[d].stamp
        PROVE  SoundAfter(d, cache'[f].hosts)
    <3>1. CASE cache'[f] = cache[f]
      BY <2>1, <2>2, <2>3, <3>1 DEF MayFind
    <3>2. CASE /\ At(c, "store") /\ f = Path(conn[c])
               /\ cache'[f] = [stamp |-> conn[c].stamp, hosts |-> conn[c].hosts]
      <4>1. cache'[f].stamp = conn[c].stamp /\ cache'[f].hosts = conn[c].hosts
        BY <3>2
      <4>2. Sound(d, conn[c].hosts)
        BY <2>1, <2>3, <3>2, <4>1 DEF MayFind
      <4> QED
        BY <2>2, <4>1, <4>2
    <3> QED
      BY <2>1, <3>1, <3>2
  <2>4. ASSUME NEW x \in Conn, conn'[x].pc = "store", Path(conn'[x]) = f,
               conn'[x].stamp = conn[d].stamp
        PROVE  SoundAfter(d, conn'[x].hosts)
    <3>1. CASE x = c
      <4>1. file[f] # None /\ conn'[x].hosts = file[f].hosts
        BY <2>4, <3>1
      <4>2. Sound(d, file[f].hosts)
        BY <1>1, <2>1, <4>1, SoundNow
      <4> QED
        BY <2>2, <4>1, <4>2
    <3>2. CASE x # c
      <4>1. conn'[x] = conn[x]
        BY <3>2
      <4>2. Sound(d, conn[x].hosts)
        BY <2>1, <2>4, <4>1 DEF MayFind, At
      <4> QED
        BY <2>2, <4>1, <4>2
    <3> QED
      BY <3>1, <3>2
  <2>5. Path(conn'[d]) = f /\ conn'[d].stamp = conn[d].stamp
    BY <1>1
  <2> HIDE DEF f
  <2> QED
    BY <2>3, <2>4, <2>5 DEF MayFind, At, Path, Sound, SoundAfter
<1> QED
  BY <1>1, <1>2, <1>3, <1>4 DEF Verdict, At, Sound, SoundAfter

(* Nobody moves: what is in the lists may change.                          *)
LEMMA StillJudged ==
  ASSUME TypeOK, RecordConns, JudgeInv, conn' = conn, cache' = cache
  PROVE  JudgeInv'
<1>1. SUFFICES ASSUME NEW d \in Conn
               PROVE  Judged(d)' /\ Verdict(d)'
  BY DEF JudgeInv
<1>2. Judged(d) /\ Verdict(d) /\ conn'[d] = conn[d]
  BY DEF JudgeInv
<1>3. Judged(d)'
  BY <1>2, JudgedKept
<1>4. Evaluating(conn[d]) => \A H : Sound(d, H) => SoundAfter(d, H)
  BY <1>2, SoundKept
<1>5. Verdict(d)'
  BY <1>2, <1>4 DEF Verdict, MayFind, At, Path, Evaluating, Sound, SoundAfter
<1> QED
  BY <1>3, <1>5

LEMMA WalkJudged ==
  ASSUME TypeOK, RecordConns, CacheInv, JudgeInv, NEW c \in Conn, WalkStep(c)
  PROVE  Judged(c)' /\ Verdict(c)'
<1> DEFINE f == Path(conn[c])
<1>1. conn[c] \in Connection /\ rules \in RuleList /\ Judged(c) /\ Verdict(c)
  BY DEF TypeOK, JudgeInv
<1>2. ASSUME NEW k, Handler(c, k)
      PROVE  conn'[c] = k /\ file' = file /\ (\A d \in Conn \ {c} : conn'[d] = conn[d])
  BY <1>2 DEF Handler, lists, TypeOK
<1>3. ASSUME NEW k \in {conn[c], [conn[c] EXCEPT !.hosts = {}]}, NEW matched,
             Evaluating(conn[c]), Handler(c, Resolve(k, matched)),
             matched => conn[c].at \in ever[c], ~ matched => conn[c].at \notin always[c]
      PROVE  Judged(c)' /\ Verdict(c)'
  <2>1. conn'[c] = Resolve(k, matched) /\ file' = file
    BY <1>2, <1>3
  <2>2. Judged(c)'
    BY <1>1, <1>3, <2>1, ResolveJudged
  <2>3. k \in Connection
    BY <1>1 DEF Connection
  <2>4. conn'[c].pc \in {"decided", "scan", "stat"}
    BY <2>1, <2>3, ResolveIs
  <2> QED
    BY <2>2, <2>4 DEF Verdict, At
<1>4. ASSUME NEW k, Handler(c, k), Evaluating(conn[c]), Evaluating(k),
             k.list = conn[c].list, k.at = conn[c].at, k.host = conn[c].host
      PROVE  /\ Judged(c)' /\ conn'[c] = k
             /\ \A H : Sound(c, H) => SoundAfter(c, H)
  <2>1. conn'[c] = k
    BY <1>2, <1>4
  <2>2. Judged(c)'
    BY <1>1, <1>4, <2>1, JudgedStays
  <2>3. \A H : Sound(c, H) => SoundAfter(c, H)
    BY <1>4, <2>1, SoundKept
  <2> QED
    BY <2>1, <2>2, <2>3
<1>5. CASE Evaluate(c)
  <2> DEFINE k == [conn[c] EXCEPT !.list = rules]
             e == Enter(k, 1)
             A == always'[c]
             E == ever'[c]
             files == file'
  <2>1. k \in Connection /\ conn'[c] = e /\ 1 \in Nat \ {0}
    BY <1>1, <1>2, <1>5 DEF Evaluate, Connection
  <2>2. e = Enter(k, 1)
    OBVIOUS
  <2> HIDE DEF k, e
  <2>3. e.pc \in {"decided", "scan", "stat"} /\ e \in Connection
    BY <2>1, <2>2, EnterIs
  <2>4. A \subseteq MatchingIn(e, files) /\ MatchingIn(e, files) \subseteq E
    BY <2>1, <2>3, HistoryIs DEF InList, Evaluating
  <2>5. \A j \in A : 1 <= j
    BY <2>3, <2>4, ListShape DEF MatchingIn
  <2> HIDE DEF A, E, files
  <2>6. /\ \A j \in A : e.at # 0 /\ e.at <= j
        /\ Evaluating(e) => Relevant(e.list[e.at], e.host)
        /\ e.pc = "decided" /\ e.at # 0 => e.at \in E
    BY <2>1, <2>2, <2>4, <2>5, EnterJudged, Zenon
  <2>7. Judged(c)'
    BY <2>1, <2>4, <2>6 DEF Judged, A, E, files, Evaluating
  <2> QED
    BY <2>1, <2>3, <2>7 DEF Verdict, At
<1>6. CASE ListStat(c)
  <2>1. Evaluating(conn[c])
    BY <1>6 DEF ListStat, At, Evaluating
  <2>2. CASE file[f] = None
    <3>1. Handler(c, Resolve(conn[c], FALSE))
      BY <1>6, <2>2 DEF ListStat
    <3> QED
      BY <1>1, <1>3, <2>1, <2>2, <3>1, SoundNow
  <2>3. CASE file[f] # None
    <3> DEFINE k == [conn[c] EXCEPT !.pc = "lookup", !.stamp = file[f].stamp]
    <3>1. Handler(c, k) /\ cache' = cache /\ f \in File
      BY <1>6, <2>1, <2>3, PathIs DEF ListStat
    <3>2. /\ k.list = conn[c].list /\ k.at = conn[c].at /\ k.host = conn[c].host
          /\ k.pc = "lookup" /\ k.stamp = file[f].stamp /\ Path(k) = f
      BY <1>1 DEF Connection, Path
    <3> HIDE DEF k
    <3>3. Judged(c)' /\ conn'[c] = k /\ \A H : Sound(c, H) => SoundAfter(c, H)
      BY <1>4, <2>1, <3>1, <3>2 DEF Evaluating
    <3>4. SoundAfter(c, file[f].hosts)
      BY <1>1, <2>1, <2>3, <3>3, SoundNow
    <3>5. cache[f] # None /\ cache[f].stamp = k.stamp => cache[f].hosts = file[f].hosts
      BY <2>3, <3>1, <3>2 DEF CacheInv, ListCacheTrue
    <3>6. ASSUME NEW d \in Conn, conn'[d].pc = "store", Path(conn'[d]) = f,
                 conn'[d].stamp = k.stamp
          PROVE  conn'[d].hosts = file[f].hosts
      <4>1. d # c
        BY <3>2, <3>3, <3>6
      <4>2. conn'[d] = conn[d] /\ ReadNow(conn[d])
        BY <1>2, <3>1, <4>1 DEF CacheInv, LoadInv
      <4> QED
        BY <2>3, <3>2, <3>6, <4>2 DEF ReadNow
    <3> HIDE DEF f
    <3>7. MayFind(c)'
      BY <3>1, <3>2, <3>3, <3>4, <3>5, <3>6 DEF MayFind, At, Path, Sound, SoundAfter
    <3> QED
      BY <3>2, <3>3, <3>7 DEF Verdict, At
  <2> QED
    BY <2>2, <2>3
<1>7. CASE ListLookup(c)
  <2>1. Evaluating(conn[c]) /\ MayFind(c)
    BY <1>1, <1>7 DEF ListLookup, At, Evaluating, Verdict
  <2> DEFINE e == cache[f]
             matched == Lists(conn[c].list[conn[c].at].match, conn[c].host, e.hosts)
  <2>2. CASE e # None /\ e.stamp = conn[c].stamp
    <3>1. Sound(c, e.hosts)
      BY <2>1, <2>2 DEF MayFind
    <3>2. Handler(c, Resolve(conn[c], matched))
      BY <1>7, <2>2 DEF ListLookup
    <3>3. (matched => conn[c].at \in ever[c]) /\ (~ matched => conn[c].at \notin always[c])
      BY <3>1 DEF Sound, Says
    <3> HIDE DEF matched
    <3> QED
      BY <1>3, <2>1, <3>2, <3>3
  <2>3. CASE ~ (e # None /\ e.stamp = conn[c].stamp)
    <3> DEFINE k == [conn[c] EXCEPT !.pc = "open"]
    <3>1. Handler(c, k)
      BY <1>7, <2>3 DEF ListLookup
    <3>2. k.list = conn[c].list /\ k.at = conn[c].at /\ k.host = conn[c].host /\ k.pc = "open"
      BY <1>1 DEF Connection
    <3> HIDE DEF k
    <3>3. Judged(c)' /\ conn'[c] = k
      BY <1>4, <2>1, <3>1, <3>2 DEF Evaluating
    <3> QED
      BY <3>2, <3>3 DEF Verdict, At
  <2> QED
    BY <2>2, <2>3
<1>8. CASE ListOpen(c)
  <2>1. Evaluating(conn[c])
    BY <1>8 DEF ListOpen, At, Evaluating
  <2>2. CASE file[f] = None
    <3>1. Handler(c, Resolve(conn[c], FALSE))
      BY <1>8, <2>2 DEF ListOpen
    <3> QED
      BY <1>1, <1>3, <2>1, <2>2, <3>1, SoundNow
  <2>3. CASE file[f] # None
    <3> DEFINE k == [conn[c] EXCEPT !.pc = "store", !.hosts = file[f].hosts]
    <3>1. Handler(c, k)
      BY <1>8, <2>3 DEF ListOpen
    <3>2. /\ k.list = conn[c].list /\ k.at = conn[c].at /\ k.host = conn[c].host
          /\ k.pc = "store" /\ k.hosts = file[f].hosts
      BY <1>1 DEF Connection
    <3> HIDE DEF k
    <3>3. Judged(c)' /\ conn'[c] = k /\ \A H : Sound(c, H) => SoundAfter(c, H)
      BY <1>4, <2>1, <3>1, <3>2 DEF Evaluating
    <3>4. SoundAfter(c, file[f].hosts)
      BY <1>1, <2>1, <2>3, <3>3, SoundNow
    <3> QED
      BY <3>2, <3>3, <3>4 DEF Verdict, At, Sound, SoundAfter
  <2> QED
    BY <2>2, <2>3
<1>9. CASE ListStore(c)
  <2> DEFINE matched == Lists(conn[c].list[conn[c].at].match, conn[c].host, conn[c].hosts)
  <2>1. Evaluating(conn[c]) /\ Sound(c, conn[c].hosts)
    BY <1>1, <1>9 DEF ListStore, At, Evaluating, Verdict
  <2>2. (matched => conn[c].at \in ever[c]) /\ (~ matched => conn[c].at \notin always[c])
    BY <2>1 DEF Sound, Says
  <2>3. Handler(c, Resolve([conn[c] EXCEPT !.hosts = {}], matched))
    BY <1>9 DEF ListStore
  <2> HIDE DEF matched
  <2> QED
    BY <1>3, <2>1, <2>2, <2>3
<1>10. CASE GeoipScan(c)
  <2> DEFINE matched == Matches(conn[c].list[conn[c].at].match, conn[c].host, file)
  <2>1. Evaluating(conn[c])
    BY <1>10 DEF GeoipScan, At, Evaluating
  <2>2. (matched => conn[c].at \in ever[c]) /\ (~ matched => conn[c].at \notin always[c])
    BY <1>1, <2>1, SoundNow
  <2>3. Handler(c, Resolve(conn[c], matched))
    BY <1>10 DEF GeoipScan
  <2> HIDE DEF matched
  <2> QED
    BY <1>3, <2>1, <2>2, <2>3
<1> QED
  BY <1>5, <1>6, <1>7, <1>8, <1>9, <1>10 DEF WalkStep

LEMMA WalkOthers ==
  ASSUME TypeOK, RecordConns, JudgeInv, NEW c \in Conn, WalkStep(c), NEW d \in Conn, d # c
  PROVE  Judged(d)' /\ Verdict(d)'
<1>1. conn[c] \in Connection /\ rules \in RuleList
  BY DEF TypeOK
<1>2. ASSUME NEW k, Handler(c, k), k.pc # "store",
             \A f \in File : \/ cache'[f] = cache[f]
                             \/ /\ At(c, "store") /\ f = Path(conn[c])
                                /\ cache'[f] = [stamp |-> conn[c].stamp, hosts |-> conn[c].hosts]
      PROVE  Judged(d)' /\ Verdict(d)'
  <2>1. conn'[c] = k /\ \A x \in Conn \ {c} : conn'[x] = conn[x]
    BY <1>2 DEF Handler, TypeOK
  <2>2. conn'[c].pc # "store"
    BY <1>2, <2>1
  <2> QED
    BY <1>2, <2>1, <2>2, OthersJudged
<1>3. ASSUME NEW k \in Connection, NEW matched
      PROVE  Resolve(k, matched).pc # "store" /\ Enter(k, 1).pc # "store"
  <2>1. Resolve(k, matched).pc \in {"decided", "scan", "stat"}
    BY ResolveIs
  <2>2. 1 \in Nat \ {0}
    OBVIOUS
  <2>3. Enter(k, 1).pc \in {"decided", "scan", "stat"}
    BY <2>2, EnterIs
  <2> QED
    BY <2>1, <2>3
<1>4. CASE Evaluate(c)
  <2>1. [conn[c] EXCEPT !.list = rules] \in Connection
    BY <1>1 DEF Connection
  <2> QED
    BY <1>2, <1>3, <1>4, <2>1 DEF Evaluate
<1>5. CASE ListStat(c)
  <2>1. CASE file[Path(conn[c])] = None
    BY <1>1, <1>2, <1>3, <1>5, <2>1 DEF ListStat
  <2>2. CASE file[Path(conn[c])] # None
    <3>1. [conn[c] EXCEPT !.pc = "lookup", !.stamp = file[Path(conn[c])].stamp].pc # "store"
      BY <1>1 DEF Connection
    <3> QED
      BY <1>2, <1>5, <2>2, <3>1 DEF ListStat
  <2> QED
    BY <2>1, <2>2
<1>6. CASE ListLookup(c)
  <2>1. \/ \E matched : Handler(c, Resolve(conn[c], matched)) /\ cache' = cache
        \/ Handler(c, [conn[c] EXCEPT !.pc = "open"]) /\ cache' = cache
    BY <1>6, Zenon DEF ListLookup
  <2>2. [conn[c] EXCEPT !.pc = "open"].pc # "store"
    BY <1>1 DEF Connection
  <2> QED
    BY <1>1, <1>2, <1>3, <2>1, <2>2
<1>7. CASE ListOpen(c)
  <2>1. CASE file[Path(conn[c])] = None
    BY <1>1, <1>2, <1>3, <1>7, <2>1 DEF ListOpen
  <2>2. CASE file[Path(conn[c])] # None
    <3> DEFINE k == [conn[c] EXCEPT !.pc = "store", !.hosts = file[Path(conn[c])].hosts]
    <3>1. Handler(c, k) /\ cache' = cache
      BY <1>7, <2>2 DEF ListOpen
    <3>2. Path(k) = Path(conn[c]) /\ k.hosts = file[Path(conn[c])].hosts
      BY <1>1 DEF Path, Connection
    <3> HIDE DEF k
    <3>3. conn'[c] = k /\ \A x \in Conn \ {c} : conn'[x] = conn[x]
      BY <3>1 DEF Handler, TypeOK
    <3>4. /\ file[Path(conn'[c])] # None
          /\ conn'[c].hosts = file[Path(conn'[c])].hosts
      BY <2>2, <3>2, <3>3
    <3> QED
      BY <3>1, <3>3, <3>4, OthersJudged
  <2> QED
    BY <2>1, <2>2
<1>8. CASE ListStore(c)
  <2> DEFINE matched == Lists(conn[c].list[conn[c].at].match, conn[c].host, conn[c].hosts)
             e == [stamp |-> conn[c].stamp, hosts |-> conn[c].hosts]
  <2>1. Handler(c, Resolve([conn[c] EXCEPT !.hosts = {}], matched))
    BY <1>8 DEF ListStore
  <2>2. [conn[c] EXCEPT !.hosts = {}] \in Connection
    BY <1>1 DEF Connection
  <2>3. At(c, "store") /\ cache' = [cache EXCEPT ![Path(conn[c])] = e]
    BY <1>8 DEF ListStore
  <2>4. \A f \in File : cache'[f] = cache[f] \/ (f = Path(conn[c]) /\ cache'[f] = e)
    BY <2>3 DEF TypeOK
  <2> HIDE DEF matched
  <2>5. Resolve([conn[c] EXCEPT !.hosts = {}], matched).pc # "store"
    BY <1>3, <2>2
  <2> QED
    BY <1>2, <2>1, <2>3, <2>4, <2>5
<1>9. CASE GeoipScan(c)
  BY <1>1, <1>2, <1>3, <1>9, Zenon DEF GeoipScan
<1> QED
  BY <1>4, <1>5, <1>6, <1>7, <1>8, <1>9 DEF WalkStep

LEMMA JudgeStep ==
  ASSUME TypeOK, CacheInv, JudgeInv, [Next]_vars
  PROVE  JudgeInv'
<1>1. ASSUME RecordConns, NEW c \in Conn, WalkStep(c)
      PROVE  JudgeInv'
  BY <1>1, WalkJudged, WalkOthers DEF JudgeInv
<1>2. ASSUME RecordConns, NEW c \in Conn, OtherStep(c)
      PROVE  JudgeInv'
  <2>1. PICK k : /\ k = conn[c] \/ ~ InList(k)
                 /\ conn' = [conn EXCEPT ![c] = k]
                 /\ lists' = lists /\ cache' = cache
    BY <1>2 DEF OtherStep
  <2>2. CASE k = conn[c]
    <3>1. conn' = conn
      BY <2>1, <2>2 DEF TypeOK
    <3> QED
      BY <1>2, <2>1, <3>1, StillJudged
  <2>3. CASE ~ InList(k)
    <3>1. conn'[c] = k /\ \A x \in Conn \ {c} : conn'[x] = conn[x]
      BY <2>1 DEF TypeOK
    <3>2. ~ InList(conn'[c]) /\ conn'[c].pc # "store" /\ conn'[c].pc # "lookup"
      BY <2>3, <3>1 DEF InList, Evaluating
    <3>3. Judged(c)' /\ Verdict(c)'
      BY <3>2 DEF Judged, Verdict, At, InList, Evaluating
    <3>4. \A d \in Conn : d # c => Judged(d)' /\ Verdict(d)'
      BY <1>2, <2>1, <3>1, <3>2, OthersJudged
    <3> QED
      BY <3>3, <3>4 DEF JudgeInv
  <2> QED
    BY <2>1, <2>2, <2>3
<1>3. CASE Next
  <2>1. RecordConns
    BY <1>3 DEF Next
  <2>2. CASE \E c \in Conn : WalkStep(c) \/ OtherStep(c)
    BY <1>1, <1>2, <2>1, <2>2
  <2>3. CASE \/ \E list \in RuleList : SetRules(list)
             \/ \E f \in File, hosts \in Content : EditList(f, hosts)
             \/ \E f \in File : RemoveList(f)
    <3>1. conn' = conn /\ cache' = cache
      BY <2>3 DEF SetRules, EditList, RemoveList
    <3> QED
      BY <2>1, <3>1, StillJudged
  <2> QED
    BY <1>3, <2>2, <2>3, StepIs DEF Next, OutsideStep
<1>4. CASE UNCHANGED vars
  <2>1. /\ conn' = conn /\ file' = file /\ cache' = cache /\ always' = always /\ ever' = ever
    BY <1>4 DEF vars, lists
  <2>2. SUFFICES ASSUME NEW c \in Conn
                 PROVE  Judged(c)' /\ Verdict(c)'
    BY DEF JudgeInv
  <2>3. Judged(c) /\ Verdict(c)
    BY DEF JudgeInv
  <2>4. Judged(c)'
    BY <2>1, <2>3 DEF Judged
  <2>5. Verdict(c)'
    BY <2>1, <2>3 DEF Verdict, MayFind, Sound, At, Path
  <2> QED
    BY <2>4, <2>5
<1> QED
  BY <1>3, <1>4

(* The rule that decides matched at some moment of the evaluation, and none *)
(* before it matched all the time, although lists change while the engine   *)
(* walks them and handlers share what they have read.                       *)
THEOREM FirstMatch == Spec => []FirstMatchWins
<1>1. Init => CacheInv
  BY DEF Init, CacheInv, StampInv, LoadInv, ReadNow, ListCacheTrue, Loading, Fresh
<1>2. Init => JudgeInv
  <2>1. Init => \A c \in Conn : conn[c].pc = "idle"
    BY FreshIs
  <2> QED
    BY <2>1 DEF JudgeInv, Judged, Verdict, At, InList, Evaluating
<1>3. TypeOK /\ CacheInv /\ [Next]_vars => CacheInv'
  BY CacheStep
<1>4. TypeOK /\ CacheInv /\ JudgeInv /\ [Next]_vars => JudgeInv'
  BY JudgeStep
<1>5. JudgeInv => FirstMatchWins
  BY DEF JudgeInv, Judged, FirstMatchWins, InList, At
<1> QED
  BY <1>1, <1>2, <1>3, <1>4, <1>5, TypeCorrect, PTL DEF Spec

-----------------------------------------------------------------------------
(* Flows.  Until its dial has been answered a connection has none.         *)
Begun == {"connected", "tunnel", "closeClient", "closeTarget", "closed"}
FlowInv ==
  \A c \in Conn : /\ conn[c].pc \notin Begun => conn[c].flow = "none"
                  /\ conn[c].pc = "closed" /\ conn[c].flow = "open" => conn[c].way = "refused"

LEMMA FlowStep ==
  ASSUME TypeOK, FlowInv, [Next]_vars
  PROVE  FlowInv'
<1> DEFINE Settled(k) == /\ k.pc \notin Begun => k.flow = "none"
                         /\ k.pc = "closed" /\ k.flow = "open" => k.way = "refused"
<1>1. ASSUME NEW c \in Conn, NEW k, Settled(k), conn' = [conn EXCEPT ![c] = k]
      PROVE  FlowInv'
  BY <1>1 DEF FlowInv, TypeOK
<1>2. ASSUME NEW c \in Conn
      PROVE  conn[c] \in Connection /\ Settled(conn[c])
  BY DEF FlowInv, TypeOK
<1>3. ASSUME NEW c \in Conn, NEW k \in Connection, NEW i \in Nat \ {0}, k.flow = "none"
      PROVE  Settled(Enter(k, i))
  <2> DEFINE e == Enter(k, i)
  <2>1. e = Enter(k, i)
    OBVIOUS
  <2> HIDE DEF e
  <2>2. e = [k EXCEPT !.at = e.at, !.pc = e.pc] /\ e.pc \in {"decided", "scan", "stat"}
    BY <2>1, EnterIs
  <2>3. e.flow = "none"
    BY <1>3, <2>2 DEF Connection
  <2>4. Settled(e)
    BY <2>2, <2>3 DEF Begun
  <2> HIDE DEF Settled
  <2> QED
    BY <2>1, <2>4
<1>4. ASSUME NEW c \in Conn, NEW k \in Connection, NEW matched, k.flow = "none"
      PROVE  Settled(Resolve(k, matched))
  <2>1. CASE matched
    BY <1>4, <2>1 DEF Resolve, Begun, Connection
  <2>2. CASE ~ matched
    <3>1. k.at + 1 \in Nat \ {0} /\ Resolve(k, matched) = Enter(k, k.at + 1)
      BY <2>2 DEF Resolve, Connection
    <3> HIDE DEF Settled
    <3> QED
      BY <1>3, <1>4, <3>1
  <2> QED
    BY <2>1, <2>2
<1> HIDE DEF Settled
<1>5. ASSUME NEW c \in Conn, WalkStep(c)
      PROVE  FlowInv'
  <2>1. conn[c] \in Connection /\ conn[c].flow = "none"
    BY <1>2, <1>5 DEF WalkStep, Evaluate, ListStat, ListLookup, ListOpen, ListStore, GeoipScan, At,
                      Begun, Settled
  <2>2. ASSUME NEW k, Handler(c, k), Settled(k)
        PROVE  FlowInv'
    BY <1>1, <2>2 DEF Handler
  <2>3. CASE Evaluate(c)
    <3>1. [conn[c] EXCEPT !.list = rules] \in Connection
          /\ [conn[c] EXCEPT !.list = rules].flow = "none" /\ 1 \in Nat \ {0}
      <4>1. rules \in RuleList
        BY DEF TypeOK
      <4> QED
        BY <2>1, <4>1 DEF Connection
    <3> QED
      BY <1>3, <2>2, <2>3, <3>1 DEF Evaluate
  <2>4. Settled([conn[c] EXCEPT !.pc = "open"])
    BY <2>1 DEF Settled, Begun, Connection
  <2>5. ASSUME NEW pc \in {"lookup", "store"}, NEW x
        PROVE  /\ Settled([conn[c] EXCEPT !.pc = pc, !.stamp = x])
               /\ Settled([conn[c] EXCEPT !.pc = pc, !.hosts = x])
    BY <2>1 DEF Settled, Begun, Connection
  <2>6. CASE ListStat(c)
    BY <1>4, <2>1, <2>2, <2>5, <2>6 DEF ListStat
  <2>7. CASE ListLookup(c)
    <3>1. \/ \E matched : Handler(c, Resolve(conn[c], matched))
          \/ Handler(c, [conn[c] EXCEPT !.pc = "open"])
      BY <2>7, Zenon DEF ListLookup
    <3> QED
      BY <1>4, <2>1, <2>2, <2>4, <3>1
  <2>8. CASE ListOpen(c)
    BY <1>4, <2>1, <2>2, <2>5, <2>8 DEF ListOpen
  <2>9. CASE ListStore(c)
    <3>1. PICK matched : Handler(c, Resolve([conn[c] EXCEPT !.hosts = {}], matched))
      BY <2>9, Zenon DEF ListStore
    <3>2. [conn[c] EXCEPT !.hosts = {}] \in Connection
          /\ [conn[c] EXCEPT !.hosts = {}].flow = "none"
      BY <2>1 DEF Connection
    <3> QED
      BY <1>4, <2>2, <3>1, <3>2
  <2>10. CASE GeoipScan(c)
    <3>1. PICK matched : Handler(c, Resolve(conn[c], matched))
      BY <2>10, Zenon DEF GeoipScan
    <3> QED
      BY <1>4, <2>1, <2>2, <3>1
  <2> QED
    BY <1>5, <2>3, <2>6, <2>7, <2>8, <2>9, <2>10 DEF WalkStep
<1>6. ASSUME NEW c \in Conn, DecideStep(c), ~ WalkStep(c)
      PROVE  FlowInv'
  <2>1. PICK k : conn' = [conn EXCEPT ![c] = k] /\ Settled(k)
    <3>1. conn[c] \in Connection /\ conn[c].flow = "none"
      BY <1>2, <1>6 DEF DecideStep, WalkStep, BlockTorrent, Drop, DialByRule, HandToBalancer,
                        Refuse, FallBack, At, Begun, Settled
    <3>2. ASSUME NEW pc \in {"closed", "balancer", "dialing"}
          PROVE  /\ Settled([Forget(conn[c]) EXCEPT !.pc = pc])
                 /\ Settled([Forget(conn[c]) EXCEPT !.pc = pc, !.way = "rule"])
                 /\ Settled([conn[c] EXCEPT !.pc = pc, !.way = "fallback"])
                 /\ Settled([conn[c] EXCEPT !.pc = "closed", !.way = "refused", !.flow = "open"])
      BY <3>1 DEF Forget, Connection, Settled, Begun
    <3>3. CASE BlockTorrent(c) \/ Drop(c)
      BY <3>2, <3>3 DEF BlockTorrent, Drop, Handler
    <3>4. CASE HandToBalancer(c)
      BY <3>2, <3>4 DEF HandToBalancer, Handler
    <3>5. CASE DialByRule(c)
      BY <3>2, <3>5 DEF DialByRule, Handler
    <3>6. CASE Refuse(c)
      BY <3>2, <3>6 DEF Refuse, Handler
    <3>7. CASE FallBack(c)
      BY <3>2, <3>7 DEF FallBack, Handler
    <3> QED
      BY <1>6, <3>3, <3>4, <3>5, <3>6, <3>7 DEF DecideStep, WalkStep
  <2> QED
    BY <1>1, <2>1
<1>7. ASSUME NEW c \in Conn, NetworkStep(c)
      PROVE  FlowInv'
  <2>1. PICK k : conn' = [conn EXCEPT ![c] = k] /\ Settled(k)
    <3>1. conn[c] \in Connection /\ conn[c].flow = "none"
      BY <1>2, <1>7 DEF NetworkStep, DialEndpoint, AllEndpointsFail, DialAnswered, DialFailed, At,
                        Begun, Settled
    <3>2. CASE DialEndpoint(c) \/ AllEndpointsFail(c) \/ DialFailed(c)
      <4>1. /\ Settled([conn[c] EXCEPT !.pc = "connected", !.way = "endpoint", !.flow = "open"])
            /\ Settled([conn[c] EXCEPT !.pc = "fallback"])
            /\ Settled([conn[c] EXCEPT !.pc = "closed"])
        BY <3>1 DEF Connection, Settled, Begun
      <4> QED
        BY <3>2, <4>1 DEF DialEndpoint, AllEndpointsFail, DialFailed, Handler
    <3>3. CASE DialAnswered(c)
      <4>1. PICK flow : conn' = [conn EXCEPT ![c] = [conn[c] EXCEPT !.pc = "connected", !.flow = flow]]
        BY <3>3 DEF DialAnswered, Handler
      <4>2. Settled([conn[c] EXCEPT !.pc = "connected", !.flow = flow])
        BY <3>1 DEF Settled, Begun, Connection
      <4> QED
        BY <4>1, <4>2
    <3> QED
      BY <1>7, <3>2, <3>3 DEF NetworkStep
  <2> QED
    BY <1>1, <2>1
<1>8. ASSUME NEW c \in Conn,
             \/ UnwindStep(c) \/ LibraryCloses(c)
             \/ \E dir \in Dir : EndStep(c, dir)
      PROVE  FlowInv'
  <2>1. conn[c] \in Connection /\ Settled(conn[c])
    BY <1>2
  <2>2. CASE Hijack(c) \/ TunnelReturns(c) \/ CloseClient(c)
    <3>1. PICK pc \in {"tunnel", "closeClient", "closeTarget"} :
            conn' = [conn EXCEPT ![c] = [conn[c] EXCEPT !.pc = pc]]
      BY <2>2 DEF Hijack, TunnelReturns, CloseClient, TunnelStep
    <3>2. Settled([conn[c] EXCEPT !.pc = pc])
      BY <2>1 DEF Settled, Begun, Connection
    <3> QED
      BY <1>1, <3>1, <3>2
  <2>3. CASE HijackFails(c) \/ LibraryCloses(c) \/ CloseTarget(c)
    <3>1. conn' = [conn EXCEPT ![c] = [conn[c] EXCEPT !.pc = "closed", !.flow = FlowAtClose(conn[c])]]
      BY <2>3 DEF HijackFails, LibraryCloses, CloseTarget, TunnelStep
    <3>2. FlowAtClose(conn[c]) # "open"
      BY DEF FlowAtClose
    <3>3. Settled([conn[c] EXCEPT !.pc = "closed", !.flow = FlowAtClose(conn[c])])
      BY <2>1, <3>2 DEF Settled, Begun, Connection
    <3> QED
      BY <1>1, <3>1, <3>3
  <2>4. CASE \E dir \in Dir : CopyStep(c, dir) \/ EndStep(c, dir)
    <3>1. conn' = [conn EXCEPT ![c] = conn[c]]
      BY <1>2, <2>4, CopyStepIs DEF TunnelStep
    <3> QED
      BY <1>1, <2>1, <3>1
  <2> QED
    BY <1>8, <2>2, <2>3, <2>4 DEF UnwindStep
<1>9. ASSUME NEW c \in Conn, NEW listener, NEW h, Arrive(c, listener, h)
      PROVE  FlowInv'
  <2>1. PICK g : conn' = [conn EXCEPT ![c] =
                   [conn[c] EXCEPT !.pc = "match", !.listener = listener, !.host = g]]
    BY <1>9 DEF Arrive, Handler
  <2>2. conn[c] \in Connection /\ conn[c].flow = "none"
    BY <1>2, <1>9 DEF Arrive, At, Settled, Begun
  <2>3. Settled([conn[c] EXCEPT !.pc = "match", !.listener = listener, !.host = g])
    BY <2>2 DEF Settled, Begun, Connection
  <2> QED
    BY <1>1, <2>1, <2>3
<1>10. ASSUME conn' = conn
       PROVE  FlowInv'
  BY <1>10 DEF FlowInv
<1>11. ASSUME NEW c \in Conn, NEW end, EndLeaves(c, end)
       PROVE  FlowInv'
  <2>1. conn' = [conn EXCEPT ![c] = conn[c]]
    BY <1>11 DEF EndLeaves, TunnelStep
  <2> QED
    BY <1>1, <1>2, <2>1
<1>12. ASSUME \/ UNCHANGED vars
              \/ \E list : SetRules(list)
              \/ \E f, hosts : EditList(f, hosts)
              \/ \E f : RemoveList(f)
       PROVE  conn' = conn
  BY <1>12 DEF vars, SetRules, EditList, RemoveList
<1> QED
  BY <1>5, <1>6, <1>7, <1>8, <1>9, <1>10, <1>11, <1>12 DEF Next, OutsideStep

(* A connection that is over has ended its flow, unless it was refused.    *)
THEOREM FlowsEnd == Spec => []FlowsSettle
<1>1. Init => FlowInv
  <2>1. Init => \A c \in Conn : conn[c].pc = "idle" /\ conn[c].flow = "none"
    BY FreshIs
  <2> QED
    BY <2>1 DEF FlowInv
<1>2. TypeOK /\ FlowInv /\ [Next]_vars => FlowInv'
  BY FlowStep
<1>3. FlowInv => FlowsSettle
  BY DEF FlowInv, FlowsSettle, At
<1> QED
  BY <1>1, <1>2, <1>3, TypeCorrect, PTL DEF Spec
=============================================================================
