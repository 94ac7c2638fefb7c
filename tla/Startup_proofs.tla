--------------------------- MODULE Startup_proofs ---------------------------
(***************************************************************************)
(* What holds of the generators for every list of endpoints, and of main   *)
(* over any number of starts, for every set of configurations: the ports   *)
(* are dense and never shared, the pool is keyed by RawURI, the dialers    *)
(* serve what the balancer dials, and overrides come back.                 *)
(***************************************************************************)
EXTENDS Startup, FiniteSetTheorems, SequenceTheorems, TLAPS

(* The indexes of a list up to one of them are finitely many.              *)
LEMMA PrefixFinite ==
  ASSUME NEW taken, NEW n \in Nat
  PROVE  /\ IsFiniteSet(taken \cap 1..n)
         /\ Cardinality(taken \cap 1..n) \in Nat
         /\ Cardinality(taken \cap 1..n) <= n
<1>1. IsFiniteSet(1..n) /\ Cardinality(1..n) = n
  BY FS_Interval
<1>2. taken \cap 1..n \subseteq 1..n
  OBVIOUS
<1>3. IsFiniteSet(taken \cap 1..n) /\ Cardinality(taken \cap 1..n) <= Cardinality(1..n)
  BY <1>1, <1>2, FS_Subset
<1>4. QED  BY <1>1, <1>3, FS_CardinalityType

(* A port is between the first and the one of the last endpoint: the       *)
(* generators use no more ports than there are endpoints (singbox, xray    *)
(* and snispoof Generate: port++).                                         *)
THEOREM PortInRange ==
  ASSUME NEW taken, NEW i \in Nat \ {0}, i \in taken
  PROVE  Port(taken, i) \in 1..i
<1>1. /\ IsFiniteSet(taken \cap 1..i)
      /\ Cardinality(taken \cap 1..i) \in Nat
      /\ Cardinality(taken \cap 1..i) <= i
  BY PrefixFinite
<1>2. Cardinality(taken \cap 1..i) # 0
  <2>1. i \in taken \cap 1..i
    OBVIOUS
  <2>2. QED  BY <2>1, <1>1, FS_EmptySet
<1>3. QED  BY <1>1, <1>2 DEF Port

(* Ports grow with the index, one at a time: two endpoints of one dialer   *)
(* never share a listener, however the list is made up.                    *)
THEOREM PortsDistinct ==
  ASSUME NEW taken, NEW i \in Nat \ {0}, NEW j \in Nat \ {0},
         j \in taken, i < j
  PROVE  Port(taken, i) < Port(taken, j)
<1> DEFINE below == taken \cap 1..i
           upto == taken \cap 1..j
<1>1. /\ IsFiniteSet(below) /\ Cardinality(below) \in Nat
      /\ IsFiniteSet(upto) /\ Cardinality(upto) \in Nat
  BY PrefixFinite
<1>2. below \subseteq upto /\ below # upto
  <2>1. j \in upto /\ j \notin below
    OBVIOUS
  <2>2. below \subseteq upto
    OBVIOUS
  <2>3. QED  BY <2>1, <2>2
<1>3. Cardinality(below) < Cardinality(upto)
  BY <1>1, <1>2, FS_Subset
<1>4. QED  BY <1>3 DEF Port

(* No endpoint that a parser can return is taken by both generators:       *)
(* xray.HandlesEndpoint accepts only what the one of sing-box rejects.     *)
THEOREM OneDialerPerEndpoint ==
  ASSUME NEW e, SingboxTakes(e)
  PROVE  ~ XrayTakes(e)
<1>1. CASE StreamOutbound(e) \/ VmessOutbound(e)
  BY <1>1 DEF StreamOutbound, VmessOutbound, SingboxSpeaks, XrayTakes, HandlesEndpoint
<1>2. CASE PlainOutbound(e) \/ WireguardBlock(e)
  BY <1>2 DEF PlainOutbound, WireguardBlock, XrayTakes, XrayOutbound
<1>3. QED  BY <1>1, <1>2 DEF SingboxTakes

-----------------------------------------------------------------------------
(* Every endpoint a parser or EnabledEndpoints returns has the fields the  *)
(* pool keeps.                                                             *)
LEMMA ItemType ==
  ASSUME NEW e \in Item
  PROVE  /\ e.uri \in URI /\ e.addr \in Addr /\ e.proto \in Protocol
         /\ e.net \in Transport /\ e.sec \in Security
         /\ e.fake \in BOOLEAN /\ e.complete \in BOOLEAN /\ e.priority \in Nat
         /\ e.source = None \/ e.source \in Name
<1>1. e.uri \in URI /\ e.addr \in Addr
  BY DEF URI, Addr
<1>2. /\ e.net \in Transport /\ e.sec \in Security
      /\ e.fake \in BOOLEAN /\ e.complete \in BOOLEAN
  BY EntryAssumption
<1>3. e.proto \in Protocol /\ e.priority \in Nat
  <2>1. CASE e \in Entry
    BY <2>1, EntryAssumption
       DEF StreamShape, PlainShape, TunnelShape, MTProxyShape, BundleShape, ConfShape,
           Bare, Untouched, Protocol
  <2>2. CASE e \in Sidecar
    BY <2>2, EntryAssumption DEF SidecarShape, Protocol
  <2>3. QED  BY <2>1, <2>2 DEF Item
<1>4. e.source = None \/ e.source \in Name
  BY EntryAssumption DEF Item, Name
<1>5. QED  BY <1>1, <1>2, <1>3, <1>4

(* main (addEndpoints): what is appended to the pool is an endpoint, not   *)
(* spoofed and, unless it is a sidecar, with no port yet.                  *)
LEMMA NamedType ==
  ASSUME TypeOK, NEW e \in Item, NEW source \in Name
  PROVE  /\ Named(e, source) \in Endpoint
         /\ Named(e, source).via = 0
         /\ e.proto # "sidecar" => Named(e, source).socks = None
<1> DEFINE x == Named(e, source)
<1>1. /\ e.uri \in URI /\ e.addr \in Addr /\ e.proto \in Protocol
      /\ e.net \in Transport /\ e.sec \in Security
      /\ e.fake \in BOOLEAN /\ e.complete \in BOOLEAN /\ e.priority \in Nat
      /\ e.source = None \/ e.source \in Name
  BY ItemType
<1>2. x.id \in (Protocol \X Addr) \cup (Name \X Protocol \X Addr)
  BY <1>1 DEF Named, Namespaced
<1>3. x.source \in Name /\ x.via \in Nat /\ x.socks \in Socks
  BY <1>1 DEF Named, Socks
<1>4. x.enabled \in BOOLEAN /\ x.priority \in Int
  <2>1. saved[e.uri] = None \/ saved[e.uri] \in Override
    BY <1>1 DEF TypeOK
  <2>2. CASE saved[e.uri] = None
    <3>1. Restored(e) = [enabled |-> TRUE, priority |-> e.priority]
      BY <2>2 DEF Restored
    <3>2. QED  BY <1>1, <3>1 DEF Named
  <2>3. CASE saved[e.uri] # None
    <3>1. saved[e.uri].enabled \in BOOLEAN /\ saved[e.uri].priority \in Int
      BY <2>1, <2>3 DEF Override
    <3>2. /\ Restored(e).enabled = saved[e.uri].enabled
          /\ Restored(e).priority \in {saved[e.uri].priority, e.priority}
      BY <2>3 DEF Restored
    <3>3. x.enabled = Restored(e).enabled /\ x.priority = Restored(e).priority
      BY DEF Named
    <3>4. QED  BY <1>1, <3>1, <3>2, <3>3
  <2>4. QED  BY <2>2, <2>3
<1>5. x \in Endpoint
  BY <1>1, <1>2, <1>3, <1>4 DEF Named, Endpoint
<1>6. QED  BY <1>5 DEF Named

(* The port that a generator hands to an endpoint of a list is one of as   *)
(* many as the list is long.                                               *)
LEMMA PortOf ==
  ASSUME NEW eps \in Seq(Endpoint), NEW taken \in SUBSET DOMAIN eps, NEW i \in taken
  PROVE  /\ Port(taken, i) \in 1..Len(eps) /\ Port(taken, i) \in Nat \ {0}
         /\ i \in 1..Len(eps) /\ i \in Nat \ {0}
<1>1. i \in 1..Len(eps) /\ Len(eps) \in Nat
  OBVIOUS
<1>2. Port(taken, i) \in 1..i
  BY <1>1, PortInRange
<1>3. QED  BY <1>1, <1>2

(* A generator writes ports and nothing else.                              *)
Rewrites(new, eps) ==
  /\ new \in Seq(Endpoint) /\ Len(new) = Len(eps) /\ DOMAIN new = DOMAIN eps
  /\ \A i \in DOMAIN eps :
       /\ new[i].id = eps[i].id /\ new[i].uri = eps[i].uri /\ new[i].source = eps[i].source
       /\ new[i].proto = eps[i].proto /\ new[i].addr = eps[i].addr
       /\ new[i].net = eps[i].net /\ new[i].complete = eps[i].complete
       /\ new[i].enabled = eps[i].enabled /\ new[i].priority = eps[i].priority

LEMMA PinnedRewrites ==
  ASSUME NEW eps \in Seq(Endpoint), NEW name \in Dialer, NEW taken \in SUBSET DOMAIN eps
  PROVE  /\ Rewrites(Pinned(eps, name, taken), eps)
         /\ \A i \in DOMAIN eps :
              LET e == Pinned(eps, name, taken)[i] IN
              /\ Server(e) = Server(eps[i]) /\ e.via = eps[i].via
              /\ e.socks = IF i \in taken THEN <<name, Port(taken, i)>> ELSE eps[i].socks
<1> DEFINE new == Pinned(eps, name, taken)
<1>1. DOMAIN eps = 1..Len(eps) /\ Len(eps) \in Nat
  OBVIOUS
<1>2. ASSUME NEW i \in DOMAIN eps
      PROVE  /\ new[i] \in Endpoint
             /\ new[i].id = eps[i].id /\ new[i].uri = eps[i].uri
             /\ new[i].source = eps[i].source /\ new[i].proto = eps[i].proto
             /\ new[i].addr = eps[i].addr /\ new[i].net = eps[i].net
             /\ new[i].sec = eps[i].sec /\ new[i].complete = eps[i].complete
             /\ new[i].enabled = eps[i].enabled /\ new[i].priority = eps[i].priority
             /\ new[i].via = eps[i].via
             /\ new[i].socks = IF i \in taken THEN <<name, Port(taken, i)>> ELSE eps[i].socks
  <2>1. eps[i] \in Endpoint
    OBVIOUS
  <2>2. CASE i \in taken
    <3>1. new[i] = [eps[i] EXCEPT !.socks = <<name, Port(taken, i)>>]
      BY <2>2 DEF Pinned
    <3>2. <<name, Port(taken, i)>> \in Socks
      BY <2>2, PortOf DEF Socks
    <3>3. QED  BY <2>1, <2>2, <3>1, <3>2 DEF Endpoint
  <2>3. CASE i \notin taken
    <3>1. new[i] = eps[i]
      BY <2>3 DEF Pinned
    <3>2. QED  BY <2>1, <2>3, <3>1
  <2>4. QED  BY <2>2, <2>3
<1>3. new \in Seq(Endpoint) /\ Len(new) = Len(eps) /\ DOMAIN new = DOMAIN eps
  <2>1. new \in [1..Len(eps) -> Endpoint]
    BY <1>1, <1>2 DEF Pinned
  <2>2. QED  BY <1>1, <2>1
<1>4. Rewrites(new, eps)
  BY <1>2, <1>3 DEF Rewrites
<1>5. ASSUME NEW i \in DOMAIN eps
      PROVE  Server(new[i]) = Server(eps[i])
  BY <1>2, <1>5 DEF Server, Spoofed
<1>6. QED  BY <1>2, <1>4, <1>5

LEMMA SpoofRewrites ==
  ASSUME NEW eps \in Seq(Endpoint), NEW default
  PROVE  /\ Rewrites(SpoofPinned(eps, default), eps)
         /\ \A i \in DOMAIN eps :
              LET e == SpoofPinned(eps, default)[i] IN
              /\ e.socks = eps[i].socks
              /\ e.via = eps[i].via \/ e.via \in 1..Len(eps)
              /\ e.via = IF i \in SpoofTaken(eps, default)
                         THEN Port(SpoofTaken(eps, default), i) ELSE eps[i].via
<1> DEFINE taken == SpoofTaken(eps, default)
           new == SpoofPinned(eps, default)
<1>1. DOMAIN eps = 1..Len(eps) /\ Len(eps) \in Nat /\ taken \in SUBSET DOMAIN eps
  BY DEF SpoofTaken
<1> HIDE DEF taken
<1>2. ASSUME NEW i \in DOMAIN eps
      PROVE  /\ new[i] \in Endpoint
             /\ new[i].id = eps[i].id /\ new[i].uri = eps[i].uri
             /\ new[i].source = eps[i].source /\ new[i].proto = eps[i].proto
             /\ new[i].addr = eps[i].addr /\ new[i].net = eps[i].net
             /\ new[i].complete = eps[i].complete
             /\ new[i].enabled = eps[i].enabled /\ new[i].priority = eps[i].priority
             /\ new[i].socks = eps[i].socks
             /\ new[i].via = eps[i].via \/ new[i].via \in 1..Len(eps)
             /\ new[i].via = IF i \in taken THEN Port(taken, i) ELSE eps[i].via
  <2>1. eps[i] \in Endpoint
    OBVIOUS
  <2>2. CASE i \in taken
    <3>1. new[i] = [eps[i] EXCEPT !.via = Port(taken, i)]
      BY <2>2 DEF SpoofPinned, taken
    <3>2. Port(taken, i) \in 1..Len(eps) /\ Port(taken, i) \in Nat
      BY <1>1, <2>2, PortOf
    <3>3. QED  BY <2>1, <2>2, <3>1, <3>2 DEF Endpoint
  <2>3. CASE i \notin taken
    <3>1. new[i] = eps[i]
      BY <2>3 DEF SpoofPinned, taken
    <3>2. QED  BY <2>1, <2>3, <3>1
  <2>4. QED  BY <2>2, <2>3
<1>3. new \in Seq(Endpoint) /\ Len(new) = Len(eps) /\ DOMAIN new = DOMAIN eps
  <2>1. new \in [1..Len(eps) -> Endpoint]
    BY <1>1, <1>2 DEF SpoofPinned
  <2>2. QED  BY <1>1, <2>1
<1>4. Rewrites(new, eps)
  BY <1>2, <1>3 DEF Rewrites
<1>5. QED  BY <1>2, <1>4 DEF taken

(* The file a generator of sing-box or xray writes is a set of routes.     *)
LEMMA RoutesType ==
  ASSUME NEW eps \in Seq(Endpoint), NEW taken \in SUBSET DOMAIN eps
  PROVE  Routes(eps, taken) \in SUBSET Route
<1> SUFFICES ASSUME NEW i \in taken
             PROVE  RouteTo(taken, i, eps[i], Server(eps[i])) \in Route
  BY DEF Routes
<1>1. eps[i] \in Endpoint
  OBVIOUS
<1>2. Port(taken, i) \in Nat \ {0}
  BY PortOf
<1>3. eps[i].uri \in URI /\ Server(eps[i]) \in (Addr \cup {"sni-spoof"}) \X Nat
  BY <1>1 DEF Server, Endpoint
<1>4. QED  BY <1>2, <1>3 DEF RouteTo, Route

LEMMA SpoofRoutesType ==
  ASSUME NEW eps \in Seq(Endpoint), NEW default
  PROVE  SpoofRoutes(eps, default) \in SUBSET Route
<1> DEFINE taken == SpoofTaken(eps, default)
<1>1. taken \in SUBSET DOMAIN eps
  BY DEF SpoofTaken
<1> HIDE DEF taken
<1>2. ASSUME NEW i \in taken
      PROVE  RouteTo(taken, i, eps[i], <<eps[i].addr, 0>>) \in Route
  <2>1. eps[i] \in Endpoint
    BY <1>1
  <2>2. Port(taken, i) \in Nat \ {0}
    BY <1>1, PortOf
  <2>3. eps[i].uri \in URI /\ <<eps[i].addr, 0>> \in (Addr \cup {"sni-spoof"}) \X Nat
    BY <2>1 DEF Endpoint
  <2>4. QED  BY <2>2, <2>3 DEF RouteTo, Route
<1>3. QED  BY <1>2 DEF SpoofRoutes, taken

(* The port handed to an endpoint leads to the server of that endpoint,    *)
(* and no other route of the file has that port.                           *)
LEMMA PortIsOf ==
  ASSUME NEW eps \in Seq(Endpoint), NEW taken \in SUBSET DOMAIN eps,
         NEW i \in taken, NEW j \in taken, Port(taken, j) = Port(taken, i)
  PROVE  j = i
<1>1. /\ i \in Nat \ {0} /\ j \in Nat \ {0}
      /\ Port(taken, i) \in Nat /\ Port(taken, j) \in Nat
  BY PortOf
<1>2. ~ (i < j) /\ ~ (j < i)
  BY <1>1, PortsDistinct
<1>3. QED  BY <1>1, <1>2

LEMMA RoutesServe ==
  ASSUME NEW eps \in Seq(Endpoint), NEW taken \in SUBSET DOMAIN eps, NEW i \in taken,
         NEW e, e.uri = eps[i].uri, Server(e) = Server(eps[i])
  PROVE  Serves(Routes(eps, taken), Port(taken, i), e)
<1> DEFINE routes == Routes(eps, taken)
           RouteOf(j) == RouteTo(taken, j, eps[j], Server(eps[j]))
<1>1. ASSUME NEW j \in taken, Port(taken, j) = Port(taken, i)
      PROVE  j = i
  BY <1>1, PortIsOf
<1>2. RouteOf(i) \in routes /\ RouteOf(i).port = Port(taken, i)
  BY DEF Routes, RouteTo
<1>3. ASSUME NEW r \in routes, r.port = Port(taken, i)
      PROVE  r.uri = e.uri /\ r.server = Server(e)
  <2>1. PICK j \in taken : r = RouteOf(j)
    BY DEF Routes
  <2>2. /\ r.port = Port(taken, j) /\ r.uri = eps[j].uri
        /\ r.server = Server(eps[j])
    BY <2>1 DEF RouteTo
  <2>3. j = i
    BY <1>1, <1>3, <2>2
  <2>4. QED  BY <2>2, <2>3
<1>4. QED  BY <1>2, <1>3 DEF Serves, LeadsTo

LEMMA SpoofRoutesServe ==
  ASSUME NEW eps \in Seq(Endpoint), NEW default, NEW i \in SpoofTaken(eps, default)
  PROVE  LeadsTo(SpoofRoutes(eps, default), Port(SpoofTaken(eps, default), i),
                 eps[i].uri, <<eps[i].addr, 0>>)
<1> DEFINE taken == SpoofTaken(eps, default)
           routes == SpoofRoutes(eps, default)
           RouteOf(j) == RouteTo(taken, j, eps[j], <<eps[j].addr, 0>>)
<1>1. taken \in SUBSET DOMAIN eps
  BY DEF SpoofTaken
<1>2. RouteOf(i) \in routes /\ RouteOf(i).port = Port(taken, i)
  BY DEF SpoofRoutes, RouteTo
<1>3. ASSUME NEW r \in routes, r.port = Port(taken, i)
      PROVE  r.uri = eps[i].uri /\ r.server = <<eps[i].addr, 0>>
  <2>1. PICK j \in taken : r = RouteOf(j)
    BY DEF SpoofRoutes
  <2>2. /\ r.port = Port(taken, j) /\ r.uri = eps[j].uri
        /\ r.server = <<eps[j].addr, 0>>
    BY <2>1 DEF RouteTo
  <2>3. j = i
    BY <1>1, <1>3, <2>2, PortIsOf
  <2>4. QED  BY <2>2, <2>3
<1>4. QED  BY <1>2, <1>3 DEF LeadsTo

-----------------------------------------------------------------------------
(* One turn of the loop in addEndpoints: the pool stays as it is, or one   *)
(* endpoint that it did not have is appended.                              *)
Adds(e) ==
  /\ ~ Known(e)
  /\ endpoints' \in Seq(Endpoint) /\ Len(endpoints') = Len(endpoints) + 1
  /\ DOMAIN endpoints' = DOMAIN endpoints \cup {Len(endpoints) + 1}
  /\ \A i \in DOMAIN endpoints : endpoints'[i] = endpoints[i]
  /\ endpoints'[Len(endpoints) + 1] = Named(e, batch.source)

LEMMA AddEndpointTurn ==
  ASSUME TypeOK, AddEndpoint
  PROVE  /\ \E e \in Item : /\ e = Head(Head(batch.lines)) /\ e # Bad
                            /\ endpoints' = endpoints \/ Adds(e)
         /\ batch.lines \in Seq(Seq(Item \cup {Bad})) /\ batch.lines # <<>>
         /\ Head(batch.lines) \in Seq(Item \cup {Bad}) /\ Head(batch.lines) # <<>>
         /\ batch.source \in Name /\ batch.from \in 0..Len(endpoints)
         /\ batch' = [batch EXCEPT !.lines = [batch.lines EXCEPT ![1] = Tail(Head(batch.lines))]]
         /\ endpoints \in Seq(Endpoint) /\ Len(endpoints) \in Nat
<1> DEFINE line == Head(batch.lines)
           e == Head(line)
           x == Named(e, batch.source)
<1>1. /\ batch.lines \in Seq(Seq(Item \cup {Bad})) /\ batch.lines # <<>>
      /\ line \in Seq(Item \cup {Bad}) /\ line # <<>>
      /\ batch.source \in Name /\ batch.from \in 0..Len(endpoints)
      /\ endpoints \in Seq(Endpoint) /\ Len(endpoints) \in Nat
  BY DEF AddEndpoint, TypeOK
<1>2. e \in Item /\ e # Bad
  <2>1. e = line[1] /\ 1 \in DOMAIN line /\ e \in Item \cup {Bad}
    BY <1>1
  <2>2. e # Bad
    BY <2>1 DEF AddEndpoint, Parses, ToSet
  <2>3. QED  BY <2>1, <2>2
<1>3. batch' = [batch EXCEPT !.lines = [batch.lines EXCEPT ![1] = Tail(line)]]
  <2>1. batch.lines[1] = line
    BY <1>1
  <2>2. batch' = [batch EXCEPT !.lines = [batch.lines EXCEPT ![1] = Tail(batch.lines[1])]]
    BY DEF AddEndpoint, TypeOK
  <2>3. QED  BY <2>1, <2>2
<1>4. x \in Endpoint
  BY <1>1, <1>2, NamedType
<1>5. endpoints' = endpoints \/ (~ Known(e) /\ endpoints' = Append(endpoints, x))
  BY DEF AddEndpoint
<1> HIDE DEF e, x, line
<1>6. ASSUME ~ Known(e), endpoints' = Append(endpoints, x)
      PROVE  Adds(e)
  <2>1. endpoints' \in Seq(Endpoint) /\ Len(endpoints') = Len(endpoints) + 1
    BY <1>1, <1>4, <1>6
  <2>2. /\ DOMAIN endpoints = 1..Len(endpoints)
        /\ DOMAIN endpoints' = 1..(Len(endpoints) + 1)
    BY <1>1, <2>1
  <2>3. /\ \A i \in 1..Len(endpoints) : endpoints'[i] = endpoints[i]
        /\ endpoints'[Len(endpoints) + 1] = x
    BY <1>1, <1>4, <1>6
  <2>4. \A n \in Nat : 1..(n + 1) = 1..n \cup {n + 1}
    OBVIOUS
  <2>5. QED  BY <1>1, <1>6, <2>1, <2>2, <2>3, <2>4 DEF Adds, x
<1>7. QED  BY <1>1, <1>2, <1>3, <1>5, <1>6 DEF e, line

-----------------------------------------------------------------------------
(* A step of main or of a container keeps the types, and no port goes      *)
(* beyond the number of endpoints.                                         *)
LEMMA AddEndpointType ==
  ASSUME TypeOK, AddEndpoint
  PROVE  TypeOK'
<1> PICK e \in Item : e # Bad /\ (endpoints' = endpoints \/ Adds(e))
  BY AddEndpointTurn
<1> DEFINE lines == [batch.lines EXCEPT ![1] = Tail(Head(batch.lines))]
<1>1. /\ batch.lines \in Seq(Seq(Item \cup {Bad})) /\ batch.lines # <<>>
      /\ Head(batch.lines) \in Seq(Item \cup {Bad}) /\ Head(batch.lines) # <<>>
      /\ batch.source \in Name /\ batch.from \in 0..Len(endpoints)
      /\ batch' = [batch EXCEPT !.lines = lines]
      /\ endpoints \in Seq(Endpoint) /\ Len(endpoints) \in Nat
  BY AddEndpointTurn
<1>2. lines \in Seq(Seq(Item \cup {Bad}))
  <2>1. Tail(Head(batch.lines)) \in Seq(Item \cup {Bad}) /\ 1 \in 1..Len(batch.lines)
    BY <1>1
  <2>2. QED  BY <1>1, <2>1, ExceptSeq
<1>3. /\ endpoints' \in Seq(Endpoint)
      /\ Len(endpoints') \in Nat /\ Len(endpoints) <= Len(endpoints')
  BY <1>1 DEF Adds
<1>4. /\ 0..Len(endpoints) \subseteq 0..Len(endpoints')
      /\ 1..Len(endpoints) \subseteq 1..Len(endpoints')
  BY <1>1, <1>3
<1>5. batch' \in [source : Name, lines : Seq(Seq(Item \cup {Bad})), from : 0..Len(endpoints')]
  <2>1. batch \in [source : Name, lines : Seq(Seq(Item \cup {Bad})), from : 0..Len(endpoints')]
    BY <1>4 DEF TypeOK
  <2>2. QED  BY <1>1, <1>2, <2>1
<1>6. ASSUME NEW i \in DOMAIN endpoints'
      PROVE  /\ endpoints'[i].via \in 0..Len(endpoints')
             /\ endpoints'[i].proto # "sidecar" =>
                  endpoints'[i].socks \in {None} \cup (Dialer \X (1..Len(endpoints')))
  <2>1. CASE i \in DOMAIN endpoints /\ endpoints'[i] = endpoints[i]
    <3>1. /\ endpoints[i].via \in 0..Len(endpoints)
          /\ endpoints[i].proto # "sidecar" =>
               endpoints[i].socks \in {None} \cup (Dialer \X (1..Len(endpoints)))
      BY <2>1 DEF TypeOK
    <3>2. QED  BY <1>4, <2>1, <3>1
  <2>2. CASE endpoints'[i] = Named(e, batch.source)
    <3>1. /\ Named(e, batch.source).via = 0 /\ Named(e, batch.source).proto = e.proto
          /\ e.proto # "sidecar" => Named(e, batch.source).socks = None
      BY <1>1, NamedType DEF Named
    <3>2. 0 \in 0..Len(endpoints')
      BY <1>3
    <3>3. QED  BY <2>2, <3>1, <3>2
  <2>3. QED  BY <2>1, <2>2 DEF Adds
<1>7. UNCHANGED <<pc, config, todo, saved, written, loaded, restarting, history>>
  BY DEF AddEndpoint
<1>8. QED  BY <1>3, <1>5, <1>6, <1>7 DEF TypeOK, history

LEMMA HeadIn ==
  ASSUME NEW S, NEW s \in Seq(S), s # <<>>
  PROVE  Head(s) \in S
  OBVIOUS

LEMMA SeqMonotone ==
  ASSUME NEW S, NEW T, S \subseteq T
  PROVE  Seq(S) \subseteq Seq(T)
<1> SUFFICES ASSUME NEW s \in Seq(S)
             PROVE  s \in Seq(T)
  OBVIOUS
<1>1. Len(s) \in Nat /\ s \in [1..Len(s) -> S]
  OBVIOUS
<1>2. s \in [1..Len(s) -> T]
  BY <1>1
<1>3. QED  BY <1>1, <1>2

LEMMA LinesType ==
  /\ Seq(Seq(Entry \cup {Bad})) \subseteq Seq(Seq(Item \cup {Bad}))
  /\ Seq(Seq(Sidecar)) \subseteq Seq(Seq(Item \cup {Bad}))
<1>1. /\ Entry \cup {Bad} \subseteq Item \cup {Bad}
      /\ Sidecar \subseteq Item \cup {Bad}
  BY DEF Item
<1>2. /\ Seq(Entry \cup {Bad}) \subseteq Seq(Item \cup {Bad})
      /\ Seq(Sidecar) \subseteq Seq(Item \cup {Bad})
  BY <1>1, SeqMonotone
<1>3. QED  BY <1>2, SeqMonotone

LEMMA BatchType ==
  ASSUME NEW b \in Batch
  PROVE  /\ b.source \in Name /\ b.source # "sidecars"
         /\ b.lines \in Seq(Seq(Entry \cup {Bad}))
<1>1. PICK c \in Config : b \in ToSet(c.batches)
  BY DEF Batch
<1>2. QED  BY <1>1, ConfigAssumption DEF Name

(* A PATCH of one endpoint changes its overrides and no other endpoint.    *)
LEMMA PatchRewrites ==
  ASSUME TypeOK, NEW i \in DOMAIN endpoints,
         NEW o \in [enabled : BOOLEAN, priority : Priority], Patch(i, o)
  PROVE  /\ endpoints' \in Seq(Endpoint) /\ Len(endpoints') = Len(endpoints)
         /\ DOMAIN endpoints' = DOMAIN endpoints
         /\ \A j \in DOMAIN endpoints \ {i} : endpoints'[j] = endpoints[j]
         /\ endpoints'[i] = [endpoints[i] EXCEPT !.enabled = o.enabled, !.priority = o.priority]
         /\ o \in Override
<1>1. endpoints \in Seq(Endpoint) /\ endpoints[i] \in Endpoint /\ Len(endpoints) \in Nat
      /\ i \in 1..Len(endpoints)
  BY DEF TypeOK
<1>2. o.enabled \in BOOLEAN /\ o.priority \in Int /\ o \in Override
  BY ValueAssumption DEF Override
<1> DEFINE e == [endpoints[i] EXCEPT !.enabled = o.enabled, !.priority = o.priority]
<1>3. e \in Endpoint
  BY <1>1, <1>2 DEF Endpoint
<1>4. endpoints' = [endpoints EXCEPT ![i] = e]
  BY <1>1 DEF Patch, Endpoint
<1> HIDE DEF e
<1>5. endpoints' \in Seq(Endpoint) /\ Len(endpoints') = Len(endpoints)
  BY <1>1, <1>3, <1>4, ExceptSeq
<1>6. /\ DOMAIN endpoints' = DOMAIN endpoints /\ endpoints'[i] = e
      /\ \A j \in DOMAIN endpoints \ {i} : endpoints'[j] = endpoints[j]
  BY <1>1, <1>4
<1>7. QED  BY <1>2, <1>5, <1>6 DEF e

LEMMA SavedType ==
  ASSUME NEW eps \in Seq(Endpoint)
  PROVE  /\ Saved(eps) \in [URI -> Override \cup {None}]
         /\ \A u \in URI : u \in Uris(eps) =>
              \E i \in DOMAIN eps : eps[i].uri = u /\ Saved(eps)[u] = OverrideOf(eps[i])
<1>1. ASSUME NEW u \in URI, \E i \in DOMAIN eps : eps[i].uri = u
      PROVE  /\ Saved(eps)[u] \in Override
             /\ \E i \in DOMAIN eps : eps[i].uri = u /\ Saved(eps)[u] = OverrideOf(eps[i])
  <2> DEFINE i == CHOOSE i \in DOMAIN eps : eps[i].uri = u
  <2>1. i \in DOMAIN eps /\ eps[i].uri = u
    BY <1>1
  <2>2. Saved(eps)[u] = OverrideOf(eps[i])
    BY <1>1 DEF Saved
  <2> HIDE DEF i
  <2>3. eps[i] \in Endpoint
    BY <2>1
  <2>4. OverrideOf(eps[i]) \in Override
    BY <2>3 DEF OverrideOf, Override, Endpoint
  <2>5. QED  BY <2>1, <2>2, <2>4
<1>2. ASSUME NEW u \in URI, ~ \E i \in DOMAIN eps : eps[i].uri = u
      PROVE  Saved(eps)[u] = None
  BY <1>2 DEF Saved
<1>3. Saved(eps) \in [URI -> Override \cup {None}]
  <2>1. ASSUME NEW u \in URI
        PROVE  Saved(eps)[u] \in Override \cup {None}
    BY <1>1, <1>2
  <2>2. Saved(eps) = [u \in URI |-> Saved(eps)[u]]
    BY DEF Saved
  <2>3. QED  BY <2>1, <2>2
<1>4. QED  BY <1>1, <1>3 DEF Uris

LEMMA LoadType ==
  ASSUME TypeOK, Start \/ LoadBatch \/ LoadFails \/ AddSidecars \/ NextLine
  PROVE  TypeOK'
<1> DEFINE Lines == Seq(Seq(Item \cup {Bad}))
           B == [source : Name, lines : Lines, from : 0..Len(endpoints)]
<1>1. /\ batch \in B /\ todo \in Seq(Batch) /\ Len(endpoints) \in 0..Len(endpoints)
      /\ Len(endpoints) \in Nat
  BY DEF TypeOK
<1>2. "sidecars" \in Name
  BY DEF Name
<1> HIDE DEF Lines
<1>3. CASE Start
  <2>1. PICK c \in Config : config' = c /\ todo' = c.batches
    BY <1>3 DEF Start
  <2>2. todo' \in Seq(Batch) /\ pc' = "load" /\ config' \in Config /\ failed' = {}
    BY <1>3, <2>1, ConfigAssumption DEF Start
  <2>3. UNCHANGED <<batch, endpoints, saved, written, loaded, restarting, wish, remembered>>
    BY <1>3 DEF Start
  <2>4. QED  BY <2>2, <2>3 DEF TypeOK
<1>4. CASE LoadBatch
  <2>1. Head(todo) \in Batch /\ Tail(todo) \in Seq(Batch)
    BY <1>1, <1>4 DEF LoadBatch
  <2>2. Head(todo).source \in Name /\ Head(todo).lines \in Lines
    BY <2>1, BatchType, LinesType DEF Lines
  <2>3. BatchOf(Head(todo).source, Head(todo).lines) \in B
    BY <1>1, <2>2 DEF BatchOf
  <2>4. /\ batch' \in B /\ todo' \in Seq(Batch)
        /\ UNCHANGED <<pc, config, endpoints, saved, written, loaded, restarting, history>>
    BY <1>4, <2>1, <2>3 DEF LoadBatch
  <2>5. QED  BY <2>4 DEF TypeOK, history, Lines
<1>5. CASE LoadFails
  <2>1. Tail(todo) \in Seq(Batch)
    BY <1>1, <1>5 DEF LoadFails
  <2>2. /\ todo' \in Seq(Batch)
        /\ UNCHANGED <<pc, config, batch, endpoints, saved, written, loaded, restarting, history>>
    BY <1>5, <2>1 DEF LoadFails
  <2>3. QED  BY <2>2 DEF TypeOK, history
<1>6. CASE AddSidecars
  <2>1. config \in Config
    BY <1>6 DEF AddSidecars, TypeOK
  <2>2. <<config.sidecars>> \in Lines
    <3>1. config.sidecars \in Seq(Sidecar)
      BY <2>1, ConfigAssumption
    <3>2. <<config.sidecars>> \in Seq(Seq(Sidecar))
      BY <3>1
    <3>3. QED  BY <3>2, LinesType DEF Lines
  <2>3. BatchOf("sidecars", <<config.sidecars>>) \in B
    BY <1>1, <1>2, <2>2 DEF BatchOf
  <2>4. /\ batch' \in B /\ pc = "load" /\ pc' = "sidecars"
        /\ UNCHANGED <<config, todo, endpoints, saved, written, loaded, restarting, history>>
    BY <1>6, <2>3 DEF AddSidecars
  <2>5. QED  BY <2>1, <2>4 DEF TypeOK, history, Lines
<1>7. CASE NextLine
  <2>1. batch.lines # <<>> /\ batch' = [batch EXCEPT !.lines = Tail(batch.lines)]
    BY <1>7 DEF NextLine
  <2>2. Tail(batch.lines) \in Lines
    BY <1>1, <2>1 DEF Lines
  <2>3. batch' \in B
    BY <1>1, <2>1, <2>2
  <2>4. UNCHANGED <<pc, config, todo, endpoints, saved, written, loaded, restarting, history>>
    BY <1>7 DEF NextLine
  <2>5. QED  BY <2>3, <2>4 DEF TypeOK, history, Lines
<1>8. QED  BY <1>3, <1>4, <1>5, <1>6, <1>7

(* What holds of the pool holds of the one with the ports written into it. *)
LEMMA PortsType ==
  ASSUME TypeOK, NEW new, Rewrites(new, endpoints), endpoints' = new,
         \A i \in DOMAIN endpoints :
           /\ new[i].via = endpoints[i].via \/ new[i].via \in 1..Len(endpoints)
           /\ \/ new[i].socks = endpoints[i].socks
              \/ new[i].socks \in Dialer \X (1..Len(endpoints))
  PROVE  /\ endpoints' \in Seq(Endpoint) /\ Len(endpoints') = Len(endpoints)
         /\ \A i \in DOMAIN endpoints' :
              /\ endpoints'[i].via \in 0..Len(endpoints')
              /\ endpoints'[i].proto # "sidecar" =>
                   endpoints'[i].socks \in {None} \cup (Dialer \X (1..Len(endpoints')))
<1>1. /\ new \in Seq(Endpoint) /\ Len(new) = Len(endpoints) /\ DOMAIN new = DOMAIN endpoints
      /\ \A i \in DOMAIN endpoints : new[i].proto = endpoints[i].proto
  BY DEF Rewrites
<1>2. 1..Len(endpoints) \subseteq 0..Len(endpoints)
  BY DEF TypeOK
<1>3. ASSUME NEW i \in DOMAIN endpoints
      PROVE  /\ new[i].via \in 0..Len(endpoints)
             /\ new[i].proto # "sidecar" =>
                  new[i].socks \in {None} \cup (Dialer \X (1..Len(endpoints)))
  <2>1. /\ endpoints[i].via \in 0..Len(endpoints)
        /\ endpoints[i].proto # "sidecar" =>
             endpoints[i].socks \in {None} \cup (Dialer \X (1..Len(endpoints)))
    BY DEF TypeOK
  <2>2. QED  BY <1>1, <1>2, <2>1
<1>4. QED  BY <1>1, <1>3

LEMMA PinnedPorts ==
  ASSUME TypeOK, NEW name \in Dialer, NEW taken \in SUBSET DOMAIN endpoints,
         endpoints' = Pinned(endpoints, name, taken)
  PROVE  /\ endpoints' \in Seq(Endpoint) /\ Len(endpoints') = Len(endpoints)
         /\ \A i \in DOMAIN endpoints' :
              /\ endpoints'[i].via \in 0..Len(endpoints')
              /\ endpoints'[i].proto # "sidecar" =>
                   endpoints'[i].socks \in {None} \cup (Dialer \X (1..Len(endpoints')))
<1> DEFINE new == Pinned(endpoints, name, taken)
<1>1. endpoints \in Seq(Endpoint)
  BY DEF TypeOK
<1>2. /\ Rewrites(new, endpoints)
      /\ \A i \in DOMAIN endpoints :
           /\ new[i].via = endpoints[i].via
           /\ new[i].socks = IF i \in taken THEN <<name, Port(taken, i)>> ELSE endpoints[i].socks
  BY <1>1, PinnedRewrites
<1> HIDE DEF new
<1>3. ASSUME NEW i \in DOMAIN endpoints
      PROVE  \/ new[i].socks = endpoints[i].socks
             \/ new[i].socks \in Dialer \X (1..Len(endpoints))
  <2>1. CASE i \in taken
    <3>1. Port(taken, i) \in 1..Len(endpoints)
      BY <1>1, <2>1, PortOf
    <3>2. new[i].socks = <<name, Port(taken, i)>>
      BY <1>2, <2>1
    <3>3. <<name, Port(taken, i)>> \in Dialer \X (1..Len(endpoints))
      BY <3>1
    <3>4. QED  BY <3>2, <3>3
  <2>2. CASE i \notin taken
    BY <1>2, <2>2
  <2>3. QED  BY <2>1, <2>2
<1>4. endpoints' = new
  BY DEF new
<1>5. QED  BY <1>2, <1>3, <1>4, PortsType

LEMMA GenerateType ==
  ASSUME TypeOK, GenerateSpoof \/ GenerateSingbox \/ GenerateXray
  PROVE  TypeOK'
<1>1. /\ endpoints \in Seq(Endpoint)
      /\ SingboxTaken(endpoints) \in SUBSET DOMAIN endpoints
      /\ XrayTaken(endpoints) \in SUBSET DOMAIN endpoints
  BY DEF TypeOK, SingboxTaken, XrayTaken
<1>2. /\ SpoofRoutes(endpoints, config.fakeSNI) \in SUBSET Route
      /\ SingboxRoutes(endpoints) \in SUBSET Route /\ XrayRoutes(endpoints) \in SUBSET Route
  BY <1>1, RoutesType, SpoofRoutesType DEF SingboxRoutes, XrayRoutes
<1>3. ASSUME NEW d \in Dialer, NEW routes \in SUBSET Route, WriteFile(d, routes)
      PROVE  written' \in [Dialer -> SUBSET Route] /\ failed' \subseteq Dialer
  BY <1>3 DEF WriteFile, TypeOK
<1>4. "sni-spoof" \in Dialer /\ "singbox" \in Dialer /\ "xray" \in Dialer
  BY DEF Dialer
<1>5. ASSUME NEW d \in {"singbox", "xray"}, RestartContainer(d)
      PROVE  restarting' \subseteq {"singbox", "xray"}
  BY <1>5 DEF RestartContainer, TypeOK
<1>6. /\ written' \in [Dialer -> SUBSET Route] /\ failed' \subseteq Dialer
      /\ restarting' \subseteq {"singbox", "xray"}
  <2>1. CASE GenerateSpoof
    <3>1. restarting' \subseteq {"singbox", "xray"}
      BY <2>1 DEF GenerateSpoof, TypeOK
    <3>2. \/ UNCHANGED <<written, failed>>
          \/ WriteFile("sni-spoof", SpoofRoutes(endpoints, config.fakeSNI))
      BY <2>1 DEF GenerateSpoof
    <3>3. QED  BY <1>2, <1>3, <1>4, <3>1, <3>2 DEF TypeOK
  <2>2. CASE GenerateSingbox
    <3>1. WriteFile("singbox", SingboxRoutes(endpoints)) /\ RestartContainer("singbox")
      BY <2>2 DEF GenerateSingbox
    <3>2. QED  BY <1>2, <1>3, <1>4, <1>5, <3>1
  <2>3. CASE GenerateXray
    <3>1. \/ UNCHANGED <<written, failed, restarting>>
          \/ WriteFile("xray", XrayRoutes(endpoints)) /\ RestartContainer("xray")
      BY <2>3 DEF GenerateXray
    <3>2. QED  BY <1>2, <1>3, <1>4, <1>5, <3>1 DEF TypeOK
  <2>4. QED  BY <2>1, <2>2, <2>3
<1>7. /\ endpoints' \in Seq(Endpoint) /\ Len(endpoints') = Len(endpoints)
      /\ \A i \in DOMAIN endpoints' :
           /\ endpoints'[i].via \in 0..Len(endpoints')
           /\ endpoints'[i].proto # "sidecar" =>
                endpoints'[i].socks \in {None} \cup (Dialer \X (1..Len(endpoints')))
  <2>1. CASE GenerateSpoof
    <3>1. endpoints' = SpoofPinned(endpoints, config.fakeSNI)
      BY <2>1 DEF GenerateSpoof
    <3>2. QED  BY <1>1, <3>1, SpoofRewrites, PortsType
  <2>2. CASE GenerateSingbox
    <3>1. endpoints' = Pinned(endpoints, "singbox", SingboxTaken(endpoints))
      BY <2>2 DEF GenerateSingbox, SingboxPinned
    <3>2. QED  BY <1>1, <1>4, <3>1, PinnedPorts
  <2>3. CASE GenerateXray
    <3>1. endpoints' = Pinned(endpoints, "xray", XrayTaken(endpoints))
      BY <2>3 DEF GenerateXray, XrayPinned
    <3>2. QED  BY <1>1, <1>4, <3>1, PinnedPorts
  <2>4. QED  BY <2>1, <2>2, <2>3
<1>8. /\ pc # "down" /\ pc' \in {"singbox", "xray", "running"}
      /\ UNCHANGED <<loading, saved, loaded, wish, remembered>>
  BY DEF GenerateSpoof, GenerateSingbox, GenerateXray, Generates
<1>9. QED  BY <1>6, <1>7, <1>8 DEF TypeOK, loading, Dialer

(* The types hold at every state (main and the generators).                *)
LEMMA TypeInit == Init => TypeOK
<1> SUFFICES ASSUME Init PROVE TypeOK
  OBVIOUS
<1>1. NoBatch \in [source : Name, lines : Seq(Seq(Item \cup {Bad})), from : 0..0]
  BY DEF NoBatch, Name
<1>2. endpoints = <<>> /\ Len(endpoints) = 0 /\ endpoints \in Seq(Endpoint)
  BY DEF Init
<1>3. batch \in [source : Name, lines : Seq(Seq(Item \cup {Bad})), from : 0..Len(endpoints)]
  BY <1>1, <1>2 DEF Init
<1>4. /\ saved \in [URI -> Override \cup {None}] /\ wish \in [URI -> Override \cup {None}]
      /\ written \in [Dialer -> SUBSET Route] /\ loaded \in [Dialer -> SUBSET Route]
  BY DEF Init
<1>5. /\ pc = "down" /\ config = None /\ todo = <<>> /\ todo \in Seq(Batch)
      /\ restarting = {} /\ failed = {} /\ remembered = {}
  BY DEF Init
<1>6. QED  BY <1>2, <1>3, <1>4, <1>5 DEF TypeOK

LEMMA TypeStep == TypeOK /\ [Next]_vars => TypeOK'
<1> SUFFICES ASSUME TypeOK, [Next]_vars PROVE TypeOK'
  OBVIOUS
<1>1. CASE Start \/ LoadBatch \/ LoadFails \/ AddSidecars \/ NextLine
  BY <1>1, LoadType
<1>2. CASE AddEndpoint
  BY <1>2, AddEndpointType
<1>3. CASE SidecarsAdded
  BY <1>3 DEF SidecarsAdded, TypeOK, loading, history, Dialer
<1>4. CASE GenerateSpoof \/ GenerateSingbox \/ GenerateXray
  BY <1>4, GenerateType
<1>5. ASSUME NEW d \in Dialer, SkipDialer(d)
      PROVE  TypeOK'
  <2>1. pc # "down" /\ pc' \in {"singbox", "xray", "running"}
    BY <1>5 DEF SkipDialer, Dialer, Next_
  <2>2. UNCHANGED <<loading, endpoints, saved, written, loaded, restarting, history>>
    BY <1>5 DEF SkipDialer
  <2>3. QED  BY <2>1, <2>2 DEF TypeOK, loading, history, Dialer
<1>6. ASSUME NEW d \in Dialer, ContainerRestarted(d) \/ ContainerStarts(d)
      PROVE  TypeOK'
  <2>1. /\ restarting' \subseteq {"singbox", "xray"} /\ loaded' \in [Dialer -> SUBSET Route]
        /\ UNCHANGED <<pc, loading, endpoints, saved, written, history>>
    BY <1>6 DEF ContainerRestarted, ContainerStarts, TypeOK
  <2>2. QED  BY <2>1 DEF TypeOK, loading, history
<1>7. ASSUME NEW d \in Dialer, RestartFails(d)
      PROVE  TypeOK'
  <2>1. /\ restarting' \subseteq {"singbox", "xray"} /\ failed' \subseteq Dialer
        /\ UNCHANGED <<pc, loading, endpoints, saved, written, loaded, wish, remembered>>
    BY <1>7 DEF RestartFails, TypeOK
  <2>2. QED  BY <2>1 DEF TypeOK, loading
<1>8. CASE Save
  <2>1. saved' \in [URI -> Override \cup {None}]
    BY <1>8, SavedType DEF Save, TypeOK
  <2>2. /\ remembered' \subseteq URI
        /\ UNCHANGED <<pc, loading, endpoints, written, loaded, restarting, failed, wish>>
    BY <1>8 DEF Save, TypeOK
  <2>3. QED  BY <2>1, <2>2 DEF TypeOK, loading
<1>9. ASSUME NEW i \in DOMAIN endpoints,
             NEW o \in [enabled : BOOLEAN, priority : Priority], Patch(i, o)
      PROVE  TypeOK'
  <2>1. /\ endpoints' \in Seq(Endpoint) /\ Len(endpoints') = Len(endpoints)
        /\ DOMAIN endpoints' = DOMAIN endpoints
        /\ \A j \in DOMAIN endpoints \ {i} : endpoints'[j] = endpoints[j]
        /\ endpoints'[i] = [endpoints[i] EXCEPT !.enabled = o.enabled, !.priority = o.priority]
        /\ o \in Override
    BY <1>9, PatchRewrites
  <2>2. endpoints[i] \in Endpoint
    BY DEF TypeOK
  <2>3. ASSUME NEW j \in DOMAIN endpoints
        PROVE  /\ endpoints'[j].via = endpoints[j].via /\ endpoints'[j].proto = endpoints[j].proto
               /\ endpoints'[j].socks = endpoints[j].socks
    <3>1. CASE j = i
      BY <2>1, <2>2, <3>1 DEF Endpoint
    <3>2. CASE j # i
      BY <2>1, <3>2
    <3>3. QED  BY <3>1, <3>2
  <2>4. saved' \in [URI -> Override \cup {None}]
    BY <1>9, <2>1, SavedType DEF Patch
  <2>5. endpoints[i].uri \in URI
    BY <2>2 DEF Endpoint
  <2>6. wish' \in [URI -> Override \cup {None}] /\ remembered' \subseteq URI
    BY <1>9, <2>1, <2>5 DEF Patch, TypeOK
  <2>7. UNCHANGED <<pc, loading, written, loaded, restarting, failed>>
    BY <1>9 DEF Patch
  <2>8. QED  BY <2>1, <2>3, <2>4, <2>6, <2>7 DEF TypeOK, loading
<1>10. CASE Stop
  <2>1. NoBatch \in [source : Name, lines : Seq(Seq(Item \cup {Bad})), from : 0..0]
    BY DEF NoBatch, Name
  <2>2. endpoints' = <<>> /\ Len(endpoints') = 0 /\ endpoints' \in Seq(Endpoint)
    BY <1>10 DEF Stop
  <2>3. batch' \in [source : Name, lines : Seq(Seq(Item \cup {Bad})), from : 0..Len(endpoints')]
    BY <1>10, <2>1, <2>2 DEF Stop
  <2>4. /\ pc' = "down" /\ config' = None /\ todo' \in Seq(Batch) /\ restarting' = {}
        /\ UNCHANGED <<saved, written, loaded, history>>
    BY <1>10 DEF Stop
  <2>5. QED  BY <2>2, <2>3, <2>4 DEF TypeOK, history
<1>11. CASE UNCHANGED vars
  BY <1>11 DEF vars, TypeOK, loading, history
<1>12. QED
  BY <1>1, <1>2, <1>3, <1>4, <1>5, <1>6, <1>7, <1>8, <1>9, <1>10, <1>11 DEF Next

THEOREM TypeCorrect == Spec => []TypeOK
  BY TypeInit, TypeStep, PTL DEF Spec

-----------------------------------------------------------------------------
(* Of each endpoint, what only addEndpoints sets.                          *)
Keeps ==
  /\ DOMAIN endpoints' = DOMAIN endpoints
  /\ \A i \in DOMAIN endpoints :
       /\ endpoints'[i].id = endpoints[i].id /\ endpoints'[i].uri = endpoints[i].uri
       /\ endpoints'[i].source = endpoints[i].source
       /\ endpoints'[i].proto = endpoints[i].proto /\ endpoints'[i].addr = endpoints[i].addr
       /\ endpoints'[i].net = endpoints[i].net
       /\ endpoints'[i].complete = endpoints[i].complete

LEMMA GenerateKeeps ==
  ASSUME TypeOK, GenerateSpoof \/ GenerateSingbox \/ GenerateXray
  PROVE  Rewrites(endpoints', endpoints)
<1>1. /\ endpoints \in Seq(Endpoint) /\ "singbox" \in Dialer /\ "xray" \in Dialer
      /\ SingboxTaken(endpoints) \in SUBSET DOMAIN endpoints
      /\ XrayTaken(endpoints) \in SUBSET DOMAIN endpoints
  BY DEF TypeOK, SingboxTaken, XrayTaken, Dialer
<1>2. CASE GenerateSpoof
  BY <1>1, <1>2, SpoofRewrites DEF GenerateSpoof
<1>3. CASE GenerateSingbox
  BY <1>1, <1>3, PinnedRewrites DEF GenerateSingbox, SingboxPinned
<1>4. CASE GenerateXray
  BY <1>1, <1>4, PinnedRewrites DEF GenerateXray, XrayPinned
<1>5. QED  BY <1>2, <1>3, <1>4

(* A step starts the pool anew, adds one endpoint, or keeps all of them.   *)
LEMMA PoolStep ==
  ASSUME TypeOK, [Next]_vars
  PROVE  Stop \/ AddEndpoint \/ Keeps
<1>1. CASE UNCHANGED endpoints
  BY <1>1 DEF Keeps
<1>2. CASE GenerateSpoof \/ GenerateSingbox \/ GenerateXray
  BY <1>2, GenerateKeeps DEF Rewrites, Keeps
<1>3. ASSUME NEW i \in DOMAIN endpoints,
             NEW o \in [enabled : BOOLEAN, priority : Priority], Patch(i, o)
      PROVE  Keeps
  <2>1. /\ DOMAIN endpoints' = DOMAIN endpoints
        /\ \A j \in DOMAIN endpoints \ {i} : endpoints'[j] = endpoints[j]
        /\ endpoints'[i] = [endpoints[i] EXCEPT !.enabled = o.enabled, !.priority = o.priority]
    BY <1>3, PatchRewrites
  <2>2. endpoints[i] \in Endpoint
    BY DEF TypeOK
  <2>3. /\ endpoints'[i].id = endpoints[i].id /\ endpoints'[i].uri = endpoints[i].uri
        /\ endpoints'[i].source = endpoints[i].source
        /\ endpoints'[i].proto = endpoints[i].proto /\ endpoints'[i].addr = endpoints[i].addr
        /\ endpoints'[i].net = endpoints[i].net
        /\ endpoints'[i].complete = endpoints[i].complete
    BY <2>1, <2>2 DEF Endpoint
  <2>4. QED  BY <2>1, <2>3 DEF Keeps
<1>4. CASE Start \/ LoadBatch \/ LoadFails \/ AddSidecars \/ NextLine \/ SidecarsAdded
  BY <1>1, <1>4 DEF Start, LoadBatch, LoadFails, AddSidecars, NextLine, SidecarsAdded
<1>5. ASSUME NEW d \in Dialer,
             SkipDialer(d) \/ ContainerRestarted(d) \/ RestartFails(d) \/ ContainerStarts(d)
      PROVE  Stop \/ AddEndpoint \/ Keeps
  <2>1. UNCHANGED endpoints
    BY <1>5 DEF SkipDialer, ContainerRestarted, RestartFails, ContainerStarts
  <2>2. QED  BY <1>1, <2>1
<1>6. CASE Save \/ UNCHANGED vars
  BY <1>1, <1>6 DEF Save, vars
<1>7. QED  BY <1>2, <1>3, <1>4, <1>5, <1>6 DEF Next

LEMMA UniqueStep == TypeOK /\ URIsUnique /\ [Next]_vars => URIsUnique'
<1> SUFFICES ASSUME TypeOK, URIsUnique, [Next]_vars PROVE URIsUnique'
  OBVIOUS
<1>1. CASE Stop
  BY <1>1 DEF Stop, URIsUnique
<1>2. CASE Keeps
  BY <1>2 DEF Keeps, URIsUnique
<1>3. CASE AddEndpoint
  <2>1. PICK e \in Item : endpoints' = endpoints \/ Adds(e)
    BY <1>3, AddEndpointTurn
  <2>2. CASE endpoints' = endpoints
    BY <2>2 DEF URIsUnique
  <2>3. CASE Adds(e)
    <3> DEFINE n == Len(endpoints) + 1
    <3>1. /\ DOMAIN endpoints' = DOMAIN endpoints \cup {n}
          /\ \A i \in DOMAIN endpoints : endpoints'[i] = endpoints[i]
          /\ endpoints'[n].uri = e.uri
      BY <2>3 DEF Adds, Named
    <3>2. \A i \in DOMAIN endpoints : endpoints[i].uri # e.uri
      BY <2>3 DEF Adds, Known
    <3> HIDE DEF n
    <3>3. QED  BY <3>1, <3>2 DEF URIsUnique
  <2>4. QED  BY <2>1, <2>2, <2>3
<1>4. QED  BY <1>1, <1>2, <1>3, PoolStep

(* A pool never has a RawURI twice, whatever the sources list              *)
(* (addEndpoints: seen).                                                   *)
THEOREM RawURIsUnique == Spec => []URIsUnique
<1>1. Init => URIsUnique
  BY DEF Init, URIsUnique
<1>2. QED  BY <1>1, UniqueStep, TypeCorrect, PTL DEF Spec

-----------------------------------------------------------------------------
(* What is being read comes from a source, whose parsers give entries, or  *)
(* it is the batch of the sidecars.                                        *)
BatchInv ==
  /\ pc = "down" => endpoints = <<>>
  /\ pc = "load" /\ batch.lines # <<>> =>
       batch.source # "sidecars" /\ batch.lines \in Seq(Seq(Entry \cup {Bad}))
  /\ pc = "sidecars" => batch.source = "sidecars" /\ batch.lines \in Seq(Seq(Sidecar))
  /\ pc \notin {"load", "sidecars"} => batch.lines = <<>>

LEMMA BatchStep == TypeOK /\ BatchInv /\ [Next]_vars => BatchInv'
<1> SUFFICES ASSUME TypeOK, BatchInv, [Next]_vars PROVE BatchInv'
  OBVIOUS
<1> DEFINE Es == Seq(Entry \cup {Bad})
           Ss == Seq(Sidecar)
<1>0. batch \in [source : Name, lines : Seq(Seq(Item \cup {Bad})), from : 0..Len(endpoints)]
  BY DEF TypeOK
<1>1. CASE Start
  BY <1>1 DEF Start, BatchInv
<1>2. CASE LoadBatch
  <2>1. Head(todo) \in Batch
    BY <1>2 DEF LoadBatch, TypeOK
  <2>2. /\ batch'.source # "sidecars" /\ batch'.lines \in Seq(Es)
        /\ pc = "load" /\ pc' = "load"
    BY <1>2, <2>1, BatchType DEF LoadBatch, BatchOf
  <2>3. QED  BY <2>2 DEF BatchInv
<1>3. CASE LoadFails
  BY <1>3 DEF LoadFails, BatchInv
<1>4. CASE AddSidecars
  <2>1. config.sidecars \in Ss
    BY <1>4, ConfigAssumption DEF AddSidecars, TypeOK
  <2>2. <<config.sidecars>> \in Seq(Ss)
    BY <2>1
  <2>3. pc' = "sidecars" /\ batch'.source = "sidecars" /\ batch'.lines \in Seq(Ss)
    BY <1>4, <2>2 DEF AddSidecars, BatchOf
  <2>4. QED  BY <2>3 DEF BatchInv
<1>5. CASE NextLine
  <2>1. /\ batch.lines # <<>> /\ batch' = [batch EXCEPT !.lines = Tail(batch.lines)]
        /\ UNCHANGED <<pc, endpoints>>
    BY <1>5 DEF NextLine
  <2>2. batch'.source = batch.source /\ batch'.lines = Tail(batch.lines)
    BY <1>0, <2>1
  <2>3. /\ pc = "load" => batch'.lines \in Seq(Es)
        /\ pc = "sidecars" => batch'.lines \in Seq(Ss)
    <3>1. CASE pc = "load"
      BY <2>1, <2>2, <3>1 DEF BatchInv
    <3>2. CASE pc = "sidecars"
      BY <2>1, <2>2, <3>2 DEF BatchInv
    <3>3. QED  BY <3>1, <3>2
  <2>4. QED  BY <2>1, <2>2, <2>3 DEF BatchInv
<1>6. CASE AddEndpoint
  <2>1. /\ batch.lines # <<>> /\ Head(batch.lines) # <<>>
        /\ batch' = [batch EXCEPT !.lines = [batch.lines EXCEPT ![1] = Tail(Head(batch.lines))]]
        /\ UNCHANGED pc
    BY <1>6, AddEndpointTurn DEF AddEndpoint
  <2>2. /\ batch'.source = batch.source
        /\ batch'.lines = [batch.lines EXCEPT ![1] = Tail(Head(batch.lines))]
    BY <1>0, <2>1
  <2>3. ASSUME NEW S, batch.lines \in Seq(Seq(S))
        PROVE  batch'.lines \in Seq(Seq(S))
    <3>1. 1 \in 1..Len(batch.lines) /\ Head(batch.lines) \in Seq(S)
      BY <2>1, <2>3
    <3>2. Tail(Head(batch.lines)) \in Seq(S)
      BY <2>1, <3>1
    <3>3. QED  BY <2>2, <2>3, <3>1, <3>2, ExceptSeq
  <2>4. pc \in {"load", "sidecars"}
    BY <2>1 DEF BatchInv
  <2>5. QED  BY <2>1, <2>2, <2>3, <2>4 DEF BatchInv
<1>7. CASE SidecarsAdded
  BY <1>7 DEF SidecarsAdded, BatchInv, loading
<1>8. CASE GenerateSpoof \/ GenerateSingbox \/ GenerateXray
  <2>1. /\ pc \notin {"down", "load", "sidecars"} /\ pc' \notin {"down", "load", "sidecars"}
        /\ UNCHANGED batch
    BY <1>8 DEF GenerateSpoof, GenerateSingbox, GenerateXray, Generates, loading
  <2>2. QED  BY <2>1 DEF BatchInv
<1>9. ASSUME NEW d \in Dialer, SkipDialer(d)
      PROVE  BatchInv'
  <2>1. /\ pc \notin {"down", "load", "sidecars"} /\ pc' \notin {"down", "load", "sidecars"}
        /\ UNCHANGED batch
    BY <1>9 DEF SkipDialer, Dialer, Next_, loading
  <2>2. QED  BY <2>1 DEF BatchInv
<1>10. ASSUME NEW d \in Dialer, ContainerRestarted(d) \/ RestartFails(d) \/ ContainerStarts(d)
       PROVE  BatchInv'
  <2>1. UNCHANGED <<pc, batch, endpoints>>
    BY <1>10 DEF ContainerRestarted, RestartFails, ContainerStarts, loading
  <2>2. QED  BY <2>1 DEF BatchInv
<1>11. ASSUME Save \/ \E i \in DOMAIN endpoints :
                \E o \in [enabled : BOOLEAN, priority : Priority] : Patch(i, o)
       PROVE  BatchInv'
  <2>1. pc = "running" /\ UNCHANGED <<pc, batch>>
    BY <1>11 DEF Save, Patch, loading
  <2>2. QED  BY <2>1 DEF BatchInv
<1>12. CASE Stop
  BY <1>12 DEF Stop, BatchInv, NoBatch
<1>13. CASE UNCHANGED vars
  BY <1>13 DEF vars, loading, BatchInv
<1>14. QED
  BY <1>1, <1>2, <1>3, <1>4, <1>5, <1>6, <1>7, <1>8, <1>9, <1>10, <1>11, <1>12, <1>13 DEF Next

LEMMA BatchInvariant == Spec => []BatchInv
<1>1. Init => BatchInv
  BY DEF Init, BatchInv, NoBatch
<1>2. QED  BY <1>1, BatchStep, TypeCorrect, PTL DEF Spec

(* What a turn adds is an entry while a source is read, and a sidecar      *)
(* afterwards.                                                             *)
LEMMA AddedItem ==
  ASSUME TypeOK, BatchInv, AddEndpoint
  PROVE  \E e \in Item :
           /\ endpoints' = endpoints \/ Adds(e)
           /\ \/ /\ pc = "load" /\ batch.source # "sidecars"
                 /\ e \in Entry /\ e.proto # "sidecar" /\ e.source = None
              \/ /\ pc = "sidecars" /\ batch.source = "sidecars"
                 /\ e \in Sidecar /\ e.proto = "sidecar" /\ e.addr \notin Dialer
<1>1. PICK e \in Item : /\ e = Head(Head(batch.lines)) /\ e # Bad
                        /\ endpoints' = endpoints \/ Adds(e)
  BY AddEndpointTurn
<1>2. batch.lines # <<>> /\ Head(batch.lines) # <<>>
  BY DEF AddEndpoint
<1>3. ASSUME NEW S, batch.lines \in Seq(Seq(S))
      PROVE  e \in S
  <2>0. e = Head(Head(batch.lines))
    BY <1>1
  <2>1. Head(batch.lines) \in Seq(S)
    BY <1>2, <1>3, HeadIn
  <2>2. QED  BY <1>2, <2>0, <2>1, HeadIn
<1>4. pc \in {"load", "sidecars"}
  BY <1>2 DEF BatchInv
<1>5. CASE pc = "load"
  <2>1. batch.source # "sidecars" /\ e \in Entry
    <3>1. batch.source # "sidecars" /\ batch.lines \in Seq(Seq(Entry \cup {Bad}))
      BY <1>2, <1>5 DEF BatchInv
    <3>2. e \in Entry \cup {Bad}
      BY <1>3, <3>1
    <3>3. e # Bad
      BY <1>1
    <3>4. QED  BY <3>1, <3>2, <3>3
  <2>2. e.proto # "sidecar" /\ e.source = None
    BY <2>1, EntryAssumption
       DEF StreamShape, PlainShape, TunnelShape, MTProxyShape, BundleShape, ConfShape
  <2>3. QED  BY <1>1, <1>5, <2>1, <2>2
<1>6. CASE pc = "sidecars"
  <2>1. batch.source = "sidecars" /\ e \in Sidecar
    BY <1>3, <1>6 DEF BatchInv
  <2>2. e.proto = "sidecar" /\ e.addr \notin Dialer
    BY <2>1, EntryAssumption DEF SidecarShape
  <2>3. QED  BY <1>1, <1>6, <2>1, <2>2
<1>7. QED  BY <1>4, <1>5, <1>6

-----------------------------------------------------------------------------
(* An endpoint is a sidecar or was parsed, and is named after its source;  *)
(* two sidecars never have one address.                                    *)
NamedWell(i) ==
  LET e == endpoints[i] IN
  IF e.proto = "sidecar"
  THEN /\ e.id = <<e.proto, e.addr>>
       /\ pc # "load" /\ (pc = "sidecars" => i > batch.from)
  ELSE e.source # "sidecars" /\ e.id = Namespaced(e.source, e)
NameInv ==
  /\ \A i \in DOMAIN endpoints : NamedWell(i)
  /\ \A i, j \in DOMAIN endpoints :
       endpoints[i].proto = "sidecar" /\ SameServer(endpoints[i], endpoints[j]) => i = j

(* While the endpoints stay what they are, main gets past the sources and  *)
(* the sidecars once, in this order.                                       *)
LEMMA KeepsNames ==
  ASSUME TypeOK, BatchInv, NameInv, [Next]_vars, ~ Stop, ~ AddEndpoint, Keeps
  PROVE  NameInv'
<1>1. CASE endpoints = <<>>
  BY <1>1 DEF Keeps, NameInv
<1>2. CASE pc = "load" /\ endpoints # <<>>
  <2>1. \A i \in DOMAIN endpoints : endpoints[i].proto # "sidecar"
    BY <1>2 DEF NameInv, NamedWell
  <2>2. QED  BY <2>1 DEF NameInv, NamedWell, Keeps, Namespaced
<1>3. CASE pc \notin {"down", "load"}
  <2>1. pc' # "load" /\ (pc' = "sidecars" => pc = "sidecars" /\ batch'.from = batch.from)
    <3>1. CASE NextLine
      <4>1. batch \in [source : Name, lines : Seq(Seq(Item \cup {Bad})), from : 0..Len(endpoints)]
        BY DEF TypeOK
      <4>2. QED  BY <1>3, <3>1, <4>1 DEF NextLine
    <3>2. CASE Start \/ LoadBatch \/ LoadFails \/ AddSidecars \/ SidecarsAdded
      BY <1>3, <3>2 DEF Start, LoadBatch, LoadFails, AddSidecars, SidecarsAdded
    <3>3. CASE GenerateSpoof \/ GenerateSingbox \/ GenerateXray
      BY <3>3 DEF GenerateSpoof, GenerateSingbox, GenerateXray
    <3>4. ASSUME NEW d \in Dialer, SkipDialer(d)
          PROVE  pc' # "load" /\ pc' # "sidecars"
      BY <3>4 DEF SkipDialer, Dialer, Next_
    <3>5. ASSUME NEW d \in Dialer,
                 ContainerRestarted(d) \/ RestartFails(d) \/ ContainerStarts(d)
          PROVE  UNCHANGED <<pc, batch>>
      BY <3>5 DEF ContainerRestarted, RestartFails, ContainerStarts, loading
    <3>6. ASSUME Save \/ \E i \in DOMAIN endpoints :
                  \E o \in [enabled : BOOLEAN, priority : Priority] : Patch(i, o)
          PROVE  UNCHANGED <<pc, batch>>
      BY <3>6 DEF Save, Patch, loading
    <3>7. CASE UNCHANGED vars
      BY <1>3, <3>7 DEF vars, loading
    <3>8. QED  BY <1>3, <3>1, <3>2, <3>3, <3>4, <3>5, <3>6, <3>7 DEF Next
  <2>2. ASSUME NEW i \in DOMAIN endpoints
        PROVE  NamedWell(i)'
    BY <2>1 DEF NameInv, NamedWell, Keeps, Namespaced
  <2>3. QED  BY <2>2 DEF NameInv, Keeps, SameServer
<1>4. QED  BY <1>1, <1>2, <1>3 DEF BatchInv

LEMMA AddsName ==
  ASSUME TypeOK, BatchInv, NameInv, AddEndpoint
  PROVE  NameInv'
<1> PICK e \in Item :
      /\ endpoints' = endpoints \/ Adds(e)
      /\ \/ /\ pc = "load" /\ batch.source # "sidecars"
            /\ e \in Entry /\ e.proto # "sidecar" /\ e.source = None
         \/ /\ pc = "sidecars" /\ batch.source = "sidecars"
            /\ e \in Sidecar /\ e.proto = "sidecar" /\ e.addr \notin Dialer
  BY AddedItem
<1> PICK n : n = Len(endpoints) + 1
  OBVIOUS
<1> DEFINE x == Named(e, batch.source)
<1>1. /\ pc' = pc /\ batch'.from = batch.from /\ batch.from \in 0..Len(endpoints)
      /\ endpoints \in Seq(Endpoint)
  BY AddEndpointTurn DEF AddEndpoint, TypeOK
<1>2. \A i \in DOMAIN endpoints : i \in Nat /\ i # n /\ i \in 1..Len(endpoints)
  BY <1>1
<1>3. batch.from \in Nat /\ n > batch.from
  BY <1>1
<1>4. CASE endpoints' = endpoints
  BY <1>1, <1>4 DEF NameInv, NamedWell, Namespaced
<1>5. CASE Adds(e)
  <2>1. /\ DOMAIN endpoints' = DOMAIN endpoints \cup {n}
        /\ \A i \in DOMAIN endpoints : endpoints'[i] = endpoints[i]
        /\ endpoints'[n] = x
    BY <1>5 DEF Adds
  <2>2. /\ x.proto = e.proto /\ x.addr = e.addr
        /\ x.id = Namespaced(batch.source, e)
        /\ x.source = IF e.source = None THEN batch.source ELSE e.source
    BY DEF Named
  <2> HIDE DEF x
  <2>3. ASSUME NEW i \in DOMAIN endpoints
        PROVE  NamedWell(i)'
    BY <1>1, <2>1 DEF NameInv, NamedWell, Namespaced
  <2>4. NamedWell(n)'
    <3>1. CASE pc = "load"
      <4>1. x.proto # "sidecar" /\ x.source = batch.source /\ x.source # "sidecars"
        BY <2>2, <3>1
      <4>2. x.id = Namespaced(x.source, x)
        BY <2>2, <4>1 DEF Namespaced
      <4>3. QED  BY <2>1, <4>1, <4>2 DEF NamedWell, Namespaced
    <3>2. CASE pc = "sidecars"
      <4>1. x.proto = "sidecar" /\ x.id = <<x.proto, x.addr>>
        BY <2>2, <3>2 DEF Namespaced
      <4>2. pc' = "sidecars" /\ n > batch'.from
        BY <1>1, <1>3, <3>2
      <4>3. QED  BY <2>1, <4>1, <4>2 DEF NamedWell
    <3>3. QED  BY <3>1, <3>2
  <2>5. ASSUME NEW i \in DOMAIN endpoints, e.proto = "sidecar",
               endpoints[i].proto = "sidecar", endpoints[i].addr = e.addr
        PROVE  FALSE
    <3>1. pc = "sidecars" /\ i > batch.from
      BY <2>5 DEF NameInv, NamedWell
    <3>2. Known(e)
      BY <2>5, <3>1 DEF Known, SameServer
    <3>3. QED  BY <1>5, <3>2 DEF Adds
  <2>6. ASSUME NEW i \in DOMAIN endpoints', NEW j \in DOMAIN endpoints',
               endpoints'[i].proto = "sidecar", SameServer(endpoints'[i], endpoints'[j])
        PROVE  i = j
    <3>1. endpoints'[j].proto = "sidecar" /\ endpoints'[j].addr = endpoints'[i].addr
      BY <2>6 DEF SameServer
    <3>2. CASE i \in DOMAIN endpoints /\ j \in DOMAIN endpoints
      BY <2>1, <2>6, <3>2 DEF NameInv, SameServer
    <3>3. CASE i = n /\ j \in DOMAIN endpoints
      BY <2>1, <2>2, <2>5, <2>6, <3>1, <3>3
    <3>4. CASE i \in DOMAIN endpoints /\ j = n
      BY <2>1, <2>2, <2>5, <2>6, <3>1, <3>4
    <3>5. QED  BY <2>1, <3>2, <3>3, <3>4
  <2>7. \A i \in DOMAIN endpoints' : NamedWell(i)'
    BY <2>1, <2>3, <2>4
  <2>8. \A i, j \in DOMAIN endpoints' :
          endpoints'[i].proto = "sidecar" /\ SameServer(endpoints'[i], endpoints'[j]) => i = j
    BY <2>6
  <2>9. QED  BY <2>7, <2>8 DEF NameInv, SameServer
<1>6. QED  BY <1>4, <1>5

LEMMA NameStep == TypeOK /\ BatchInv /\ NameInv /\ [Next]_vars => NameInv'
<1> SUFFICES ASSUME TypeOK, BatchInv, NameInv, [Next]_vars PROVE NameInv'
  OBVIOUS
<1>1. CASE Stop
  BY <1>1 DEF Stop, NameInv
<1>2. QED  BY <1>1, AddsName, KeepsNames, PoolStep

LEMMA NameInvariant == Spec => []NameInv
<1>1. Init => NameInv
  BY DEF Init, NameInv
<1>2. QED  BY <1>1, NameStep, TypeCorrect, BatchInvariant, PTL DEF Spec

(* Two endpoints of one ID come from one source: the namespace that        *)
(* addEndpoints puts before the ID keeps two configurations apart, and the *)
(* sidecars, which have none, never share an address.                      *)
THEOREM IdsTellSources == Spec => []SharedIdsSameSource
<1>1. TypeOK /\ NameInv => SharedIdsSameSource
  <2> SUFFICES ASSUME TypeOK, NameInv, NEW i \in DOMAIN endpoints, NEW j \in DOMAIN endpoints,
                      endpoints[i].id = endpoints[j].id
               PROVE  endpoints[i].source = endpoints[j].source
    BY DEF SharedIdsSameSource
  <2> DEFINE e == endpoints[i]
             f == endpoints[j]
  <2>1. NamedWell(i) /\ NamedWell(j)
    BY DEF NameInv
  <2>2. CASE e.proto = "sidecar" /\ f.proto = "sidecar"
    <3>1. e.addr = f.addr
      BY <2>1, <2>2 DEF NamedWell
    <3>2. i = j
      BY <2>2, <3>1 DEF NameInv, SameServer
    <3>3. QED  BY <3>2
  <2>3. ASSUME NEW x, NEW y, x.proto = "sidecar", y.proto # "sidecar",
               x.id = <<x.proto, x.addr>>, y.id = Namespaced(y.source, y)
        PROVE  x.id # y.id
    <3>1. CASE y.id = <<y.proto, y.addr>>
      BY <2>3, <3>1
    <3>2. CASE y.id = <<y.source, y.proto, y.addr>>
      BY <2>3, <3>2
    <3>3. QED  BY <2>3, <3>1, <3>2 DEF Namespaced
  <2>4. CASE (e.proto = "sidecar") # (f.proto = "sidecar")
    BY <2>1, <2>3, <2>4 DEF NamedWell
  <2>5. CASE e.proto # "sidecar" /\ f.proto # "sidecar"
    <3>1. /\ e.source # "sidecars" /\ e.id = Namespaced(e.source, e)
          /\ f.source # "sidecars" /\ f.id = Namespaced(f.source, f)
      BY <2>1, <2>5 DEF NamedWell
    <3>2. CASE e.source = "default" /\ f.source = "default"
      BY <3>2
    <3>3. CASE e.source # "default" /\ f.source # "default"
      <4>1. /\ e.id = <<e.source, e.proto, e.addr>> /\ f.id = <<f.source, f.proto, f.addr>>
        BY <3>1, <3>3 DEF Namespaced
      <4>2. ASSUME NEW a1, NEW a2, NEW a3, NEW b1, NEW b2, NEW b3,
                   <<a1, a2, a3>> = <<b1, b2, b3>>
            PROVE  a1 = b1
        BY <4>2
      <4>3. <<e.source, e.proto, e.addr>> = <<f.source, f.proto, f.addr>>
        BY <4>1
      <4>4. e.source = f.source
        BY ONLY <4>2, <4>3
      <4>5. QED  BY <4>4
    <3>4. ASSUME NEW x, NEW y, x.source = "default", y.source \notin {"default", "sidecars"},
                 x.id = Namespaced(x.source, x), y.id = Namespaced(y.source, y)
          PROVE  x.id # y.id
      <4>1. x.id = <<x.proto, x.addr>> /\ y.id = <<y.source, y.proto, y.addr>>
        BY <3>4 DEF Namespaced
      <4>2. QED  BY <4>1
    <3>5. QED  BY <3>1, <3>2, <3>3, <3>4
  <2>6. QED  BY <2>2, <2>4, <2>5
<1>2. QED  BY <1>1, TypeCorrect, NameInvariant, PTL

-----------------------------------------------------------------------------
(* Until its generator has run, no endpoint is dialed through a dialer;    *)
(* from then on, a file that was written has the ports of all of them, and *)
(* a container that was restarted since has loaded that file.              *)
DialedBy(e, d) == e.socks # None /\ e.socks[1] = d
Ahead(d) == pc \in {"down", "load", "sidecars", "sni-spoof", "singbox"} \cup {d}
Settled(d, e) ==
  /\ ~ Ahead(d)
  /\ d \notin failed => /\ Serves(written[d], e.socks[2], e)
                        /\ d \notin restarting => loaded[d] = written[d]
ServedInv ==
  \A d \in {"singbox", "xray"} : \A i \in DOMAIN endpoints :
    DialedBy(endpoints[i], d) => Settled(d, endpoints[i])

(* The generator of a dialer settles the endpoints that it takes.          *)
LEMMA GenerateSettles ==
  ASSUME TypeOK, ServedInv, NEW d \in {"singbox", "xray"},
         NEW taken \in SUBSET DOMAIN endpoints,
         endpoints' = Pinned(endpoints, d, taken),
         pc = d, pc' = Next_(d), UNCHANGED loaded,
         \/ taken = {} /\ UNCHANGED <<written, failed, restarting>>
         \/ WriteFile(d, Routes(endpoints, taken)) /\ RestartContainer(d)
  PROVE  ServedInv'
<1> PICK new : new = Pinned(endpoints, d, taken)
  OBVIOUS
<1>1. endpoints \in Seq(Endpoint) /\ d \in Dialer
  BY DEF TypeOK, Dialer
<1>2. /\ DOMAIN new = DOMAIN endpoints
      /\ \A i \in DOMAIN endpoints :
           /\ new[i].uri = endpoints[i].uri /\ Server(new[i]) = Server(endpoints[i])
           /\ new[i].socks = IF i \in taken THEN <<d, Port(taken, i)>> ELSE endpoints[i].socks
  BY <1>1, PinnedRewrites DEF Rewrites
<1>3. endpoints' = new
  OBVIOUS
<1>4. SUFFICES ASSUME NEW c \in {"singbox", "xray"}, NEW i \in DOMAIN endpoints,
                      DialedBy(new[i], c)
               PROVE  Settled(c, new[i])'
  BY <1>2, <1>3 DEF ServedInv, DialedBy, Settled, Serves, LeadsTo
<1>5. CASE i \in taken
  <2>1. new[i].socks = <<d, Port(taken, i)>> /\ c = d
    <3>1. new[i].socks = <<d, Port(taken, i)>> /\ new[i].socks[1] = c
      BY <1>2, <1>4, <1>5 DEF DialedBy
    <3>2. <<d, Port(taken, i)>>[1] = d
      OBVIOUS
    <3>3. QED  BY <3>1, <3>2
  <2>2. pc' \notin {"down", "load", "sidecars", "sni-spoof", "singbox", d}
    BY DEF Next_
  <2>3. \/ d \in failed'
        \/ written' = [written EXCEPT ![d] = Routes(endpoints, taken)] /\ d \in restarting'
    BY <1>5 DEF WriteFile, RestartContainer
  <2>4. CASE d \in failed'
    BY <1>3, <2>1, <2>2, <2>4 DEF Settled, Ahead
  <2>5. CASE written' = [written EXCEPT ![d] = Routes(endpoints, taken)] /\ d \in restarting'
    <3>1. written'[d] = Routes(endpoints, taken)
      BY <1>1, <2>5 DEF TypeOK
    <3>2. Serves(Routes(endpoints, taken), Port(taken, i), new[i])
      BY <1>1, <1>2, <1>5, RoutesServe
    <3>3. new[i].socks[2] = Port(taken, i)
      BY <2>1
    <3>4. Serves(written'[d], new[i].socks[2], new[i])
      BY <3>1, <3>2, <3>3
    <3>5. QED  BY <1>3, <2>1, <2>2, <2>5, <3>4 DEF Settled, Ahead, Serves, LeadsTo
  <2>6. QED  BY <2>3, <2>4, <2>5
<1>6. CASE i \notin taken
  <2>1. new[i].socks = endpoints[i].socks /\ DialedBy(endpoints[i], c)
    BY <1>2, <1>4, <1>6 DEF DialedBy
  <2>2. Settled(c, endpoints[i])
    BY <2>1 DEF ServedInv
  <2>3. c = "singbox" /\ d = "xray"
    BY <2>2 DEF Settled, Ahead
  <2>4. pc' = "running"
    BY <2>3 DEF Next_
  <2>5. /\ (c \in failed <=> c \in failed') /\ (c \in restarting <=> c \in restarting')
        /\ written'[c] = written[c] /\ loaded'[c] = loaded[c]
    <3>1. CASE UNCHANGED <<written, failed, restarting>>
      BY <3>1
    <3>2. CASE WriteFile(d, Routes(endpoints, taken)) /\ RestartContainer(d)
      <4>1. /\ c # d /\ loaded' = loaded /\ failed' \in {failed, failed \cup {d}}
            /\ restarting' \in {restarting, restarting \cup {d}}
        BY <2>3, <3>2 DEF WriteFile, RestartContainer
      <4>2. \/ written' = written
            \/ written' = [written EXCEPT ![d] = Routes(endpoints, taken)]
        BY <3>2 DEF WriteFile
      <4>3. written'[c] = written[c]
        <5>1. written \in [Dialer -> SUBSET Route] /\ c \in Dialer
          BY DEF TypeOK, Dialer
        <5>2. QED  BY <4>1, <4>2, <5>1
      <4>4. (c \in failed <=> c \in failed') /\ (c \in restarting <=> c \in restarting')
        BY <4>1
      <4>5. QED  BY <4>1, <4>3, <4>4
    <3>3. QED  BY <3>1, <3>2
  <2>6. Serves(written[c], endpoints[i].socks[2], endpoints[i]) =>
          Serves(written'[c], new[i].socks[2], new[i])
    BY <1>2, <2>1, <2>5 DEF Serves, LeadsTo
  <2>7. QED  BY <2>2, <2>3, <2>4, <2>5, <2>6 DEF Settled, Ahead, Serves, LeadsTo
<1>7. QED  BY <1>5, <1>6

(* A step that keeps what a settled endpoint depends on.                   *)
LEMMA KeepsSettled ==
  ASSUME TypeOK, ServedInv, DOMAIN endpoints' = DOMAIN endpoints,
         \A i \in DOMAIN endpoints :
           /\ endpoints'[i].socks = endpoints[i].socks /\ endpoints'[i].uri = endpoints[i].uri
           /\ Server(endpoints'[i]) = Server(endpoints[i]),
         \A d \in {"singbox", "xray"} :
           /\ Ahead(d)' => Ahead(d)
           /\ d \in failed => d \in failed'
           /\ d \notin failed' =>
                /\ written'[d] = written[d]
                /\ d \in restarting => d \in restarting' \/ loaded'[d] = written[d]
                /\ loaded'[d] \in {loaded[d], written[d]}
  PROVE  ServedInv'
<1> SUFFICES ASSUME NEW d \in {"singbox", "xray"}, NEW i \in DOMAIN endpoints,
                    DialedBy(endpoints'[i], d)
             PROVE  Settled(d, endpoints[i])'
  BY DEF ServedInv, DialedBy
<1>1. Settled(d, endpoints[i])
  BY DEF ServedInv, DialedBy
<1>2. ~ Ahead(d)'
  BY <1>1 DEF Settled
<1>3. ASSUME d \notin failed'
      PROVE  /\ Serves(written'[d], endpoints'[i].socks[2], endpoints'[i])
             /\ d \notin restarting' => loaded'[d] = written'[d]
  <2>1. d \notin failed /\ written'[d] = written[d]
    BY <1>3
  <2>2. /\ Serves(written[d], endpoints[i].socks[2], endpoints[i])
        /\ d \notin restarting => loaded[d] = written[d]
    BY <1>1, <2>1 DEF Settled
  <2>3. Serves(written'[d], endpoints'[i].socks[2], endpoints'[i])
    BY <2>1, <2>2 DEF Serves, LeadsTo
  <2>4. d \notin restarting' => loaded'[d] = written'[d]
    BY <1>3, <2>1, <2>2
  <2>5. QED  BY <2>3, <2>4
<1>4. QED  BY <1>2, <1>3 DEF Settled, Ahead, Serves, LeadsTo

LEMMA ServedStep == TypeOK /\ BatchInv /\ ServedInv /\ [Next]_vars => ServedInv'
<1> SUFFICES ASSUME TypeOK, BatchInv, ServedInv, [Next]_vars PROVE ServedInv'
  OBVIOUS
<1>0. endpoints \in Seq(Endpoint)
  BY DEF TypeOK
<1>1. CASE Start
  <2>1. endpoints' = <<>>
    BY <1>1 DEF Start, BatchInv
  <2>2. QED  BY <2>1 DEF ServedInv
<1>2. CASE LoadBatch \/ LoadFails \/ AddSidecars \/ NextLine \/ SidecarsAdded
  <2>1. UNCHANGED <<endpoints, written, loaded, restarting, failed>>
    BY <1>2 DEF LoadBatch, LoadFails, AddSidecars, NextLine, SidecarsAdded, history
  <2>2. \A d \in {"singbox", "xray"} : Ahead(d)' => Ahead(d)
    BY <1>2 DEF LoadBatch, LoadFails, AddSidecars, NextLine, SidecarsAdded, Ahead
  <2>3. QED  BY <2>1, <2>2, KeepsSettled
<1>3. CASE AddEndpoint
  <2>1. PICK e \in Item :
          /\ endpoints' = endpoints \/ Adds(e)
          /\ e.proto = "sidecar" => e.addr \notin Dialer
    BY <1>3, AddedItem
  <2>2. /\ pc \in {"load", "sidecars"}
        /\ UNCHANGED <<pc, written, loaded, restarting, failed>>
    BY <1>3 DEF AddEndpoint, BatchInv, history
  <2>3. \A d \in {"singbox", "xray"} : Ahead(d)
    BY <2>2 DEF Ahead
  <2>4. \A d \in {"singbox", "xray"} : \A i \in DOMAIN endpoints : ~ DialedBy(endpoints[i], d)
    BY <2>3 DEF ServedInv, Settled
  <2>5. \A d \in {"singbox", "xray"} : ~ DialedBy(Named(e, batch.source), d)
    <3>1. CASE e.proto = "sidecar"
      <4>1. Named(e, batch.source).socks = <<e.addr, 0>>
        BY <3>1 DEF Named
      <4>2. <<e.addr, 0>>[1] = e.addr /\ e.addr \notin Dialer
        BY <2>1, <3>1
      <4>3. QED  BY <4>1, <4>2 DEF DialedBy, Dialer
    <3>2. CASE e.proto # "sidecar"
      BY <3>2 DEF DialedBy, Named
    <3>3. QED  BY <3>1, <3>2
  <2>6. \A d \in {"singbox", "xray"} : \A i \in DOMAIN endpoints' : ~ DialedBy(endpoints'[i], d)
    <3>1. CASE endpoints' = endpoints
      BY <2>4, <3>1
    <3>2. CASE Adds(e)
      BY <2>4, <2>5, <3>2 DEF Adds
    <3>3. QED  BY <2>1, <3>1, <3>2
  <2>7. QED  BY <2>6 DEF ServedInv, DialedBy
<1>4. CASE GenerateSpoof
  <2>1. /\ pc = "sni-spoof" /\ endpoints' = SpoofPinned(endpoints, config.fakeSNI)
    BY <1>4 DEF GenerateSpoof, Generates
  <2>2. /\ DOMAIN endpoints' = DOMAIN endpoints
        /\ \A i \in DOMAIN endpoints : endpoints'[i].socks = endpoints[i].socks
    BY <1>0, <2>1, SpoofRewrites DEF Rewrites
  <2>3. \A d \in {"singbox", "xray"} : \A i \in DOMAIN endpoints : ~ DialedBy(endpoints[i], d)
    BY <2>1 DEF ServedInv, Settled, Ahead
  <2>4. \A d \in {"singbox", "xray"} : \A i \in DOMAIN endpoints' : ~ DialedBy(endpoints'[i], d)
    BY <2>2, <2>3 DEF DialedBy
  <2>5. QED  BY <2>4 DEF ServedInv, DialedBy
<1>5. CASE GenerateSingbox
  <2>1. /\ endpoints' = Pinned(endpoints, "singbox", SingboxTaken(endpoints))
        /\ pc = "singbox" /\ pc' = Next_("singbox") /\ UNCHANGED loaded
        /\ WriteFile("singbox", Routes(endpoints, SingboxTaken(endpoints)))
        /\ RestartContainer("singbox")
    BY <1>5 DEF GenerateSingbox, Generates, Next_, SingboxPinned, SingboxRoutes
  <2>2. SingboxTaken(endpoints) \in SUBSET DOMAIN endpoints
    BY DEF SingboxTaken
  <2>3. QED  BY <2>1, <2>2, GenerateSettles
<1>6. CASE GenerateXray
  <2>1. /\ endpoints' = Pinned(endpoints, "xray", XrayTaken(endpoints))
        /\ pc = "xray" /\ pc' = Next_("xray") /\ UNCHANGED loaded
        /\ \/ /\ Routes(endpoints, XrayTaken(endpoints)) = {}
              /\ UNCHANGED <<written, failed, restarting>>
           \/ WriteFile("xray", Routes(endpoints, XrayTaken(endpoints))) /\ RestartContainer("xray")
    BY <1>6 DEF GenerateXray, Generates, Next_, XrayPinned, XrayRoutes
  <2>2. XrayTaken(endpoints) \in SUBSET DOMAIN endpoints
    BY DEF XrayTaken
  <2>3. Routes(endpoints, XrayTaken(endpoints)) = {} => XrayTaken(endpoints) = {}
    BY DEF Routes
  <2>4. QED  BY <2>1, <2>2, <2>3, GenerateSettles
<1>7. ASSUME NEW c \in Dialer, SkipDialer(c)
      PROVE  ServedInv'
  <2>1. UNCHANGED <<endpoints, written, loaded, restarting, failed>>
    BY <1>7 DEF SkipDialer, history
  <2>2. \A d \in {"singbox", "xray"} : Ahead(d)' => Ahead(d)
    BY <1>7 DEF SkipDialer, Ahead, Dialer, Next_
  <2>3. QED  BY <2>1, <2>2, KeepsSettled
<1>8. ASSUME NEW c \in Dialer, ContainerRestarted(c) \/ ContainerStarts(c)
      PROVE  ServedInv'
  <2>1. /\ UNCHANGED <<pc, endpoints, written, failed>>
        /\ loaded' = [loaded EXCEPT ![c] = written[c]]
        /\ restarting' = restarting \ {c} \/ restarting' = restarting
    BY <1>8 DEF ContainerRestarted, ContainerStarts, history
  <2>2. loaded \in [Dialer -> SUBSET Route]
    BY DEF TypeOK
  <2>3. \A d \in {"singbox", "xray"} : /\ d \in restarting => d \in restarting' \/ loaded'[d] = written[d]
                                       /\ loaded'[d] \in {loaded[d], written[d]}
    BY <2>1, <2>2 DEF Dialer
  <2>4. \A d \in {"singbox", "xray"} : Ahead(d)' => Ahead(d)
    BY <2>1 DEF Ahead
  <2>5. QED  BY <2>1, <2>3, <2>4, KeepsSettled
<1>9. ASSUME NEW c \in Dialer, RestartFails(c)
      PROVE  ServedInv'
  <2>1. /\ UNCHANGED <<pc, endpoints, written, loaded>>
        /\ failed' = failed \cup {c} /\ restarting' = restarting \ {c}
    BY <1>9 DEF RestartFails
  <2>2. \A d \in {"singbox", "xray"} : Ahead(d)' => Ahead(d)
    BY <2>1 DEF Ahead
  <2>3. QED  BY <2>1, <2>2, KeepsSettled
<1>10. CASE Save \/ UNCHANGED vars
  <2>1. UNCHANGED <<pc, endpoints, written, loaded, restarting, failed>>
    BY <1>10 DEF Save, vars, history
  <2>2. \A d \in {"singbox", "xray"} : Ahead(d)' => Ahead(d)
    BY <2>1 DEF Ahead
  <2>3. QED  BY <2>1, <2>2, KeepsSettled
<1>11. ASSUME NEW i \in DOMAIN endpoints,
              NEW o \in [enabled : BOOLEAN, priority : Priority], Patch(i, o)
       PROVE  ServedInv'
  <2>1. UNCHANGED <<pc, written, loaded, restarting, failed>>
    BY <1>11 DEF Patch
  <2>2. /\ DOMAIN endpoints' = DOMAIN endpoints
        /\ \A j \in DOMAIN endpoints \ {i} : endpoints'[j] = endpoints[j]
        /\ endpoints'[i] = [endpoints[i] EXCEPT !.enabled = o.enabled, !.priority = o.priority]
    BY <1>11, PatchRewrites
  <2>3. /\ endpoints'[i].socks = endpoints[i].socks /\ endpoints'[i].uri = endpoints[i].uri
        /\ endpoints'[i].via = endpoints[i].via /\ endpoints'[i].sec = endpoints[i].sec
        /\ endpoints'[i].proto = endpoints[i].proto /\ endpoints'[i].addr = endpoints[i].addr
    BY <1>0, <2>2 DEF Endpoint
  <2>4. Server(endpoints'[i]) = Server(endpoints[i])
    BY <2>3 DEF Server, Spoofed
  <2>5. \A j \in DOMAIN endpoints :
          /\ endpoints'[j].socks = endpoints[j].socks /\ endpoints'[j].uri = endpoints[j].uri
          /\ Server(endpoints'[j]) = Server(endpoints[j])
    BY <2>2, <2>3, <2>4
  <2>6. \A d \in {"singbox", "xray"} : Ahead(d)' => Ahead(d)
    BY <2>1 DEF Ahead
  <2>7. QED  BY <2>1, <2>2, <2>5, <2>6, KeepsSettled
<1>12. CASE Stop
  BY <1>12 DEF Stop, ServedInv
<1>13. QED
  BY <1>1, <1>2, <1>3, <1>4, <1>5, <1>6, <1>7, <1>8, <1>9, <1>10, <1>11, <1>12 DEF Next

LEMMA ServedInvariant == Spec => []ServedInv
<1>1. Init => ServedInv
  BY DEF Init, ServedInv
<1>2. QED  BY <1>1, ServedStep, TypeCorrect, BatchInvariant, PTL DEF Spec

(* Once main runs, a container whose file was written and whose restart    *)
(* neither failed nor is still to come serves every endpoint that is       *)
(* dialed through it, on its own port and towards its own server           *)
(* (main: the generators and maybeRestartContainer).                       *)
THEOREM DialersServe == Spec => []DialsReachOwnServer
<1>1. ServedInv => DialsReachOwnServer
  <2> SUFFICES ASSUME ServedInv, NEW i \in DOMAIN endpoints,
                      NEW d \in {"singbox", "xray"} \ (restarting \cup failed),
                      DialedBy(endpoints[i], d)
               PROVE  Serves(loaded[d], endpoints[i].socks[2], endpoints[i])
    BY DEF DialsReachOwnServer, DialedBy
  <2>1. Settled(d, endpoints[i])
    BY DEF ServedInv
  <2>2. QED  BY <2>1 DEF Settled
<1>2. QED  BY <1>1, ServedInvariant, PTL

-----------------------------------------------------------------------------
(* No endpoint has a port of sni-spoof before the turn of its generator;   *)
(* afterwards the file has that port, unless it could not be written.      *)
SpoofInv ==
  /\ SpoofLeadsHome
  /\ pc \in {"down", "load", "sidecars", "sni-spoof"} =>
       \A i \in DOMAIN endpoints : endpoints[i].via = 0

(* A step that keeps what a spoofed endpoint depends on.                   *)
LEMMA KeepsSpoofed ==
  ASSUME SpoofInv, DOMAIN endpoints' = DOMAIN endpoints,
         \A i \in DOMAIN endpoints :
           /\ endpoints'[i].via = endpoints[i].via /\ endpoints'[i].uri = endpoints[i].uri
           /\ endpoints'[i].addr = endpoints[i].addr,
         pc' \in {"down", "load", "sidecars", "sni-spoof"} =>
           pc \in {"down", "load", "sidecars", "sni-spoof"},
         "sni-spoof" \in failed => "sni-spoof" \in failed',
         written'["sni-spoof"] = written["sni-spoof"]
  PROVE  SpoofInv'
<1>1. SpoofLeadsHome'
  BY DEF SpoofInv, SpoofLeadsHome, LeadsTo
<1>2. QED  BY <1>1 DEF SpoofInv

LEMMA SpoofStep == TypeOK /\ BatchInv /\ SpoofInv /\ [Next]_vars => SpoofInv'
<1> SUFFICES ASSUME TypeOK, BatchInv, SpoofInv, [Next]_vars PROVE SpoofInv'
  OBVIOUS
<1>0. /\ endpoints \in Seq(Endpoint) /\ written \in [Dialer -> SUBSET Route]
      /\ "sni-spoof" \in Dialer /\ "singbox" \in Dialer /\ "xray" \in Dialer
  BY DEF TypeOK, Dialer
<1>1. CASE Start \/ Stop
  <2>1. endpoints' = <<>>
    BY <1>1 DEF Start, Stop, BatchInv
  <2>2. QED  BY <2>1 DEF SpoofInv, SpoofLeadsHome
<1>2. CASE LoadBatch \/ LoadFails \/ AddSidecars \/ NextLine \/ SidecarsAdded
  <2>1. UNCHANGED <<endpoints, written, failed>>
    BY <1>2 DEF LoadBatch, LoadFails, AddSidecars, NextLine, SidecarsAdded, history
  <2>2. pc' = pc \/ pc \in {"load", "sidecars"}
    BY <1>2 DEF LoadBatch, LoadFails, AddSidecars, NextLine, SidecarsAdded
  <2>3. QED  BY <2>1, <2>2, KeepsSpoofed
<1>3. CASE AddEndpoint
  <2>1. PICK e \in Item : endpoints' = endpoints \/ Adds(e)
    BY <1>3, AddEndpointTurn
  <2>2. pc \in {"load", "sidecars"} /\ pc' = pc
    BY <1>3 DEF AddEndpoint, BatchInv
  <2>3. \A i \in DOMAIN endpoints : endpoints[i].via = 0
    BY <2>2 DEF SpoofInv
  <2>4. Named(e, batch.source).via = 0
    BY DEF Named
  <2>5. \A i \in DOMAIN endpoints' : endpoints'[i].via = 0
    BY <2>1, <2>3, <2>4 DEF Adds
  <2>6. QED  BY <2>5 DEF SpoofInv, SpoofLeadsHome
<1>4. CASE GenerateSpoof
  <2> PICK default : default = config.fakeSNI
    OBVIOUS
  <2> DEFINE taken == SpoofTaken(endpoints, default)
             routes == SpoofRoutes(endpoints, default)
  <2> PICK new : new = SpoofPinned(endpoints, default)
    OBVIOUS
  <2>1. /\ pc = "sni-spoof" /\ pc' = "singbox" /\ endpoints' = new
        /\ IF routes = {} THEN UNCHANGED <<written, failed>> ELSE WriteFile("sni-spoof", routes)
    BY <1>4 DEF GenerateSpoof, Generates
  <2>2. /\ DOMAIN new = DOMAIN endpoints
        /\ \A i \in DOMAIN endpoints :
             /\ new[i].uri = endpoints[i].uri /\ new[i].addr = endpoints[i].addr
             /\ new[i].via = IF i \in taken THEN Port(taken, i) ELSE endpoints[i].via
    BY <1>0, SpoofRewrites DEF Rewrites
  <2>3. \A i \in DOMAIN endpoints : endpoints[i].via = 0
    BY <2>1 DEF SpoofInv
  <2>4. ASSUME NEW i \in DOMAIN endpoints, new[i].via > 0, "sni-spoof" \notin failed'
        PROVE  LeadsTo(written'["sni-spoof"], new[i].via, new[i].uri, <<new[i].addr, 0>>)
    <3>1. i \in taken
      BY <2>2, <2>3, <2>4
    <3>2. LeadsTo(routes, Port(taken, i), endpoints[i].uri, <<endpoints[i].addr, 0>>)
      BY <1>0, <3>1, SpoofRoutesServe
    <3>3. routes # {}
      BY <3>2 DEF LeadsTo
    <3>4. written' = [written EXCEPT !["sni-spoof"] = routes]
      BY <2>1, <2>4, <3>3 DEF WriteFile
    <3>5. written'["sni-spoof"] = routes
      BY <1>0, <3>4
    <3>6. QED  BY <2>2, <3>1, <3>2, <3>5
  <2>5. QED  BY <2>1, <2>2, <2>4 DEF SpoofInv, SpoofLeadsHome
<1>5. CASE GenerateSingbox \/ GenerateXray
  <2>1. \E d \in {"singbox", "xray"} :
          \E t \in SUBSET DOMAIN endpoints :
            /\ endpoints' = Pinned(endpoints, d, t)
            /\ \/ UNCHANGED <<written, failed>>
               \/ WriteFile(d, Routes(endpoints, t))
    BY <1>5 DEF GenerateSingbox, GenerateXray, SingboxPinned, XrayPinned, SingboxRoutes,
                XrayRoutes, SingboxTaken, XrayTaken
  <2>2. PICK d \in {"singbox", "xray"}, t \in SUBSET DOMAIN endpoints :
          /\ endpoints' = Pinned(endpoints, d, t)
          /\ \/ UNCHANGED <<written, failed>>
             \/ WriteFile(d, Routes(endpoints, t))
    BY <2>1
  <2>3. pc \in {"singbox", "xray"} /\ pc' \in {"xray", "running"}
    BY <1>5 DEF GenerateSingbox, GenerateXray, Generates
  <2>4. /\ DOMAIN endpoints' = DOMAIN endpoints
        /\ \A i \in DOMAIN endpoints :
             /\ endpoints'[i].via = endpoints[i].via /\ endpoints'[i].uri = endpoints[i].uri
             /\ endpoints'[i].addr = endpoints[i].addr
    <3> PICK new : new = Pinned(endpoints, d, t)
      OBVIOUS
    <3>1. d \in Dialer
      BY DEF Dialer
    <3>2. Rewrites(new, endpoints)
      BY <1>0, <3>1, PinnedRewrites
    <3>3. \A i \in DOMAIN endpoints : new[i].via = endpoints[i].via
      <4> SUFFICES ASSUME NEW i \in DOMAIN endpoints PROVE new[i].via = endpoints[i].via
        OBVIOUS
      <4>1. endpoints[i] \in Endpoint
        BY <1>0
      <4>2. CASE i \in t
        <5>1. new[i] = [endpoints[i] EXCEPT !.socks = <<d, Port(t, i)>>]
          BY <4>2 DEF Pinned
        <5>2. QED  BY <4>1, <5>1 DEF Endpoint
      <4>3. CASE i \notin t
        BY <4>3 DEF Pinned
      <4>4. QED  BY <4>2, <4>3
    <3>4. QED  BY <2>2, <3>2, <3>3 DEF Rewrites
  <2>5. written'["sni-spoof"] = written["sni-spoof"] /\ failed \subseteq failed'
    BY <1>0, <2>2 DEF WriteFile
  <2>6. QED  BY <2>3, <2>4, <2>5, KeepsSpoofed
<1>6. ASSUME NEW d \in Dialer,
             SkipDialer(d) \/ ContainerRestarted(d) \/ RestartFails(d) \/ ContainerStarts(d)
      PROVE  SpoofInv'
  <2>1. UNCHANGED <<endpoints, written>> /\ failed \subseteq failed'
    BY <1>6 DEF SkipDialer, ContainerRestarted, RestartFails, ContainerStarts, history
  <2>2. pc' = pc \/ pc' \in {"singbox", "xray", "running"}
    BY <1>6 DEF SkipDialer, ContainerRestarted, RestartFails, ContainerStarts, Next_, Dialer
  <2>3. QED  BY <2>1, <2>2, KeepsSpoofed
<1>7. CASE Save \/ UNCHANGED vars
  <2>1. UNCHANGED <<pc, endpoints, written, failed>>
    BY <1>7 DEF Save, vars, history
  <2>2. QED  BY <2>1, KeepsSpoofed
<1>8. ASSUME NEW i \in DOMAIN endpoints,
             NEW o \in [enabled : BOOLEAN, priority : Priority], Patch(i, o)
      PROVE  SpoofInv'
  <2>1. UNCHANGED <<pc, written, failed>>
    BY <1>8 DEF Patch
  <2>2. /\ DOMAIN endpoints' = DOMAIN endpoints
        /\ \A j \in DOMAIN endpoints \ {i} : endpoints'[j] = endpoints[j]
        /\ endpoints'[i] = [endpoints[i] EXCEPT !.enabled = o.enabled, !.priority = o.priority]
    BY <1>8, PatchRewrites
  <2>3. /\ endpoints'[i].via = endpoints[i].via /\ endpoints'[i].uri = endpoints[i].uri
        /\ endpoints'[i].addr = endpoints[i].addr
    BY <1>0, <2>2 DEF Endpoint
  <2>4. QED  BY <2>1, <2>2, <2>3, KeepsSpoofed
<1>9. QED  BY <1>1, <1>2, <1>3, <1>4, <1>5, <1>6, <1>7, <1>8 DEF Next

(* The file of sni-spoof leads each port it gave out to the address of the *)
(* endpoint that was given it, unless this start could not write it.       *)
THEOREM SpoofServes == Spec => []SpoofLeadsHome
<1>1. Init => SpoofInv
  BY DEF Init, SpoofInv, SpoofLeadsHome
<1>2. SpoofInv => SpoofLeadsHome
  BY DEF SpoofInv
<1>3. QED  BY <1>1, <1>2, SpoofStep, TypeCorrect, BatchInvariant, PTL DEF Spec

(* The two together: with sni-spoof running what its file says, a dial     *)
(* through a dialer that was restarted goes to the endpoint's own address, *)
(* by way of sni-spoof or not (applySpoof of both generators).             *)
DialsEndAtHome ==
  pc = "running" /\ "sni-spoof" \notin failed /\ loaded["sni-spoof"] = written["sni-spoof"] =>
    \A i \in DOMAIN endpoints : \A d \in {"singbox", "xray"} \ (restarting \cup failed) :
      LET e == endpoints[i]
      IN  e.socks # None /\ e.socks[1] = d =>
            \E server : /\ LeadsTo(loaded[d], e.socks[2], e.uri, server)
                        /\ \/ server = <<e.addr, 0>>
                           \/ \E v \in Nat \ {0} :
                                /\ server = <<"sni-spoof", v>>
                                /\ LeadsTo(loaded["sni-spoof"], v, e.uri, <<e.addr, 0>>)

THEOREM DialsGoHome == Spec => []DialsEndAtHome
<1>1. TypeOK /\ DialsReachOwnServer /\ SpoofLeadsHome => DialsEndAtHome
  <2> SUFFICES ASSUME TypeOK, DialsReachOwnServer, SpoofLeadsHome, pc = "running",
                      "sni-spoof" \notin failed,
                      loaded["sni-spoof"] = written["sni-spoof"],
                      NEW i \in DOMAIN endpoints,
                      NEW d \in {"singbox", "xray"} \ (restarting \cup failed),
                      endpoints[i].socks # None, endpoints[i].socks[1] = d
               PROVE  \E server :
                        /\ LeadsTo(loaded[d], endpoints[i].socks[2], endpoints[i].uri, server)
                        /\ \/ server = <<endpoints[i].addr, 0>>
                           \/ \E v \in Nat \ {0} :
                                /\ server = <<"sni-spoof", v>>
                                /\ LeadsTo(loaded["sni-spoof"], v, endpoints[i].uri,
                                           <<endpoints[i].addr, 0>>)
    BY DEF DialsEndAtHome
  <2> DEFINE e == endpoints[i]
  <2>1. LeadsTo(loaded[d], e.socks[2], e.uri, Server(e))
    BY DEF DialsReachOwnServer, Serves
  <2>2. e.via \in Nat
    BY DEF TypeOK, Endpoint
  <2>3. CASE Spoofed(e)
    <3>1. Server(e) = <<"sni-spoof", e.via>> /\ e.via > 0
      BY <2>3 DEF Server, Spoofed
    <3>2. LeadsTo(loaded["sni-spoof"], e.via, e.uri, <<e.addr, 0>>)
      BY <3>1 DEF SpoofLeadsHome
    <3>3. QED  BY <2>1, <2>2, <3>1, <3>2
  <2>4. CASE ~ Spoofed(e)
    BY <2>1, <2>4 DEF Server
  <2>5. QED  BY <2>3, <2>4
<1>2. QED  BY <1>1, TypeCorrect, DialersServe, SpoofServes, PTL

-----------------------------------------------------------------------------
(* What a generator branches on is what the parser returned, and a RawURI  *)
(* in a file, of whichever start, is that of an entry the generator takes. *)
ParsedFrom(e, f) == /\ f.uri = e.uri /\ f.proto = e.proto
                    /\ f.net = e.net /\ f.complete = e.complete
ParsedInv == \A i \in DOMAIN endpoints :
  endpoints[i].proto # "sidecar" => \E f \in Entry : ParsedFrom(endpoints[i], f)
ListedInv ==
  /\ \A u \in Listed("singbox") : \E f \in Entry : f.uri = u /\ SingboxTakes(f)
  /\ \A u \in Listed("xray") : \E f \in Entry : f.uri = u /\ XrayTakes(f)
ClaimInv == ParsedInv /\ ListedInv

LEMMA ParsedStep == TypeOK /\ BatchInv /\ ParsedInv /\ [Next]_vars => ParsedInv'
<1> SUFFICES ASSUME TypeOK, BatchInv, ParsedInv, [Next]_vars PROVE ParsedInv'
  OBVIOUS
<1>1. CASE Stop
  BY <1>1 DEF Stop, ParsedInv
<1>2. CASE Keeps
  BY <1>2 DEF Keeps, ParsedInv, ParsedFrom
<1>3. CASE AddEndpoint
  <2>1. PICK e \in Item :
           (endpoints' = endpoints \/ Adds(e)) /\ (e.proto # "sidecar" => e \in Entry)
    BY <1>3, AddedItem
  <2>2. CASE endpoints' = endpoints
    BY <2>2 DEF ParsedInv
  <2>3. CASE Adds(e)
    <3>1. e.proto # "sidecar" => ParsedFrom(Named(e, batch.source), e)
      BY DEF ParsedFrom, Named
    <3>2. Named(e, batch.source).proto = e.proto
      BY DEF Named
    <3>3. ASSUME NEW i \in DOMAIN endpoints', endpoints'[i].proto # "sidecar"
          PROVE  \E f \in Entry : ParsedFrom(endpoints'[i], f)
      <4>1. CASE i \in DOMAIN endpoints /\ endpoints'[i] = endpoints[i]
        <5>1. PICK f \in Entry : ParsedFrom(endpoints[i], f)
          BY <3>3, <4>1 DEF ParsedInv
        <5>2. ParsedFrom(endpoints'[i], f)
          BY <4>1, <5>1
        <5>3. QED  BY <5>2
      <4>2. CASE endpoints'[i] = Named(e, batch.source)
        BY <2>1, <3>1, <3>2, <3>3, <4>2
      <4>3. QED  BY <2>3, <4>1, <4>2 DEF Adds
    <3>4. QED  BY <3>3 DEF ParsedInv
  <2>4. QED  BY <2>1, <2>2, <2>3
<1>4. QED  BY <1>1, <1>2, <1>3, PoolStep

(* The generators look at the protocol, the transport and the completeness *)
(* of an endpoint, and take no sidecar.                                    *)
LEMMA TakesEntry ==
  ASSUME ParsedInv, NEW i \in DOMAIN endpoints
  PROVE  /\ SingboxTakes(endpoints[i]) =>
              \E f \in Entry : f.uri = endpoints[i].uri /\ SingboxTakes(f)
         /\ XrayTakes(endpoints[i]) =>
              \E f \in Entry : f.uri = endpoints[i].uri /\ XrayTakes(f)
<1> USE DEF SingboxTakes, StreamOutbound, VmessOutbound, PlainOutbound, WireguardBlock,
            SingboxSpeaks, XrayTakes, HandlesEndpoint, XrayOutbound
<1>1. CASE endpoints[i].proto = "sidecar"
  BY <1>1
<1>2. CASE endpoints[i].proto # "sidecar"
  <2>1. PICK f \in Entry : ParsedFrom(endpoints[i], f)
    BY <1>2 DEF ParsedInv
  <2>2. f.uri = endpoints[i].uri
    BY <2>1 DEF ParsedFrom
  <2>3. SingboxTakes(endpoints[i]) => SingboxTakes(f)
    BY <2>1 DEF ParsedFrom
  <2>4. XrayTakes(endpoints[i]) => XrayTakes(f)
    BY <2>1 DEF ParsedFrom
  <2>5. QED  BY <2>2, <2>3, <2>4
<1>3. QED  BY <1>1, <1>2

LEMMA ListedStep == TypeOK /\ ParsedInv /\ ListedInv /\ [Next]_vars => ListedInv'
<1> SUFFICES ASSUME TypeOK, ParsedInv, ListedInv, [Next]_vars PROVE ListedInv'
  OBVIOUS
<1>0. written \in [Dialer -> SUBSET Route]
  BY DEF TypeOK
<1>1. CASE UNCHANGED written
  BY <1>1 DEF ListedInv, Listed
<1>2. CASE GenerateSpoof
  <2>1. \/ UNCHANGED written
        \/ \E routes : written' = [written EXCEPT !["sni-spoof"] = routes]
    BY <1>2 DEF GenerateSpoof, WriteFile
  <2>2. written'["singbox"] = written["singbox"] /\ written'["xray"] = written["xray"]
    BY <1>0, <2>1 DEF Dialer
  <2>3. QED  BY <2>2 DEF ListedInv, Listed
<1>3. CASE GenerateSingbox
  <2>1. \/ UNCHANGED written
        \/ written' = [written EXCEPT !["singbox"] = SingboxRoutes(endpoints)]
    BY <1>3 DEF GenerateSingbox, WriteFile
  <2>2. written'["xray"] = written["xray"]
    BY <1>0, <2>1 DEF Dialer
  <2>3. CASE written' = [written EXCEPT !["singbox"] = SingboxRoutes(endpoints)]
    <3>1. written'["singbox"] = SingboxRoutes(endpoints)
      BY <1>0, <2>3 DEF Dialer
    <3>2. ASSUME NEW r \in SingboxRoutes(endpoints)
          PROVE  \E f \in Entry : f.uri = r.uri /\ SingboxTakes(f)
      <4>1. PICK i \in SingboxTaken(endpoints) :
               r = RouteTo(SingboxTaken(endpoints), i, endpoints[i], Server(endpoints[i]))
        BY DEF SingboxRoutes, Routes
      <4>2. i \in DOMAIN endpoints /\ SingboxTakes(endpoints[i])
        BY DEF SingboxTaken
      <4>3. r.uri = endpoints[i].uri
        BY <4>1 DEF RouteTo
      <4>4. QED  BY <4>2, <4>3, TakesEntry
    <3>3. QED  BY <2>2, <3>1, <3>2 DEF ListedInv, Listed
  <2>4. QED  BY <1>1, <2>1, <2>3
<1>4. CASE GenerateXray
  <2>1. \/ UNCHANGED written
        \/ written' = [written EXCEPT !["xray"] = XrayRoutes(endpoints)]
    BY <1>4 DEF GenerateXray, WriteFile
  <2>2. written'["singbox"] = written["singbox"] \/ UNCHANGED written
    BY <1>0, <2>1 DEF Dialer
  <2>3. CASE written' = [written EXCEPT !["xray"] = XrayRoutes(endpoints)]
    <3>1. written'["xray"] = XrayRoutes(endpoints) /\ written'["singbox"] = written["singbox"]
      BY <1>0, <2>3 DEF Dialer
    <3>2. ASSUME NEW r \in XrayRoutes(endpoints)
          PROVE  \E f \in Entry : f.uri = r.uri /\ XrayTakes(f)
      <4>1. PICK i \in XrayTaken(endpoints) :
               r = RouteTo(XrayTaken(endpoints), i, endpoints[i], Server(endpoints[i]))
        BY DEF XrayRoutes, Routes
      <4>2. i \in DOMAIN endpoints /\ XrayTakes(endpoints[i])
        BY DEF XrayTaken
      <4>3. r.uri = endpoints[i].uri
        BY <4>1 DEF RouteTo
      <4>4. QED  BY <4>2, <4>3, TakesEntry
    <3>3. QED  BY <3>1, <3>2 DEF ListedInv, Listed
  <2>4. QED  BY <1>1, <2>1, <2>3
<1>5. CASE Start \/ LoadBatch \/ LoadFails \/ AddSidecars \/ NextLine \/ AddEndpoint \/ SidecarsAdded
  <2>1. UNCHANGED written
    BY <1>5 DEF Start, LoadBatch, LoadFails, AddSidecars, NextLine, AddEndpoint, SidecarsAdded
  <2>2. QED  BY <1>1, <2>1
<1>6. ASSUME NEW d \in Dialer,
             SkipDialer(d) \/ ContainerRestarted(d) \/ RestartFails(d) \/ ContainerStarts(d)
      PROVE  ListedInv'
  <2>1. UNCHANGED written
    BY <1>6 DEF SkipDialer, ContainerRestarted, RestartFails, ContainerStarts
  <2>2. QED  BY <1>1, <2>1
<1>7. ASSUME \/ Save \/ Stop \/ UNCHANGED vars
             \/ \E i \in DOMAIN endpoints :
                  \E o \in [enabled : BOOLEAN, priority : Priority] : Patch(i, o)
      PROVE  ListedInv'
  <2>1. UNCHANGED written
    BY <1>7 DEF Save, Stop, Patch, vars
  <2>2. QED  BY <1>1, <2>1
<1>8. QED  BY <1>2, <1>3, <1>4, <1>5, <1>6, <1>7 DEF Next

LEMMA ClaimInvariant == Spec => []ClaimInv
<1>1. Init => ClaimInv
  BY DEF Init, ClaimInv, ParsedInv, ListedInv, Listed, Dialer
<1>2. TypeOK /\ BatchInv /\ ClaimInv /\ [Next]_vars => ClaimInv'
  BY ParsedStep, ListedStep DEF ClaimInv
<1>3. QED  BY <1>1, <1>2, TypeCorrect, BatchInvariant, PTL DEF Spec

(* No RawURI is in the files of both dialers, even when one of the files   *)
(* is from an earlier start with another configuration (the transport is   *)
(* part of the text that is the RawURI; where it is not, in the vmess of a *)
(* bundle and in a .conf, xray takes nothing).                             *)
THEOREM DialersDisjoint == Spec => []ClaimedOnce
<1>1. ListedInv => ClaimedOnce
  <2> SUFFICES ASSUME ListedInv, NEW u \in Listed("singbox"), u \in Listed("xray")
               PROVE  FALSE
    BY DEF ClaimedOnce
  <2>1. PICK e \in Entry : e.uri = u /\ SingboxTakes(e)
    BY DEF ListedInv
  <2>2. PICK f \in Entry : f.uri = u /\ XrayTakes(f)
    BY DEF ListedInv
  <2>3. CASE e = f
    BY <2>1, <2>2, <2>3, OneDialerPerEndpoint
  <2>4. CASE BundleShape(f) \/ ConfShape(f)
    BY <2>2, <2>4 DEF BundleShape, ConfShape, XrayTakes, XrayOutbound
  <2>5. QED  BY <2>1, <2>2, <2>3, <2>4, RawURIAssumption
<1>2. QED  BY <1>1, ClaimInvariant, PTL DEF ClaimInv

-----------------------------------------------------------------------------
(* What the last PATCH of an endpoint set is in state.json as long as      *)
(* every pool saved since had the endpoint, and so it is in every pool     *)
(* that has the endpoint; a priority unless it is 0.                       *)
Remembers(o, u) == /\ o.enabled = wish[u].enabled
                   /\ wish[u].priority # 0 => o.priority = wish[u].priority
SavedInv == \A u \in remembered : saved[u] # None /\ Remembers(saved[u], u)

LEMMA SaveRemembers ==
  ASSUME NEW eps \in Seq(Endpoint), NEW u \in URI, u \in Uris(eps), NEW w,
         \A i \in DOMAIN eps : eps[i].uri = u =>
           /\ eps[i].enabled = w.enabled
           /\ w.priority # 0 => eps[i].priority = w.priority
  PROVE  /\ Saved(eps)[u] # None
         /\ Saved(eps)[u].enabled = w.enabled
         /\ w.priority # 0 => Saved(eps)[u].priority = w.priority
<1>1. PICK i \in DOMAIN eps : eps[i].uri = u /\ Saved(eps)[u] = OverrideOf(eps[i])
  BY SavedType
<1>2. eps[i] \in Endpoint
  OBVIOUS
<1>3. OverrideOf(eps[i]) \in Override
  BY <1>2 DEF OverrideOf, Override, Endpoint
<1>4. Saved(eps)[u] # None
  BY <1>1, <1>3, ValueAssumption
<1>5. /\ Saved(eps)[u].enabled = eps[i].enabled
      /\ Saved(eps)[u].priority = eps[i].priority
  BY <1>1 DEF OverrideOf
<1>6. QED  BY <1>1, <1>4, <1>5

LEMMA OverrideStep ==
  TypeOK /\ URIsUnique /\ SavedInv /\ OverridesSurvive /\ [Next]_vars
    => SavedInv' /\ OverridesSurvive'
<1> SUFFICES ASSUME TypeOK, URIsUnique, SavedInv, OverridesSurvive, [Next]_vars
             PROVE  SavedInv' /\ OverridesSurvive'
  OBVIOUS
<1>0. /\ endpoints \in Seq(Endpoint) /\ remembered \subseteq URI
      /\ saved \in [URI -> Override \cup {None}] /\ wish \in [URI -> Override \cup {None}]
  BY DEF TypeOK
<1>1. CASE UNCHANGED <<saved, wish, remembered>> /\ endpoints' = <<>>
  BY <1>1 DEF SavedInv, Remembers, OverridesSurvive
<1>2. CASE /\ UNCHANGED <<saved, wish, remembered>>
           /\ DOMAIN endpoints' = DOMAIN endpoints
           /\ \A i \in DOMAIN endpoints :
                /\ endpoints'[i].uri = endpoints[i].uri
                /\ endpoints'[i].enabled = endpoints[i].enabled
                /\ endpoints'[i].priority = endpoints[i].priority
  BY <1>2 DEF SavedInv, Remembers, OverridesSurvive
<1>3. CASE \/ Start \/ LoadBatch \/ LoadFails \/ AddSidecars \/ NextLine \/ SidecarsAdded
           \/ UNCHANGED vars
  <2>1. UNCHANGED <<endpoints, saved, wish, remembered>>
    BY <1>3 DEF Start, LoadBatch, LoadFails, AddSidecars, NextLine, SidecarsAdded, vars, history
  <2>2. QED  BY <1>2, <2>1
<1>4. ASSUME NEW d \in Dialer,
             SkipDialer(d) \/ ContainerRestarted(d) \/ RestartFails(d) \/ ContainerStarts(d)
      PROVE  SavedInv' /\ OverridesSurvive'
  <2>1. UNCHANGED <<endpoints, saved, wish, remembered>>
    BY <1>4 DEF SkipDialer, ContainerRestarted, RestartFails, ContainerStarts, history
  <2>2. QED  BY <1>2, <2>1
<1>5. CASE GenerateSpoof \/ GenerateSingbox \/ GenerateXray
  <2>1. UNCHANGED <<saved, wish, remembered>>
    BY <1>5 DEF GenerateSpoof, GenerateSingbox, GenerateXray
  <2>2. QED  BY <1>2, <1>5, <2>1, GenerateKeeps DEF Rewrites
<1>6. CASE AddEndpoint
  <2>1. PICK e \in Item : endpoints' = endpoints \/ Adds(e)
    BY <1>6, AddEndpointTurn
  <2>2. UNCHANGED <<saved, wish, remembered>>
    BY <1>6 DEF AddEndpoint, history
  <2>3. SavedInv'
    BY <2>2 DEF SavedInv, Remembers
  <2>4. ASSUME e.uri \in remembered
        PROVE  LET x == Named(e, batch.source) IN
               /\ x.uri = e.uri /\ x.enabled = wish[e.uri].enabled
               /\ wish[e.uri].priority # 0 => x.priority = wish[e.uri].priority
    <3>1. saved[e.uri] # None /\ Remembers(saved[e.uri], e.uri)
      BY <2>4 DEF SavedInv
    <3>2. /\ Restored(e).enabled = saved[e.uri].enabled
          /\ saved[e.uri].priority # 0 => Restored(e).priority = saved[e.uri].priority
      BY <3>1 DEF Restored
    <3>3. /\ Restored(e).enabled = wish[e.uri].enabled
          /\ wish[e.uri].priority # 0 => Restored(e).priority = wish[e.uri].priority
      BY <3>1, <3>2 DEF Remembers
    <3>4. QED  BY <3>3 DEF Named
  <2>5. Named(e, batch.source).uri = e.uri
    BY DEF Named
  <2>6. ASSUME NEW i \in DOMAIN endpoints', endpoints'[i].uri \in remembered
        PROVE  /\ endpoints'[i].enabled = wish[endpoints'[i].uri].enabled
               /\ wish[endpoints'[i].uri].priority # 0 =>
                    endpoints'[i].priority = wish[endpoints'[i].uri].priority
    <3>1. CASE i \in DOMAIN endpoints /\ endpoints'[i] = endpoints[i]
      BY <2>6, <3>1 DEF OverridesSurvive
    <3>2. CASE endpoints'[i] = Named(e, batch.source)
      BY <2>4, <2>5, <2>6, <3>2
    <3>3. QED  BY <2>1, <3>1, <3>2 DEF Adds
  <2>7. QED  BY <2>2, <2>3, <2>6 DEF OverridesSurvive
<1>7. CASE Save
  <2>1. /\ UNCHANGED <<endpoints, wish>> /\ saved' = Saved(endpoints)
        /\ remembered' = remembered \cap Uris(endpoints)
    BY <1>7 DEF Save
  <2>2. ASSUME NEW u \in remembered'
        PROVE  saved'[u] # None /\ Remembers(saved'[u], u)
    <3>1. u \in remembered /\ u \in URI /\ u \in Uris(endpoints)
      BY <1>0, <2>1, <2>2
    <3>2. \A i \in DOMAIN endpoints : endpoints[i].uri = u =>
            /\ endpoints[i].enabled = wish[u].enabled
            /\ wish[u].priority # 0 => endpoints[i].priority = wish[u].priority
      BY <3>1 DEF OverridesSurvive
    <3>3. PICK w : w = wish[u]
      OBVIOUS
    <3>4. PICK eps \in Seq(Endpoint) : eps = endpoints
      BY <1>0
    <3>5. \A i \in DOMAIN eps : eps[i].uri = u =>
            /\ eps[i].enabled = w.enabled
            /\ w.priority # 0 => eps[i].priority = w.priority
      BY <3>2, <3>3, <3>4
    <3>6. /\ Saved(eps)[u] # None /\ Saved(eps)[u].enabled = w.enabled
          /\ w.priority # 0 => Saved(eps)[u].priority = w.priority
      BY <3>1, <3>4, <3>5, SaveRemembers
    <3>7. saved' = Saved(eps)
      BY <2>1, <3>4
    <3>8. QED  BY <3>3, <3>6, <3>7 DEF Remembers
  <2>3. QED  BY <2>1, <2>2 DEF SavedInv, Remembers, OverridesSurvive
<1>8. ASSUME NEW i \in DOMAIN endpoints,
             NEW o \in [enabled : BOOLEAN, priority : Priority], Patch(i, o)
      PROVE  SavedInv' /\ OverridesSurvive'
  <2> PICK v : v = endpoints[i].uri
    OBVIOUS
  <2>1. /\ endpoints' \in Seq(Endpoint) /\ DOMAIN endpoints' = DOMAIN endpoints
        /\ \A j \in DOMAIN endpoints \ {i} : endpoints'[j] = endpoints[j]
        /\ endpoints'[i] = [endpoints[i] EXCEPT !.enabled = o.enabled, !.priority = o.priority]
    BY <1>8, PatchRewrites
  <2>2. endpoints[i] \in Endpoint
    BY <1>0
  <2>3. /\ endpoints'[i].uri = v /\ endpoints'[i].enabled = o.enabled
        /\ endpoints'[i].priority = o.priority /\ v \in URI
    BY <2>1, <2>2 DEF Endpoint
  <2>4. /\ saved' = Saved(endpoints') /\ wish' = [wish EXCEPT ![v] = o]
        /\ remembered' = (remembered \cap Uris(endpoints)) \cup {v}
    BY <1>8 DEF Patch
  <2>5. wish'[v] = o /\ \A u \in URI \ {v} : wish'[u] = wish[u]
    BY <1>0, <2>3, <2>4
  <2>6. ASSUME NEW j \in DOMAIN endpoints', endpoints'[j].uri \in remembered'
        PROVE  /\ endpoints'[j].enabled = wish'[endpoints'[j].uri].enabled
               /\ wish'[endpoints'[j].uri].priority # 0 =>
                    endpoints'[j].priority = wish'[endpoints'[j].uri].priority
    <3>1. CASE j = i
      BY <2>3, <2>5, <3>1
    <3>2. CASE j # i
      <4>1. endpoints'[j] = endpoints[j] /\ j \in DOMAIN endpoints
        BY <2>1, <3>2
      <4>2. endpoints[j].uri # v
        BY <3>2, <4>1 DEF URIsUnique
      <4>3. endpoints[j].uri \in remembered
        BY <2>4, <2>6, <4>1, <4>2
      <4>4. wish'[endpoints[j].uri] = wish[endpoints[j].uri]
        BY <1>0, <2>5, <4>2, <4>3
      <4>5. QED  BY <4>1, <4>3, <4>4 DEF OverridesSurvive
    <3>3. QED  BY <3>1, <3>2
  <2>7. ASSUME NEW u \in remembered'
        PROVE  /\ saved'[u] # None /\ saved'[u].enabled = wish'[u].enabled
               /\ wish'[u].priority # 0 => saved'[u].priority = wish'[u].priority
    <3>1. u \in URI /\ u \in Uris(endpoints')
      <4>1. \A j \in DOMAIN endpoints : endpoints'[j].uri = endpoints[j].uri
        BY <2>1, <2>3
      <4>2. \A x \in Uris(endpoints) : x \in Uris(endpoints')
        BY <2>1, <4>1 DEF Uris
      <4>3. v \in Uris(endpoints')
        BY <2>1, <2>3 DEF Uris
      <4>4. QED  BY <1>0, <2>3, <2>4, <2>7, <4>2, <4>3
    <3>2. PICK w : w = wish'[u]
      OBVIOUS
    <3>3. \A j \in DOMAIN endpoints' : endpoints'[j].uri = u =>
            /\ endpoints'[j].enabled = w.enabled
            /\ w.priority # 0 => endpoints'[j].priority = w.priority
      BY <2>6, <2>7, <3>2
    <3>4. PICK eps \in Seq(Endpoint) : eps = endpoints'
      BY <2>1
    <3>5. /\ Saved(eps)[u] # None /\ Saved(eps)[u].enabled = w.enabled
          /\ w.priority # 0 => Saved(eps)[u].priority = w.priority
      BY <3>1, <3>3, <3>4, SaveRemembers
    <3>6. saved' = Saved(eps)
      BY <2>4, <3>4
    <3>7. QED  BY <3>2, <3>5, <3>6
  <2>8. QED  BY <2>6, <2>7 DEF SavedInv, Remembers, OverridesSurvive
<1>9. CASE Stop
  BY <1>1, <1>9 DEF Stop, history
<1>10. QED  BY <1>3, <1>4, <1>5, <1>6, <1>7, <1>8, <1>9 DEF Next

(* What the last PATCH set comes back at every start, whatever starts fail *)
(* or stop in between, as long as every pool that was saved since had the  *)
(* endpoint (addEndpoints restores what PATCH and the probes save).        *)
THEOREM OverridesComeBack == Spec => []OverridesSurvive
<1>1. Init => SavedInv /\ OverridesSurvive
  BY DEF Init, SavedInv, OverridesSurvive
<1>2. QED  BY <1>1, OverrideStep, TypeCorrect, RawURIsUnique, PTL DEF Spec
=============================================================================
