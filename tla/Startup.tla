------------------------------- MODULE Startup -------------------------------
(***************************************************************************)
(* main, from config.yaml to the running pool, over any number of starts:  *)
(* sources are parsed or fail to load, endpoints are collapsed, named and  *)
(* given back the overrides that state.json saved, each generator writes   *)
(* the file of its container, and the containers of sing-box and xray are  *)
(* restarted by goroutines that may not get to it.                         *)
(*                                                                         *)
(* Reading is a loop over the sources, over the files of each, over the    *)
(* lines of a file and over the endpoints of a line: one step handles one  *)
(* endpoint.  The process may stop between any two steps.  A file is       *)
(* written by rename, in one step.  Statuses and latencies are left out,   *)
(* and what several goroutines do to the running pool is in EndpointPool:  *)
(* here a PATCH and the save that follows it are one step.                 *)
(***************************************************************************)
EXTENDS Dialers, SequencesExt

CONSTANTS Config,    \* the configurations a start may find
          Toggled,   \* the RawURIs of the endpoints that are ever PATCHed,
          Priority,  \* and the priorities they may be given
          Bad,       \* a line, or a record of a bundle, that does not parse
          None

VARIABLES
  pc,          \* where main is
  config,      \* the configuration it loaded
  todo,        \* the files and URLs still to be read
  batch,       \* the one being read: its source, the lines that are left of
               \* it, and the number of endpoints before it
  endpoints,   \* the endpoints so far; the pool, once running
  saved,       \* state.json: the overrides by RawURI
  written,     \* the file of each container: the routes in it
  loaded,      \* what each container runs with
  restarting,  \* the containers a goroutine of this run is about to restart
  failed,      \* history: the containers whose file or restart failed
  wish,        \* history: the overrides that the last PATCH set, by RawURI
  remembered   \* history: the RawURIs in every pool saved since that PATCH

history == <<failed, wish, remembered>>
loading == <<config, todo, batch>>
vars == <<pc, loading, endpoints, saved, written, loaded, restarting, history>>

Dialer == {"sni-spoof", "singbox", "xray"}
Batch == UNION {ToSet(c.batches) : c \in Config}
Entry == UNION {ToSet(line) : line \in UNION {ToSet(b.lines) : b \in Batch}} \ {Bad}
Sidecar == UNION {ToSet(c.sidecars) : c \in Config}
Item == Entry \cup Sidecar
URI == {e.uri : e \in Item}
Addr == {e.addr : e \in Item}
Name == {"sidecars"} \cup {b.source : b \in Batch} \cup ({e.source : e \in Sidecar} \ {None})
Override == [enabled : BOOLEAN, priority : Int]
Socks == {None} \cup (Addr \X {0}) \cup (Dialer \X (Nat \ {0}))
Endpoint ==
  [id : (Protocol \X Addr) \cup (Name \X Protocol \X Addr), uri : URI, source : Name,
   proto : Protocol, addr : Addr, net : Transport, sec : Security, fake : BOOLEAN,
   complete : BOOLEAN, via : Nat, socks : Socks, enabled : BOOLEAN, priority : Int]
Route == [port : Nat \ {0}, uri : URI, server : (Addr \cup {"sni-spoof"}) \X Nat]

(* What parsers and EnabledEndpoints return: only the latter sets Source,  *)
(* to that of a bundle, and its addresses are those of the sidecars.       *)
ASSUME EntryAssumption ==
  /\ \A e \in Item : e.net \in Transport /\ e.sec \in Security
                     /\ e.fake \in BOOLEAN /\ e.complete \in BOOLEAN
  /\ \A e \in Entry : /\ \/ StreamShape(e) \/ PlainShape(e) \/ TunnelShape(e)
                         \/ MTProxyShape(e) \/ BundleShape(e) \/ ConfShape(e)
                      /\ e.source = None
  /\ \A e \in Sidecar : SidecarShape(e) /\ e.addr \notin Dialer
(* A RawURI is the text that was parsed, except for the vmess of a bundle, *)
(* which has host and label only, and a .conf, which has the file's name.  *)
ASSUME RawURIAssumption ==
  \A e, f \in Entry : e.uri = f.uri => \/ e = f
                                       \/ BundleShape(e) /\ BundleShape(f)
                                       \/ ConfShape(e) /\ ConfShape(f)
(* A source without a name, or with the one main gives to the sidecars,    *)
(* would have bare IDs (main.go:138); nothing keeps a user from that.      *)
ASSUME ConfigAssumption ==
  \A c \in Config :
    /\ c.batches \in Seq(Batch) /\ c.sidecars \in Seq(Sidecar)
    /\ \A b \in ToSet(c.batches) : /\ b.source \notin {"", "sidecars"}
                                   /\ b.lines \in Seq(Seq(Entry \cup {Bad}))
ASSUME ValueAssumption == Priority \subseteq Int /\ None \notin Override

-----------------------------------------------------------------------------
(* ParseSubscription.  A line that does not parse is skipped, and a bundle *)
(* with a bad record as a whole.                                           *)
Parses(line) == Bad \notin ToSet(line)

(* An AmneziaWG configuration gives way to the sidecar.                    *)
Superseded(e) == e.proto = "amneziawg" /\ config.amneziawg

(* The ID of an endpoint: genID, after the name of the source.             *)
NamespacedBare(source, e) == <<e.proto, e.addr>>
Namespaced(source, e) ==
  IF source \in {"default", "sidecars"} THEN <<e.proto, e.addr>>
                                        ELSE <<source, e.proto, e.addr>>

(* Mutant: only what was turned on comes back.                             *)
RestoredIfEnabled(e) ==
  LET s == saved[e.uri]
  IN  IF s = None \/ ~ s.enabled THEN [enabled |-> TRUE, priority |-> e.priority]
      ELSE [enabled |-> TRUE, priority |-> s.priority]
Restored(e) ==
  LET s == saved[e.uri]
  IN  IF s = None THEN [enabled |-> TRUE, priority |-> e.priority]
      ELSE [enabled |-> s.enabled,
            priority |-> IF s.priority # 0 THEN s.priority ELSE e.priority]

(* A sidecar may name the bundle it came with as its source.               *)
Named(e, source) ==
  [id |-> Namespaced(source, e), uri |-> e.uri,
   source |-> IF e.source = None THEN source ELSE e.source,
   proto |-> e.proto, addr |-> e.addr, net |-> e.net, sec |-> e.sec,
   fake |-> e.fake, complete |-> e.complete, via |-> 0,
   socks |-> IF e.proto = "sidecar" THEN <<e.addr, 0>> ELSE None,
   enabled |-> Restored(e).enabled, priority |-> Restored(e).priority]

(* addEndpoints: an entry is dropped when its RawURI is in the pool, or    *)
(* when this batch has added its protocol and address already.             *)
SameServer(x, e) == x.proto = e.proto /\ x.addr = e.addr
(* Mutant: RawURIs are remembered for one batch, as the servers are.       *)
KnownInBatch(e) == \E i \in DOMAIN endpoints :
  i > batch.from /\ (endpoints[i].uri = e.uri \/ SameServer(endpoints[i], e))
Known(e) == \E i \in DOMAIN endpoints :
  endpoints[i].uri = e.uri \/ (i > batch.from /\ SameServer(endpoints[i], e))

BatchOf(source, lines) == [source |-> source, lines |-> lines, from |-> Len(endpoints)]
NoBatch == [source |-> "sidecars", lines |-> <<>>, from |-> 0]

Init ==
  /\ pc = "down" /\ config = None /\ todo = <<>> /\ batch = NoBatch /\ endpoints = <<>>
  /\ saved = [u \in URI |-> None]
  /\ written = [d \in Dialer |-> {}] /\ loaded = [d \in Dialer |-> {}]
  /\ restarting = {}
  /\ failed = {} /\ wish = [u \in URI |-> None] /\ remembered = {}

Start ==
  /\ pc = "down"
  /\ \E c \in Config : config' = c /\ todo' = c.batches
  /\ pc' = "load"
  /\ failed' = {}
  /\ UNCHANGED <<batch, endpoints, saved, written, loaded, restarting, wish, remembered>>

(* A file or URL of a source is read, or cannot be.                        *)
LoadBatch ==
  /\ pc = "load" /\ batch.lines = <<>> /\ todo # <<>>
  /\ batch' = BatchOf(Head(todo).source, Head(todo).lines)
  /\ todo' = Tail(todo)
  /\ UNCHANGED <<pc, config, endpoints, saved, written, loaded, restarting, history>>

LoadFails ==
  /\ pc = "load" /\ batch.lines = <<>> /\ todo # <<>>
  /\ todo' = Tail(todo)
  /\ UNCHANGED <<pc, config, batch, endpoints, saved, written, loaded, restarting, history>>

(* The sidecars are a batch like those of the sources.                     *)
AddSidecars ==
  /\ pc = "load" /\ batch.lines = <<>> /\ todo = <<>>
  /\ batch' = BatchOf("sidecars", <<config.sidecars>>)
  /\ pc' = "sidecars"
  /\ UNCHANGED <<config, todo, endpoints, saved, written, loaded, restarting, history>>

NextLine ==
  /\ batch.lines # <<>>
  /\ Head(batch.lines) = <<>> \/ ~ Parses(Head(batch.lines))
  /\ batch' = [batch EXCEPT !.lines = Tail(@)]
  /\ UNCHANGED <<pc, config, todo, endpoints, saved, written, loaded, restarting, history>>

AddEndpoint ==
  /\ batch.lines # <<>> /\ Head(batch.lines) # <<>> /\ Parses(Head(batch.lines))
  /\ LET e == Head(Head(batch.lines))
     IN  endpoints' = IF Superseded(e) \/ Known(e) THEN endpoints
                      ELSE Append(endpoints, Named(e, batch.source))
  /\ batch' = [batch EXCEPT !.lines[1] = Tail(@)]
  /\ UNCHANGED <<pc, config, todo, saved, written, loaded, restarting, history>>

SidecarsAdded ==
  /\ pc = "sidecars" /\ batch.lines = <<>>
  /\ pc' = "sni-spoof"
  /\ UNCHANGED <<loading, endpoints, saved, written, loaded, restarting, history>>

-----------------------------------------------------------------------------
Generates(d) == pc = d /\ d \in config.dialers /\ endpoints # <<>>
Next_(d) == CASE d = "sni-spoof" -> "singbox" [] d = "singbox" -> "xray"
              [] d = "xray" -> "running"

(* The dialer is switched off, or there is nothing to dial.                *)
SkipDialer(d) ==
  /\ pc = d /\ ~ Generates(d)
  /\ pc' = Next_(d)
  /\ UNCHANGED <<loading, endpoints, saved, written, loaded, restarting, history>>

(* The file is written, or the write fails.                                *)
WriteFile(d, routes) ==
  \/ /\ written' = [written EXCEPT ![d] = routes]
     /\ UNCHANGED failed
  \/ /\ failed' = failed \cup {d}
     /\ UNCHANGED written

(* Nobody restarts sni-spoof.                                              *)
GenerateSpoof ==
  /\ Generates("sni-spoof")
  /\ endpoints' = SpoofPinned(endpoints, config.fakeSNI)
  /\ LET routes == SpoofRoutes(endpoints, config.fakeSNI)
     IN  IF routes = {} THEN UNCHANGED <<written, failed>>
                          ELSE WriteFile("sni-spoof", routes)
  /\ pc' = "singbox"
  /\ UNCHANGED <<loading, saved, loaded, restarting, wish, remembered>>

(* Mutant: the container is restarted when its file has changed only.      *)
RestartIfChanged(d) ==
  restarting' = IF written'[d] # written[d] THEN restarting \cup {d} ELSE restarting
RestartContainer(d) ==
  restarting' = IF d \in failed' THEN restarting ELSE restarting \cup {d}

GenerateSingbox ==
  /\ Generates("singbox")
  /\ endpoints' = SingboxPinned(endpoints)
  /\ WriteFile("singbox", SingboxRoutes(endpoints))
  /\ RestartContainer("singbox")
  /\ pc' = "xray"
  /\ UNCHANGED <<loading, saved, loaded, wish, remembered>>

GenerateXray ==
  /\ Generates("xray")
  /\ endpoints' = XrayPinned(endpoints)
  /\ IF XrayRoutes(endpoints) = {}
       THEN UNCHANGED <<written, failed, restarting>>
       ELSE /\ WriteFile("xray", XrayRoutes(endpoints))
            /\ RestartContainer("xray")
  /\ pc' = "running"
  /\ UNCHANGED <<loading, saved, loaded, wish, remembered>>

(* The goroutine of maybeRestartContainer reaches docker, or does not; the *)
(* latter is also what happens where the socket of docker is not mounted.  *)
ContainerRestarted(d) ==
  /\ d \in restarting
  /\ restarting' = restarting \ {d}
  /\ loaded' = [loaded EXCEPT ![d] = written[d]]
  /\ UNCHANGED <<pc, loading, endpoints, saved, written, history>>

RestartFails(d) ==
  /\ d \in restarting
  /\ restarting' = restarting \ {d}
  /\ failed' = failed \cup {d}
  /\ UNCHANGED <<pc, loading, endpoints, saved, written, loaded, wish, remembered>>

(* A container starts by itself.                                           *)
ContainerStarts(d) ==
  /\ loaded' = [loaded EXCEPT ![d] = written[d]]
  /\ UNCHANGED <<pc, loading, endpoints, saved, written, restarting, history>>

-----------------------------------------------------------------------------
OverrideOf(e) == [enabled |-> e.enabled, priority |-> e.priority]
Saved(eps) == [u \in URI |-> IF \E i \in DOMAIN eps : eps[i].uri = u
   THEN OverrideOf(eps[CHOOSE i \in DOMAIN eps : eps[i].uri = u]) ELSE None]
Uris(eps) == {eps[i].uri : i \in DOMAIN eps}

(* A pass of the probing goroutine saves the pool; there is none over an   *)
(* empty one.                                                              *)
Save ==
  /\ pc = "running" /\ config.probeOnStart /\ endpoints # <<>>
  /\ saved' = Saved(endpoints)
  /\ remembered' = remembered \cap Uris(endpoints)
  /\ UNCHANGED <<pc, loading, endpoints, written, loaded, restarting, failed, wish>>

(* A PATCH changes the first endpoint of its ID and saves the pool.        *)
Patch(i, o) ==
  /\ pc = "running" /\ endpoints[i].uri \in Toggled
  /\ \A j \in 1..(i - 1) : endpoints[j].id # endpoints[i].id
  /\ endpoints' = [endpoints EXCEPT ![i].enabled = o.enabled, ![i].priority = o.priority]
  /\ saved' = Saved(endpoints')
  /\ wish' = [wish EXCEPT ![endpoints[i].uri] = o]
  /\ remembered' = (remembered \cap Uris(endpoints)) \cup {endpoints[i].uri}
  /\ UNCHANGED <<pc, loading, written, loaded, restarting, failed>>

(* A reload from the dashboard, or a crash.                                *)
Stop ==
  /\ pc # "down"
  /\ pc' = "down" /\ config' = None /\ todo' = <<>> /\ batch' = NoBatch
  /\ endpoints' = <<>>
  /\ restarting' = {}
  /\ UNCHANGED <<saved, written, loaded, history>>

Next ==
  \/ Start \/ LoadBatch \/ LoadFails \/ NextLine \/ AddEndpoint
  \/ AddSidecars \/ SidecarsAdded
  \/ GenerateSpoof \/ GenerateSingbox \/ GenerateXray
  \/ \E d \in Dialer : \/ SkipDialer(d)
                       \/ ContainerRestarted(d) \/ RestartFails(d) \/ ContainerStarts(d)
  \/ Save
  \/ \E i \in DOMAIN endpoints : \E o \in [enabled : BOOLEAN, priority : Priority] :
       Patch(i, o)
  \/ Stop

Spec == Init /\ [][Next]_vars

-----------------------------------------------------------------------------
TypeOK ==
  /\ pc \in {"down", "load", "sidecars", "running"} \cup Dialer
  /\ config \in IF pc = "down" THEN {None} ELSE Config
  /\ todo \in Seq(Batch)
  /\ batch \in [source : Name, lines : Seq(Seq(Item \cup {Bad})), from : 0..Len(endpoints)]
  /\ endpoints \in Seq(Endpoint)
  /\ \A i \in DOMAIN endpoints : LET e == endpoints[i] IN
       /\ e.via \in 0..Len(endpoints)
       /\ e.proto # "sidecar" => e.socks \in {None} \cup (Dialer \X (1..Len(endpoints)))
  /\ saved \in [URI -> Override \cup {None}]
  /\ wish \in [URI -> Override \cup {None}]
  /\ written \in [Dialer -> SUBSET Route] /\ loaded \in [Dialer -> SUBSET Route]
  /\ restarting \subseteq {"singbox", "xray"} /\ failed \subseteq Dialer
  /\ remembered \subseteq URI

(* state.json and the restored overrides are keyed by RawURI: a pool never *)
(* has one twice, whatever the sources list (addEndpoints: seen).          *)
URIsUnique ==
  \A i, j \in DOMAIN endpoints : endpoints[i].uri = endpoints[j].uri => i = j

(* Once main runs, a dialer whose file was written and whose restart did   *)
(* not fail or is not still to come serves each endpoint on the port that  *)
(* the balancer dials: the port exists in what the container has loaded,   *)
(* belongs to that endpoint and leads to its own server.  Whatever the     *)
(* container ran with before, across stops between write and restart.      *)
LeadsTo(routes, p, uri, server) ==
  /\ \E r \in routes : r.port = p
  /\ \A r \in routes : r.port = p => r.uri = uri /\ r.server = server
Serves(routes, p, e) == LeadsTo(routes, p, e.uri, Server(e))
DialsReachOwnServer ==
  pc = "running" =>
    \A i \in DOMAIN endpoints : \A d \in {"singbox", "xray"} \ (restarting \cup failed) :
      LET e == endpoints[i]
      IN  e.socks # None /\ e.socks[1] = d => Serves(loaded[d], e.socks[2], e)

(* The port of sni-spoof that such a server may be leads on to the address *)
(* of the endpoint: in the file, unless writing it failed, and in the      *)
(* container once that has loaded it, which nobody sees to.                *)
SpoofLeadsHome ==
  \A i \in DOMAIN endpoints : LET e == endpoints[i] IN
    e.via > 0 /\ "sni-spoof" \notin failed =>
      LeadsTo(written["sni-spoof"], e.via, e.uri, <<e.addr, 0>>)

(* No endpoint is listed by the files of both dialers, even when one of    *)
(* them is left over from an earlier start (xray.HandlesEndpoint mirrors   *)
(* what the generator of sing-box rejects).                                *)
Listed(d) == {r.uri : r \in written[d]}
ClaimedOnce == Listed("singbox") \cap Listed("xray") = {}

(* A PATCH and a mark find an endpoint by its ID: two of one ID can only   *)
(* come from the same source, never from two configurations of one server. *)
SharedIdsSameSource ==
  \A i, j \in DOMAIN endpoints :
    endpoints[i].id = endpoints[j].id => endpoints[i].source = endpoints[j].source

(* What the last PATCH set comes back at every start, as long as every     *)
(* pool that was saved since had the endpoint; a priority unless it was 0. *)
OverridesSurvive ==
  \A i \in DOMAIN endpoints : LET e == endpoints[i] IN
    e.uri \in remembered =>
      /\ e.enabled = wish[e.uri].enabled
      /\ wish[e.uri].priority # 0 => e.priority = wish[e.uri].priority

(* What the comment on the restoring code promises: "toggles made from the *)
(* dashboard survive restart".  It fails for an endpoint whose source did  *)
(* not load at one start, because the pool is saved without it.            *)
TogglesSurvive ==
  \A i \in DOMAIN endpoints : LET e == endpoints[i] IN
    wish[e.uri] # None => e.enabled = wish[e.uri].enabled
=============================================================================
