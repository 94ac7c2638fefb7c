# TLA+ specifications of moav-client

moav-client runs `proxy-core`, a Go process that accepts SOCKS5 and HTTP CONNECT
connections and sends each of them through one of many proxy endpoints.  Its
endpoints come from subscriptions, are probed in the background, are edited from
a dashboard, and are kept across restarts in two files.  This directory models
the parts of it where several goroutines, requests and crashes meet, checks the
models with TLC, and proves the most important results with TLAPS.

Paths below are relative to `src/proxy-core/` unless they say otherwise.

## 1. Inventory

What runs: `main` (startup), one goroutine per client connection, one per API
request and WebSocket, two per HTTP tunnel, one per `POST /api/probe` and per sidecar toggle, the
goroutine `main` starts to probe when `probe_on_start` is set, and the goroutine
of `Prober.Run`.

| Component | State it keeps | Operations | Modelled |
|---|---|---|---|
| Endpoint pool: `balancer/balancer.go`, its writers in `main.go`, `api/api.go`, `prober/prober.go` | the endpoint slice behind `Balancer.mu` | `SetEndpoints`, `Endpoints`, `PatchEndpoint`, `markError`; probe passes | `EndpointPool` |
| Dialing: `DialContext`, `balancer/stats.go` | per call: attempt, excluded endpoints; counters per endpoint; kill-switch; strategy | pick, dial, mark, fail over, refuse or dial directly; toggles | `Dialing` |
| `state.json`: `state/state.go` | the file and `path.tmp` | `Save`, `Load`, restart | `StateFile`, `AtomicStore` |
| `config.yaml`: `api/yamledit.go` and its callers in `api/api.go` | the file, the engine's rules, three copies of the kill-switch | every editing handler, restart | `ConfigEdits` |
| Prober: `prober/prober.go` | a channel of capacity 1 | `ProbeAll`, `Run` | its effect on the pool, in `EndpointPool` |
| Startup: `main.go`, `config/config.go` | parsed endpoints, overrides to restore, the dialers' files and what their containers have loaded | read sources, collapse, name, restore, generate, restart containers, reload | `Startup` |
| Flows: `balancer/flows.go` | a ring of connections | `Begin`, `Add`, `End`, `Snapshot` | when a flow begins and ends, in `Proxy` |
| Listeners: `proxy/server.go`, `proxy/handler.go` | the local state of a handler, two copiers per tunnel | accept, decide, dial, tunnel, close | `Proxy` |
| Engine: `plugins/engine.go`, `plugins/routing.go`, `plugins/torrent.go` | the rule list, behind a lock | `Evaluate`, `SetRules`, `TorrentBlocker.Match` | `Proxy`; the list as a setting in `ConfigEdits` |
| Rule lists: `plugins/lists.go` | parsed files by modification time | `loadList`, match | `Proxy` |
| WebSocket hub: `api/api.go`, the endpoint table of `src/web-ui` | a channel of pools per feed | register, broadcast, send, give up | `LiveFeed` |
| Tickets: `api/wsticket.go` | tickets with an expiry | issue, consume | no: one critical section each |
| Log bus: `logbus/logbus.go` | a ring per level, subscriber channels | publish, subscribe, unsubscribe | subscribers and fan-out, in `LiveFeed`; not the rings |
| Sidecar containers: `dockerctl/`, `api/api.go` | containers | start and stop from PATCH, restarts from startup and reload | `LiveFeed`; restarts in `Startup` |
| `.env`: `api/api.go`, `main.go` | exposure settings, credentials | read, rewrite, precedence at startup | no |
| Generators: `singbox/`, `xray/`, `snispoof/` | ports handed out | which endpoint, port and server | `Dialers` |
| Parsing: `subscription/`, `sidecars/manager.go` | none | parse, fetch | the shapes it returns, in `Dialers`; text formats no |
| Bundles, backup, CLI, rest of the web UI, installer | archives, screens, scripts | | no: input/output and wrappers |

### How they interact

- The pool is shared by everything.  `Balancer.Endpoints` returns a copy, but
  `SetEndpoints` keeps the slice it is given, so `main` goes on holding the array
  that the balancer writes to under its lock: its first probe pass and each of its
  saves read that array without the lock.
- A PATCH changes one endpoint under the lock, then takes a snapshot of the pool
  and saves it to `state.json` in the handler's goroutine.  The probing goroutine
  saves after each pass.  Nothing orders saves.
- `POST /api/probe` and the merge of a background pass both replace the pool by a
  copy they made earlier.
- A failed dial marks its endpoint; a probe brings it back.  The two race.
- Handlers that edit `config.yaml` read, change and rewrite the file without a
  lock, after they have applied kill-switch or rules to the running process.  When
  the file cannot be read or written they say so and leave what they have applied.
- A listener asks the torrent blocker and the engine what to do with a connection.
  `direct` dials at once, `proxy` goes through the balancer, which falls back to a
  direct dial of its own unless the kill-switch is on.
- The engine's lock keeps its rule list still during an evaluation, not the files
  that rules name; those are parsed once per modification time, by whichever
  connection comes first.
- A PATCH and a probe change the pool, and afterwards broadcast it to the feeds; the
  background passes and failing dials change it and tell nobody.  A PATCH of a
  sidecar sends a goroutine to docker.  A page asks for the pool when it opens and at
  each refresh, has a feed that sends a pool when it starts and at each broadcast, and
  puts the answer to a PATCH of its own into its table: three ways by which a pool gets
  there, and nothing orders them.
- At startup `main` gives every endpoint a port of sing-box or xray, which serve
  it only once they have reloaded the file `main` wrote: a goroutine restarts them
  while the pool is already in use, and a reload from the dashboard restarts
  `proxy-core` alone.
- `state.json` is read back by `RawURI` at startup and replaced by the pool of the
  run at each save.

### What is hard here, and what correctness means

| Component | Hard behaviour | Correct means |
|---|---|---|
| pool | read, then write later, of a shared slice by four kinds of goroutine; a lossy channel; a slice shared without its lock | a toggle or a priority changes by a PATCH only; a lost one is lost in a known way; statuses settle on what the network says; the overrides reach the disk |
| dialing | the pool changes between the attempts of a call; calls race on counters; probes revive what a call has marked; the kill-switch flips | bounded attempts, no endpoint tried twice, none that stayed live skipped, no direct dial under the kill-switch, counters that account for the calls, every call ends |
| state.json | a crash between any two system calls; two savers on one `path.tmp` | a save is atomic; what is loaded was saved last |
| config.yaml | read, edit, truncate, write without a lock; a crash or an error in between; copies of one setting in three places | no edit drops another; the live copies of a setting agree, and the file with them once it is saved |
| startup | sources fail to load one by one; `main` may stop between a file and the restart that puts it in force; containers start by themselves; the same server in several sources | a port the balancer dials leads to the endpoint it was given to; overrides come back; one ID, one source; no endpoint in both dialers |
| listeners, flows | many ways out of a handler after its dial; two copiers that outlive the tunnel and wait without deadlines | a flow ends with its connection; a tunnel that loses one end lets go of everything, unless the other end takes nothing |
| engine, lists | files edited while connections walk the rules; several loads of one file at once | the cache never lies; the first matching rule decides |
| hub, feeds | broadcast after the change, slow clients skipped, answers that overtake frames, browsers that vanish | an idle page shows the pool; nobody waits for a browser; a gone one is let go |
| log bus | unsubscribing while publishing | no send on a closed channel |
| sidecars | start and stop goroutines that are not ordered; docker that fails | the container ends as the last toggle says |

Every such place is listed with its line under `hazards` in `PROJECT.json`.

## 2. Modules

| Module | What it is |
|---|---|
| `EndpointPool` | the pool and every goroutine that rewrites it |
| `EndpointPoolHistory` | the same with two history variables, for the question of what may lose an override |
| `EndpointPool_proofs`, `EndpointPoolHistory_proofs` | theorems about the two |
| `Dialing` | `DialContext` calls over that pool: EXTENDS `EndpointPool` and composes its steps with its own |
| `Dialing_proofs` | its invariants and the refinement of `EndpointPool`, proved |
| `AtomicStore` | the abstract specification of `state.Save` and `state.Load` |
| `StateFile`, `StateFile_proofs` | the same by system calls, and the refinement proved |
| `ConfigEdits` | `config.yaml` and the settings that live beside it |
| `ConfigEdits_proofs` | its types and what holds of requests that do not overlap |
| `Dialers` | pure: the shapes of parsed endpoints; which generator takes which, with what port and server |
| `Startup` | `main` from `config.yaml` to the running pool, over any number of restarts: EXTENDS `Dialers` |
| `Startup_proofs` | what holds of ports and generators for every list of endpoints, and the safety of `Startup`, proved |
| `Proxy`, `Proxy_proofs` | a client connection from accept to close, with the engine and its lists; its safety, proved |
| `LiveFeed`, `LiveFeed_proofs` | broadcasts, feeds, log bus, page and a sidecar's container; their safety, proved |
| `MCEndpointPool`, `MCPool`, `MCDialing`, `MCStateFile`, `MCConfigEdits`, `MCStartup`, `MCProxy`, `MCLiveFeed` | values for TLC |

Definitions whose comment says *Mutant* are broken variants of the definition
that follows them.  No specification uses them: each is substituted for the sound
definition to see that a property notices.

### EndpointPool

`pool` is `Balancer.endpoints`, a function from endpoint IDs to records.  Of a
record we keep `Enabled`, `Priority` and whether `Status` is `"ok"`; the code
compares a status with `"ok"` and with nothing else, and `LatencyMs` travels with
it.  `disk` is what `state.json` holds, written in one step here: `StateFile` says
when that is right.  `up` is the network.

| Action | Code |
|---|---|
| `PatchEndpoint`, `PatchSnapshot`, `PatchSave` | `handleEndpointPatch`; the critical section of `PatchEndpoint`, that of `Endpoints` in `persistEndpointState`, and `Save` |
| `ProbeStart`, `ProbeAll`, `ProbePublish` | `handleProbe`: snapshot, probe, `SetEndpoints` |
| `LoopScan`, `LoopProbe`, `LoopPublish`, `LoopSave`, `LoopReceive` | the probing goroutine of `main.go:351-411` |
| `RunFetch`, `RunProbe`, `RunSend` | `Prober.Run`, whose send drops a pass when the channel is full |
| `Flap`, `MarkError` | a server goes up or down; a dial failed |

One action is one critical section of `Balancer.mu`, or one access made without
it.  The array `main` shares with the balancer is the delicate point: while
`loopOwns` holds, `LoopElem` reads elements from `pool` itself, one per `LoopScan`
step, and `LeftBehind` is what the goroutine is left with when somebody else's
`SetEndpoints` replaces the array under it.

Abstractions: a probe pass sees the network at one instant; a read of one element
is not torn (Go promises less for a data race, but a boolean, an integer and a
string header that any run of this code mixes are each written alone by a PATCH);
endpoint IDs are unique (two endpoints with one ID are a listed hazard); a PATCH of
an unknown ID, which changes nothing, is left out; each request is served once.

### Dialing

`call[d]` is the local state of a `DialContext`: its step, `attempt`, the excluded
set `tried`, the endpoint it is dialing.  `DialPick` is `pickExcluding` under the
lock, `DialSucceed` and `DialFail` are the network's answer with the counters that
follow it, `DialMark` is `markError` with `RecordFailover`, `DialGiveUp` leaves the
loop, `DialRefuse` and `DialDirect` read the kill-switch, once.  `Candidates` is
the set `pickExcluding` may return: under `priority` the live endpoints of the
least value, under any other strategy any live endpoint, since latency, weights
and position in the slice are left out.  A destination is `good`, or `bad`: no
endpoint can reach it, which makes every dial fail and marks a healthy endpoint,
as the code does.  `liveAll`, `steadyAll` and `blockedAll` are history variables
over one call; no step reads them.  `StatsAddUp` says what the counters count:
every dial, every failed one, and of `Failovers` only that they miss none of the
failures after which another endpoint was dialed.  That they count nothing else, as
the comments in `stats.go` say, is not so (section 3).  The flows of a call are in `Proxy`, which takes
what `DialContext` may do from here: an endpoint, a refusal or a direct dial.
`BlockDirect` and `Strategy` bound the values the two switches take.

### StateFile and AtomicStore

A file is an inode, so that a writer whose file has been renamed away goes on
writing to it.  Of its bytes we keep the document last written at offset 0 and the
length: a short document over a longer one leaves a tail, and does not parse.
`SaveOpen`, `SaveWrite`, `SaveRename` are the system calls of `Save`, and `SaveFails`
is a write that fails after the truncation, which leaves `path.tmp` behind; `Restart`
kills every saver where it is and loads.  A crash of the machine, where an unsynced
write may be lost, is not modelled: the code does not call `fsync`.

`AtomicStore` is what callers rely on: a save replaces one document by another in
one step, a restart loads the last.  The refinement maps its `stored` to what
`Load` would return.

### ConfigEdits

`file` is `config.yaml`: a document (the four sections the handlers edit), `Empty`
between a truncation and a write, or `Garbled`: two overlapping writes.  A request
is received, applied to the engine and the balancer where its kind asks for that,
and then reads, truncates and writes.  Each of these may fail (`ReadFails`,
`OpenFails`, `WriteFails`), and then the handler answers with an error, or with
"applied but not saved", and undoes nothing: `AfterRead` says when it has nothing to
write.  `handlePlugins` persists the rules the
engine has at that moment and not its own (`SnapshotRules`).  A garbled file may or
may not parse, and reads as any document when it does.  `POST /api/config` skips
the read.  Of a source we keep its name, of the sidecars' sections the bundle that
`addBundle` last set them from; `Legacy` is the source `default`, whose fields are
written again when they are empty, so that removing it twice rewrites the file.

Four history variables say under which circumstances something is promised.  `ideal`
is the first document with every written edit applied in turn; `alone` says that no
two requests have overlapped; `spared`, that none was cut short, by a crash or by an
error, with the file truncated; `apart` has the live settings that the file need not
have: what a PUT has applied and not saved, and everything once the raw editor, which
applies nothing, has written.  A restart empties it.  Engine and balancer agree with
each other whatever fails (`QuietCopiesAgree`), because nothing between the two can.

### Dialers and Startup

Of a parsed endpoint we keep its `RawURI`, protocol, address, the class of its
transport (what sing-box speaks, what only Xray does, anything else), its security,
whether its `Config` came with a `fake_sni`, and `complete`: its address splits into
host and port and its keys are there.  The `...Shape` operators say which of these
records a parser can return, and `EntryAssumption` checks the inputs against them.
`SingboxTakes` and `XrayTakes` are what the two `outboundFromEndpoint` functions
accept; `Server` is the address an outbound ends up with after `applySpoof`; `Port`
is the counter of a `Generate` function, from 1.  A generated file is a set of routes,
one per endpoint taken: the port, the endpoint and the server behind it.

`Startup` has one action per step of `main`.  `Start` loads one of the configurations
in `Config` (an edit of `config.yaml` between two starts).  Reading is a loop over the
files and URLs of the sources, the lines of each and the endpoints of a line, a bundle
having several: `LoadBatch` reads a file, URL or `.conf` and `LoadFails` cannot,
`NextLine` passes over a line that is done or does not parse, and `AddEndpoint` is one
turn of the closure `addEndpoints`: an endpoint whose `RawURI` is in the pool, or whose
protocol and address this batch has added already, is dropped; the others get an ID
with the name of the source and the overrides of `state.json`.  `batch` is the local
state of that loop: the source, what is left of the lines, and how many endpoints were
there before it, so that `seen` and `canon` of the code need no state of their own.
`AddSidecars` and `SidecarsAdded` are the same for the sidecars.

Then comes one `Generate...` per dialer, which writes the file or fails to and leaves
the restart of the container to a goroutine (`ContainerRestarted`, `RestartFails`).
`ContainerStarts` is docker starting a container at any moment.  `Save` and `Patch`
are what a running pool does to `state.json`, each in one step: their interleavings
are the subject of `EndpointPool` and `StateFile`, and what `Startup` says of
overrides is said of saves that do not race.  `Stop` is a crash or a reload.

What the module assumes of its inputs is what the parsers return (`EntryAssumption`),
that equal `RawURI`s come from equal texts except for the two kinds that are made up
from less than the text (`RawURIAssumption`), and that no source is nameless or called
`sidecars` (`ConfigAssumption`).  The last is not checked by the code: such a source
has bare IDs, which may be those of the `default` source.  Nor does
`ParseMoaVBundle` check that an endpoint has a host and a port, or that its keys are
not named `spoof_via` or `socks5_addr`: endpoints of a bundle may be incomplete here,
and that none brings one of those two keys is assumed.

The generators write ports into `Config` maps that their copy of the slice shares
with `main`'s, so a port stays with an endpoint although the file could not be
written; the model does the same, and `failed` records that it happened.  `wish` and
`remembered` are history variables: what the last PATCH of an endpoint set, and
whether every pool saved since then had it.

Left out: the files of the sidecars, `utls` and the rest of an outbound's JSON,
statuses and latencies (restored like the overrides, and corrected by the next
probe), free-form `Config` entries of a sidecar that override its own port, and a
`state.json` that does not parse, after which nothing is restored.

### Proxy

`conn[c]` is the local state of the handler of one client connection, `tunnel[c]` its
two copiers and the two ends.  A step of `conn[c].pc` is one lock-protected access, one
system call or one answer of the network.

| Action | Code |
|---|---|
| `Arrive`, `BlockTorrent`, `Evaluate` | the listeners, `decide` and `pluginDecide`, `Engine.Evaluate` taking the lock |
| `ListStat`, `ListLookup`, `ListOpen`, `ListStore` | `loadList` |
| `GeoipScan` | `matchGeoIP`, which reads its file each time |
| `Drop`, `DialByRule`, `HandToBalancer` | the three decisions |
| `DialEndpoint`, `AllEndpointsFail`, `Refuse`, `FallBack`, `DialAnswered`, `DialFailed` | the outcomes of `DialContext` and of `net.Dial` |
| `Hijack`, `HijackFails`, `TunnelReturns`, `CloseClient`, `CloseTarget` | `handleConnect` from the dial to its deferred closes |
| `SourceSends`, `SinkTakes` | an end sends something, an end takes what is written to it: the copier goes from reading to writing and back |
| `CopyIntoVoid`, `CopyEnds`, `CopySends` | `io.Copy` when the end it waits for has gone, and the send on `done` |
| `SetRules`, `EditList`, `RemoveList` | `Engine.SetRules`, which waits for evaluations; the operator's editor |

`NextRule` skips what cannot match without a file in one step, since that depends on
the connection alone.  A matcher that looks at the connection alone (`domain`,
`domain_suffix`, `domain_keyword`, `ip_cidr`, `port`, `protocol`) is the set of hosts
it matches.  `Seen` is the host the engine is asked about: the SOCKS5 library is given
no resolver and resolves a name with its own before it calls `conf.Dial`, so rules
about names match connections of the HTTP listener only.  `always` and `ever` are
history variables: which rules of the list under evaluation have matched throughout
it, and at some moment of it.

A copier of a tunnel waits for its source to send or for its sink to take, without a
deadline.  It finds out that an end has gone only while it waits for that end: one that
is stuck in a write to a peer that takes nothing does not see its source go, and
`tunnel` then waits for the other copier.  `TunnelsUnwind` therefore has a hypothesis,
that no copier is `Blocked` for ever by an end that is there.

Abstractions: every edit of a list file has a modification time of its own (the cache
cannot notice two edits within one tick of the file system's clock, or a copy that
keeps an older time); the file is read in one step; of the bytes in a tunnel only
whether a copier has some to write; when
the SOCKS5 library closes is left open; plain HTTP requests, which are refused, and
`Router`, which nothing calls, are left out.

### LiveFeed

A pool is the number of the change that made it, and whether the sidecar is enabled in
it; a table into which one endpoint of another pool has been put is `Mixed`.  `Patch`,
`Toggle` and the probe change the pool and then broadcast it in steps of their own:
`Collect` and `Marshal` take the copy that is sent, `Broadcast`, `Offer` and
`BroadcastEnds` are `broadcast` under `hubMu`.  What a probe marshals is its own
slice, which has become the pool: a later PATCH is in it or, when the pool has been
replaced meanwhile, is not, hence the choice in `Marshal`.  `ProbeStart` with
`ProbePublish` or `MergePublish` is a copy that is put back with the `Enabled` it saw,
by `POST /api/probe` or by the merge of the probing goroutine, which broadcasts
nothing; `ChangeSilently` stands for `markError` and for merges that change no
override.

`Toggle` changes the pool; `Control`, which comes after a look for the container that
may take 5 seconds, starts the goroutine that goes to docker, and `DockerActs` and
`ControlFails` are the outcomes of `controlSidecarContainer`.

`FeedStep` is `handleWebSocket`: register, subscribe, first pool, the loop, and the
deferred `Unregister`, `Release`, `Close`.  A send ends when the browser takes the
frame, however late, or fails; TCP accepts one frame for a browser that has gone
(`SendIntoVoid`).  `LogPublish`, `LogOffer`, `LogEnds` are `Bus.Publish`, of which
`CapturingWriter` lets one through at a time.

The page (`EndpointTable.tsx`) opens its feed and asks for `GET /api/endpoints`, asks
again at every refresh, and may send PATCHes whose answers it merges into its table
(`Open`, `Refresh`, `AnswerGet`, `ApplyGet`, `ApplyPatch`).  Answers come in any order
among themselves and among the frames.  `asked` and `patched` are the sets of answers
under way, and one member of `asked` may stand for several.  One endpoint of an older
pool makes the table `Mixed`, or leaves it as it was when nothing else has changed.

`announced`, `behind`, `crossed` and `disturbed` are history variables; they name the
circumstances in which the code promises nothing.

Left out: tickets, the other frames and pages, the rings of the bus, a connection
closed by the server's shutdown, and what the page does while it has no table yet (its
PATCH buttons are rows of the table).

## 3. Runs

All runs finish within three minutes with two workers.

| Run | Instance | What it shows |
|---|---|---|
| `pool` | 2 endpoints, 1 PATCH, 1 `POST /api/probe`, the probing goroutine and `Prober.Run` for ever | `CopiesFresh`: every copy on its way back to the pool agrees with it on each endpoint that did not change since the copy.  `LostOnlyToStaleCopy`: an override changes by a PATCH or in the publication of a copy older than its last change |
| `live` | 1 endpoint that may flap, 1 PATCH, 1 call to a destination that can or cannot be reached, the probing goroutines, all fair | `StatusConverges`, `OverridesReachDisk`: once the network is calm both settle, through dropped and stale passes and although calls mark endpoints; `CallsEnd`; `PoolSpec`: the composition still implements `EndpointPool` |
| `dialing` | 2 calls of at most 2 attempts, 2 endpoints of which 1 unstable, 2 priorities, 1 PATCH, 1 `POST /api/probe`, both switches toggled, a `state.json` that gives the order | `StatsAddUp`, `NoLiveEndpointSkipped`, `NoDirectWhileBlocked`, `AttemptsSpendEndpoints`, `BestSteadyEndpointDialed` |
| `proxy` | 2 connections, one by either listener and one by SOCKS5, a name and its address, 2 rule lists with every kind of matcher that reads a file, 1 list file that changes once; ends that send, take, stall and leave as they like | `ListCacheTrue`, `FirstMatchWins`, `FlowsSettle`; `TunnelsUnwind`: a tunnel that loses an end lets go of both and of its copiers, if no end that is there refuses for ever what is written to it |
| `dashboard` | 2 changes of the pool, channels of capacity 1; either 1 browser that may come, refresh, PATCH, stall and go for ever and one request after the other, or docker and 2 requests at a time | `NoSendOnClosed`, `IdleFeedsCurrent`, `ContainerFollowsToggle`, `GoneClientsReleased`, `BroadcastsEnd` |
| `state_file` | 2 savers that do not overlap (`AloneSpec`), documents of 3 lengths, 3 inodes, writes that fail, crashes anywhere | `SoleSaverInv`, `SavesAreAtomic` (refinement of `AtomicStore`) |
| `config_edits` | 2 requests of any kind, 1 source name and the legacy source, 2 rule lists, 3 documents to begin with or to post, reads, opens and writes that fail, crashes anywhere | `QuietEditsAllKept`: what was answered well is in the file; `QuietCopiesAgree`: engine and balancer agree whatever failed, and the file with them but for what was applied and not saved |
| `startup` | 2 configurations: 2 sources with the same server and a bundle, then a source with other endpoints, a `.conf` that is superseded and one that is not; 3 dialers; every load, write and restart may fail; stops anywhere; PATCHes of one endpoint | `DialsReachOwnServer`, `SpoofLeadsHome`, `OverridesSurvive`, `SharedIdsSameSource`, `ClaimedOnce`, `URIsUnique` |
| `startup_forgets` | violation of `TogglesSurvive` | an endpoint whose source failed to load at one start comes back enabled |
| `pool_probe_loses` | violation of `OnlyPatchChangesOverrides` | a PATCH during `POST /api/probe` is undone at its end |
| `state_file_race` | violation of `AtRestWhole` | two savers install each other's truncated file |
| `config_edit_race` | violation of `EditKeepsTheRest` | an edit that reads the truncated file keeps only its own section |

Why the bounds are enough.  An override is lost by one writer against one
publisher, so one PATCH is as good as many; two endpoints are what it takes for the
unlocked scan to be half done.  Two calls are what it takes to race on a counter or
to mark one endpoint twice, and two attempts (`maxDialAttempts` is 4 in the code, a
constant here) are reached both before and after the pool is exhausted, since a probe
may revive what was marked.  `Saved` lets a run begin with endpoints that are already
enabled and `ok`.  Documents of three lengths give a shorter and a longer one to
overwrite, and three inodes are one more than the two names can hold.  Statuses of
endpoints do not matter to the questions of `pool`, so its network is constant; `live`
and `dialing` vary it.  `startup` needs two configurations whose files differ, so
that an older file and an older container give a port to another endpoint; one
toggled endpoint is enough, since `state.json` treats each by itself, and it is one
that may be collapsed into another or claimed by another source.  The number of
restarts is not bounded.  In `proxy` a cached list can be wrong only through an edit
between two steps of one load, with a second connection to store or find it: `MaxEdits`
is one and connections are two.  `Listener` lets one of them come by HTTP only: a tunnel
shares nothing with other connections.  In `config_edits` the `Document`s
that a file may hold at first, that the raw editor posts or that a mixture may be read
as have every section empty, every section set, and the legacy source alone: an edit is
lost or kept section by section.  In `dashboard` a channel of capacity 1 is full after
one frame; `MaxPool` is two
because a page that has missed a change needs one more to be told of; one feed is
enough, since feeds share no state but the sets they are in (the theorems have any
number).  `Scenario` keeps the question of docker and that of the page apart, as the
code does.  Two requests at a time are what it takes for toggles to cross.  The page
has one after the other: a broadcast that is overtaken is one during which
`ChangeSilently` or the next request changes the pool, and two broadcasts that cross,
after which nothing is claimed, are left to the theorem.  Requests of `config_edits`
are alike and the run checks safety only, so it declares them symmetric.  Deadlock checking is off in the runs of `ConfigEdits`
and `Proxy`, whose requests and connections are served once, so that a behaviour may end.

Other disagreements met on the way, which no run is spent on: nothing restarts
`sni-spoof` after its file has changed, although `api.go:828` and `api.go:924` say
that a reload applies it, so until somebody does its ports lead where the older file
said; after a failed write the endpoints dial the ports of the file before; a priority
set to 0 comes back as it was, for sidecars, whose own is not 0; an endpoint of a
source's file and one of its URL may share an ID (the collapse `main.go:112`
describes is per call); a trojan URI that names no security, and any vmess URI, do
TLS but are never spoofed, although `main.go:224` speaks of every endpoint that
does; the merge of a
background pass loses a PATCH as `POST /api/probe` does, in a window of
microseconds (`main.go:374-403`; `LostOnlyToStaleCopy` names that publication); two
PATCH handlers may write their snapshots in the opposite order, until the probing
goroutine saves again, which it never does with `probe_on_start` off; a pass that
began before a dial failed sets the endpoint back to `ok` until the next pass;
a call refused by the kill-switch leaves a flow that is open for ever (`FlowsSettle`
exempts it); changes made by the background loop and by failing
dials are not broadcast at all; `docs/PLUGINS.md:40` lets the SOCKS5 listener decide
by hostname, but what its engine is given has been resolved (`server.go:48`); the comment at
`config/config.go:144` says that the kill-switch overrides `direct` rules, while
`engine.go:139` and `src/README.md:250` say, and the code does, that it does not; an
HTTP tunnel ends with its first direction and cuts off the other (`countingConn` hides
`CloseWrite`, so half-closing is not passed on either); adding a source that exists is
refused after its `subscription.txt` has been overwritten; `PUT /api/exposure` rewrites
`.env` from a fixed list of keys and drops the ports that
`docs/CONFIGURATION.md:36` calls authoritative there; a crash
in the middle of a rewrite of `config.yaml`, or a disk that is full by then, loses it.
A dial that fails counts as a failover of its endpoint although it was the last of its
call and nothing took over, against `stats.go:16` and `stats.go:67`.  Two overlapping
PUTs of the kill-switch may leave engine and balancer with different values
(`QuietCopiesAgree` is about PUTs that do not overlap).  Two toggles of a sidecar in
quick succession may leave its container as the first one said, since nothing orders
their goroutines (`ContainerFollowsToggle` names this).  A page keeps an older pool
until the next broadcast or refresh when the answer to a GET or to a PATCH of its own
comes after a newer frame, when two broadcasts arrive in the opposite order of their
changes, and when its channel was full (`IdleFeedsCurrent` names all of these).  Ports
of sing-box and xray start 1000 apart: with both on one host, the 1001st endpoint of
the one gets the first port of the other; they are numbered per dialer here, as they
are per container.

## 4. Fairness

`FairSpec` of `EndpointPool` assumes weak fairness of each goroutine that has
something to do: the Go scheduler is preemptive, no lock is held across a blocking
call, and the ticker of `Prober.Run` never stops.  Nothing is assumed of requests,
of the network or of failing dials; that the network is *eventually calm* is the
hypothesis of the two properties and not an assumption on the code.

`DFairSpec` of `Dialing`, which the run `live` uses, assumes the same of the pool's
goroutines as steps of the composition and of the goroutine of a call, and
`DialsAnswered`: every dial returns.  That is an assumption on the network: the
connect is timed out by the kernel, but the handshake of `dialSOCKS5` sets no
deadline, so an endpoint that accepts and stays silent holds its call.  `CallsEnd`
says that nothing else does.  `PoolSpec` needs no fairness.

`Proxy` assumes of each connection that the goroutine of the tunnel goes on when one
copier has ended, that a copier which can send on `done` does (`CopySends`), and
*strong* fairness of `CopyEnds`: a copier that again and again waits for an end that
has gone ends.  Weak fairness would not do, because writes to such an end may succeed
for a while (`CopyIntoVoid`), but not for ever: TCP reports the reset.  A copier that
waits for an end which is there is not enabled at all, so nothing is assumed of it.
Nothing is asked of the network or of the steps before the tunnel.  Of the ends,
`TunnelsUnwind` has two hypotheses: that one has gone, and that no copier stays
`Blocked` for ever, since neither has a deadline (`handler.go:113-121`).

`LiveFeed` assumes that requests finish what they have begun, that something is logged
again and again (every probe pass logs; `GoneClientsReleased` says that this is when a
gone browser is noticed, and with `probe_on_start` off it may be a long time), that a send to a browser that has gone fails in the end, and
*strong* fairness of a feed: it needs `hubMu` and the bus's lock in writing, which come
free over and over while others read, and `sync.RWMutex` lets no new reader pass a
writer that waits.  A browser that is there need not take anything, so a feed may hang
in a send for ever, and `BroadcastsEnd` holds all the same.

## 5. Proofs

All of them hold for every value of the constants, finite or not, that the named
`ASSUME`s allow.

| Theorem | Statement | Argument |
|---|---|---|
| `EndpointPool_proofs!Typing` | `Spec => []TypeOK` | inductive as it stands, because it says at which steps a goroutine's slice must be a pool; one lemma per goroutine |
| `EndpointPoolHistory_proofs!HistoryImplementsPool` | `HSpec => Spec` | history variables are written and never read |
| `...!Freshness` | `HSpec => []CopiesFresh` | see below |
| `...!StaleCopyTheorem` | `HSpec => LostOnlyToStaleCopy` | the step relation restricted by `TypeOK` and `CopiesFresh` |
| `Dialing_proofs!DialingImplementsPool` | `DSpec => PoolSpec` | each step of a call leaves the pool alone or is its `MarkError` |
| `...!DialTyping` | `DSpec => []DTypeOK` | inductive with `TypeOK` of the pool |
| `...!Attempts`, `...!NoneSkipped`, `...!BestDialed`, `...!KillSwitch` | `AttemptsSpendEndpoints`, `NoLiveEndpointSkipped`, `BestSteadyEndpointDialed`, `NoDirectWhileBlocked` | the invariant `DInv`, see below |
| `...!CountersAddUp` | `[]StatsAddUp`, for finitely many calls | each step moves at most one call into the sets the counters count |
| `Startup_proofs!PortInRange`, `...!PortsDistinct` | ports of one dialer are dense and never shared | cardinalities of growing prefixes |
| `...!OneDialerPerEndpoint` | `SingboxTakes(e) => ~ XrayTakes(e)` | by protocol and transport |
| `...!TypeCorrect` | `Spec => []TypeOK` | inductive; a lemma for what each generator writes into the pool and into its file |
| `...!RawURIsUnique` | `[]URIsUnique` | with the types; `AddEndpoint` alone makes the pool longer |
| `...!IdsTellSources`, `...!DialersServe`, `...!SpoofServes`, `...!DialersDisjoint`, `...!OverridesComeBack` | `[]SharedIdsSameSource`, `[]DialsReachOwnServer`, `[]SpoofLeadsHome`, `[]ClaimedOnce`, `[]OverridesSurvive` | `NameInv`, `ServedInv`, `SpoofInv`, `ClaimInv`, `SavedInv`, see below |
| `...!DialsGoHome` | a dial through containers that run what their files say ends at the endpoint's own address | `DialsReachOwnServer` and `SpoofLeadsHome` |
| `StateFile_proofs!TypeCorrect` | `Spec => []TypeOK`, for any savers | inductive as it stands |
| `StateFile_proofs!SoleSaver` | `Spec /\ []Alone => [](TypeOK /\ SoleSaverInv)`, for any savers | inductive together, from states and to states where no saves overlap |
| `StateFile_proofs!SoleSaverAtomic` | `Spec /\ []Alone => SavesAreAtomic`, for any savers | each system call maps to a step of `AtomicStore` or a stutter: only the rename changes what a load returns |
| `ConfigEdits_proofs!TypeCorrect` | `Spec => []TypeOK` | with `StepInv`: which kinds of request get to which step |
| `...!QuietEditsKept`, `...!QuietCopies` | `[]QuietEditsAllKept`, `[]QuietCopiesAgree`, errors and "applied but not saved" included | the invariant `IInv`, see below |
| `Proxy_proofs!TypeCorrect` | `Spec => []TypeOK` | inductive; `Enter` and `Resolve` as lemmas |
| `...!CacheTrue` | `[]ListCacheTrue` | `CacheInv`: modification times only grow, and a handler that has read a list under the file's present time has read the present list |
| `...!FirstMatch` | `[]FirstMatchWins` | `JudgeInv`, see below |
| `...!FlowsEnd` | `[]FlowsSettle` | `FlowInv`: no flow before the dial is answered |
| `LiveFeed_proofs!TypeCorrect` | `Spec => []TypeOK` | inductive |
| `...!ClosedChannelsQuiet` | `[]NoSendOnClosed` | `BusInv`: who is due a line is on the bus, who is on the bus is not closed |
| `...!ContainerFollows` | `[]ContainerFollowsToggle` | `DockerInv`: a toggle that nothing crossed is the only request docker has or is about to get, and asks for what the pool says |
| `...!PagesCurrent` | `[]IdleFeedsCurrent` | `FeedInv`, see below |

The loss of a toggle.  What one wants, that only a PATCH changes overrides, is
false.  What is true is that a publication can only lose what changed after its
copy was made, and to prove it one must follow every copy from the moment it is
taken.  `CopiesFresh` does: `probeUnseen` and `loopUnseen` collect what changed
since, and the invariant says that a copy agrees with the pool on everything else.
For the goroutine that shares the balancer's array it has to speak of what the
goroutine *will* read, hence `Held`, and a change to an element that has yet to be
read is not *missed*.  `Probed` and `Merged` keep overrides (`ProbedKeeps`,
`MergedKeeps`), so the invariant is preserved by probing and merging, and a
publication changes exactly the endpoints that were unseen.

Saving.  While no second save is under way (`Alone`), `tmp` is one saver's alone and is
never the inode of `path`, so truncating and writing it leave a load's result as it was;
a save that begins after a crash finds whatever the crash left in `tmp` and truncates
it.  `Alone` is a hypothesis of the two theorems, which the code does not establish: it
has a goroutine that saves after each pass and one per PATCH.  Where saves do overlap,
the run `state_file_race` refutes the same promise.  `AloneSpec` is `Spec` under that
hypothesis in a form TLC can run (`AloneBehaviours`).

Dialing.  None of the properties of a call is inductive by itself: each speaks of
what happened since the call began.  `DInv` says for each step of a call what it
knows: the endpoint it dials is none of those it tried, the tried ones are as many
as its attempts, `liveAll` contains only endpoints that are live now and that it has
not tried (a mark takes an endpoint out of it), and the one it dials under `priority` is no worse than any in `steadyAll`
that it has not tried.  An endpoint that was live all along and untried is therefore
still a candidate, so a call that finds no candidate has none to skip; and the
endpoint it picked stays the best of the steady ones because `steadyAll` drops what
is changed.  `LeastPriorityAssumption` is what makes a set of candidates non-empty
under `priority`: priorities are Go `int`s, which have no infinite descent.
`CountersAddUp` alone needs the set of calls to be finite.

Editing `config.yaml`.  While `alone` holds at most one request is busy (`Sole`).  As
long as `spared` holds too, the file is `ideal` until the moment of the truncation and
what is about to be written is `ideal` with the request's edit (`FileInv`); an error
before the truncation leaves the file as it was.  `CopiesInv` follows the live copies:
engine and balancer have one kill-switch, except while the one request is between the
two, and as long as `spared` holds a setting that is not in `apart` is that of `ideal`,
hence of the file at rest.  `apart` grows when a PUT applies, shrinks when it has
written, and is both settings when the raw editor has written; a restart, which reads
the file, empties it.

The first match.  A decision is taken from files that change under it, some of them
through a cache filled by another connection, so no single state of the files explains
it.  `JudgeInv` says for each evaluation that no rule before the one it looks at has
matched all along (`Judged`), and for the lists it may be handed (the cached one if
its time is the one it has seen, one that another connection is about to store under
that time, its own) that what they say is no news: a list that matches gives a rule
that did match at some moment, one that does not, a rule that did not at some moment
(`Verdict`, `MayFind`).  `CacheInv` is what makes the second half inductive: a list
that turns up under the time of the stat is the list that was in the file at the stat.

What a page shows.  `FeedInv` follows a pool that is being broadcast: once a feed has
been offered it, or it has been announced to all, and the feed has not fallen behind,
the last of what is shown, in its hands and in its channel is that pool; a feed that
has yet to read its first pool will read the one of that moment, because it registers
before it reads.  `FeedStepRegisteringLate` is the mutant in which it does not.  An older
answer that comes while a frame is still to be shown does no harm; one that comes when
none is (`Quiet`) puts the page behind until the next offer.

Startup.  None of its properties is inductive.  That a port leads to the endpoint it
was given to is a fact about three pieces of state that change at different times: the
port in the endpoint, the file, and what the container has loaded.  `ServedInv` says it
for each dialer by where `main` is: before a dialer's turn no endpoint has a port of
it (`Ahead`); after it, unless the write failed, the *file* gives that port to that
endpoint and leads to its server, and so does what the container runs with unless a
restart is still to come or failed (`Settled`).  This survives `ContainerStarts` at
any moment because what is loaded is then the file, and a later generator because it
moves an endpoint to its own ports or leaves it and its server alone.  `SpoofInv` is the
same for the ports of `sni-spoof`, of the file only, since nobody makes that container
load it; `DialsGoHome` puts the two together where it has.
`SharedIdsSameSource` needs `NameInv`: a parsed endpoint has the ID its source gives
it, a sidecar a bare one although its `Source` may be the name of a bundle, so its ID
tells nothing of its source; but no two sidecars have one address, because all of them
are added in one batch, which is the last.  `BatchInv` is what that rests on: the lines
of a batch are those of its source, and only the batch of `AddSidecars` has sidecars.  For `ClaimedOnce` it
is not enough to look at the pool, since a file may be from an earlier start:
`ClaimInv` says that whatever is in the file of a dialer has the `RawURI` of some entry
that its generator takes, of whichever configuration, and `RawURIAssumption` does the
rest.  `SavedInv` carries an override through the file: what `remembered` names is in
`state.json` as it was wished, so the next start restores it, and the pool agrees with
the wish, so the next save keeps it.  That a PATCH writes the endpoint it was meant for
is where `URIsUnique` comes in: `Saved` takes the first endpoint of a `RawURI`.

Every safety property that a run checks, every action property and both refinements are
proved.  Model-checked only are the liveness properties `StatusConverges`,
`OverridesReachDisk`, `CallsEnd`, `TunnelsUnwind`, `GoneClientsReleased` and
`BroadcastsEnd`: fairness and ENABLED are outside the prover.

## 6. Not modelled

- Exposure and `.env`: one handler rewrites the file and each start reads it; what can
  go wrong with it is one divergence, noted above.
- Tickets: `issue` and `consume` are one critical section each, and whether a ticket is
  used twice holds by that.
- The ring of flows and the rings of the log bus: bounded by construction and read by
  nobody but the dashboard.
- What sni-spoof serves after a reload: `Startup` has the steps, and `SpoofLeadsHome`
  speaks of its file; that its container has loaded it is what the code does not try
  to keep.
- Text formats: URIs, bundles, YAML, templates, and the generated files but for ports,
  servers and claims.
- The dial strategies `latency` and `weighted`: any candidate may be picked.
- Bundles, backup, CLI, installer, images and the rest of the web UI: wrappers around
  files, the API or `docker compose`.
- Two savers of `state.json` under a lock, which a repair would need: the code has none.

## 7. Running

    tlc -workers 2 -config MCEndpointPool.cfg MCEndpointPool
    tlapm EndpointPoolHistory_proofs.tla

`PROJECT.json` lists each run with its module and configuration.
