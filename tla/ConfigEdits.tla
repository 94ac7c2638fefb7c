----------------------------- MODULE ConfigEdits -----------------------------
(***************************************************************************)
(* Every API handler that rewrites config.yaml, and the settings it has    *)
(* applied live before that: editYAMLFile (sources, bundles, SNI-spoof,    *)
(* rules), persistBlockDirect, and the raw editor (POST /api/config, and   *)
(* the restore of a backup).  Each reads the file, changes one part of the *)
(* document and writes the whole of it in place; nothing serialises them.  *)
(*                                                                         *)
(* os.WriteFile is two steps, the truncation and the write, and a request  *)
(* reads, truncates and writes in three separate steps of its own.  The    *)
(* length of documents is left out: a write over what another request has  *)
(* written after our truncation leaves our document, or a mixture of both  *)
(* (Garbled) when ours is the shorter.  Whether YAML accepts a mixture     *)
(* is open too.  Reading, opening and writing may each fail, and then the  *)
(* request says so ("applied but not saved") and undoes nothing.           *)
(***************************************************************************)
EXTENDS Naturals, FiniteSets

CONSTANTS Request,   \* API requests, each served once
          Name,      \* names of subscription sources
          Legacy,    \* the source "default": the fields of a single source
          Rules,     \* routing rule lists
          NoRules,   \* the empty one
          Document,  \* bound: what config.yaml holds at first, what the raw
                     \* editor posts, and what a mixture may be read as
          Empty, Garbled,   \* contents of config.yaml that are no document
          None       \* no document

(* Of the sidecars' sections, the bundle they were last set from.          *)
Config == [sources : SUBSET (Name \cup {Legacy}), sidecars : Name \cup {None},
           rules : Rules, blockDirect : BOOLEAN, spoof : BOOLEAN]

(* What an empty file, or a section that is absent, means.                 *)
EmptyConfig == [sources |-> {}, sidecars |-> None,
                rules |-> NoRules, blockDirect |-> FALSE, spoof |-> FALSE]

Edit ==
  [kind : {"addSource", "addBundle", "addSidecarBundle"}, arg : Name]
    \cup [kind : {"removeSource"}, arg : Name \cup {Legacy}]
    \cup [kind : {"blockDirect", "spoof"}, arg : BOOLEAN]
    \cup [kind : {"rules"}, arg : Rules]
    \cup [kind : {"overwrite"}, arg : Document]

ASSUME RulesAssumption == NoRules \in Rules
ASSUME DocumentAssumption == Document \subseteq Config
ASSUME NoneAssumption == None \notin Config \cup Edit
ASSUME ContentAssumption == Config \cap {Empty, Garbled} = {}

VARIABLES
  file,            \* config.yaml: a document, Empty or Garbled
  pc, edit, view,  \* per request: its step, what it asks for, the document it read
  engineBlock,     \* plugins.Engine.blockDirect
  balancerBlock,   \* Balancer.blockDirect
  engineRules,     \* plugins.Engine.rules
  running,         \* proxy-core is up
  ideal,           \* history: the edits written so far, each applied whole
  alone,           \* history: no two requests have ever overlapped
  spared,          \* history: none was cut short, by a crash or by an error,
                   \* between its truncation and the end of its write
  apart            \* history: the live settings that config.yaml need not
                   \* have: the PUT that set them has not been written, or the
                   \* raw editor has written since

liveVars == <<engineBlock, balancerBlock, engineRules>>
historyVars == <<ideal, alone, spared, apart>>
vars == <<file, pc, edit, view, liveVars, running, historyVars>>

Edited(c, ed) ==
  CASE ed.kind \in {"addSource", "addBundle"} -> [c EXCEPT !.sources = @ \cup {ed.arg}]
    [] ed.kind = "addSidecarBundle" ->
         [c EXCEPT !.sources = @ \cup {ed.arg}, !.sidecars = ed.arg]
    [] ed.kind = "removeSource" -> [c EXCEPT !.sources = @ \ {ed.arg}]
    [] ed.kind = "blockDirect"  -> [c EXCEPT !.blockDirect = ed.arg]
    [] ed.kind = "spoof"        -> [c EXCEPT !.spoof = ed.arg]
    [] ed.kind = "rules"        -> [c EXCEPT !.rules = ed.arg]
    [] ed.kind = "overwrite"    -> ed.arg

(* A source that is there already (409), or is not (404): nothing to write. *)
(* The fields of the legacy source are written again when they are empty.   *)
AfterRead(c, ed) ==
  IF \/ ed.kind = "addSource" /\ ed.arg \in c.sources
     \/ ed.kind = "removeSource" /\ ed.arg \notin c.sources
  THEN {"failed"} \cup (IF ed.arg = Legacy THEN {"truncate"} ELSE {})
  ELSE {"truncate"}

Init ==
  /\ file \in Document
  /\ pc = [r \in Request |-> "idle"]
  /\ edit = [r \in Request |-> None]
  /\ view = [r \in Request |-> None]
  /\ engineBlock = file.blockDirect
  /\ balancerBlock = file.blockDirect
  /\ engineRules = file.rules
  /\ running = TRUE
  /\ ideal = file
  /\ alone = TRUE /\ spared = TRUE
  /\ apart = {}

Busy(r) == pc[r] \notin {"idle", "ok", "failed"}
AtRest == \A r \in Request : ~ Busy(r)
Live == {"blockDirect", "rules"}

-----------------------------------------------------------------------------
(* A request arrives.  The kill-switch is applied to the engine, then to   *)
(* the balancer; a rule list to the engine; the others go to the file.     *)
Receive(r, ed) ==
  /\ running
  /\ pc[r] = "idle"
  /\ edit' = [edit EXCEPT ![r] = ed]
  /\ pc' = [pc EXCEPT ![r] = CASE ed.kind \in Live -> "engine"
                               [] ed.kind = "overwrite" -> "truncate"
                               [] OTHER -> "read"]
  /\ view' = [view EXCEPT ![r] = IF ed.kind = "overwrite" THEN ed.arg ELSE @]
  /\ alone' = (alone /\ AtRest)
  /\ UNCHANGED <<file, liveVars, running, ideal, spared, apart>>

ApplyEngine(r) ==
  /\ pc[r] = "engine"
  /\ IF edit[r].kind = "rules"
       THEN engineRules' = edit[r].arg /\ UNCHANGED engineBlock
       ELSE engineBlock' = edit[r].arg /\ UNCHANGED engineRules
  /\ pc' = [pc EXCEPT ![r] = IF edit[r].kind = "rules" THEN "snapshot" ELSE "balancer"]
  /\ apart' = apart \cup {edit[r].kind}
  /\ UNCHANGED <<file, edit, view, balancerBlock, running, ideal, alone, spared>>

(* Mutant: the handler forgets the balancer.                               *)
SkipBalancer(r) ==
  /\ pc[r] = "balancer"
  /\ pc' = [pc EXCEPT ![r] = "read"]
  /\ UNCHANGED <<file, edit, view, liveVars, running, historyVars>>

ApplyBalancer(r) ==
  /\ pc[r] = "balancer"
  /\ balancerBlock' = edit[r].arg
  /\ pc' = [pc EXCEPT ![r] = "read"]
  /\ UNCHANGED <<file, edit, view, engineBlock, engineRules, running, historyVars>>

(* handlePlugins persists engine.Rules(), which another PUT may have       *)
(* replaced, and not the rules of its request.                             *)
SnapshotRules(r) ==
  /\ pc[r] = "snapshot"
  /\ edit' = [edit EXCEPT ![r].arg = engineRules]
  /\ pc' = [pc EXCEPT ![r] = "read"]
  /\ UNCHANGED <<file, view, liveVars, running, historyVars>>

(* os.ReadFile and yaml.Unmarshal.  An empty file reads as an empty        *)
(* mapping, except in persistBlockDirect, whose nil map panics.            *)
ReadsAs(r, c) ==
  \/ file = c
  \/ /\ file = Empty /\ edit[r].kind # "blockDirect"
     /\ c = EmptyConfig
  \/ file = Garbled /\ c \in Document

Read(r) ==
  /\ pc[r] = "read"
  /\ \E c \in Config :
       /\ ReadsAs(r, c)
       /\ view' = [view EXCEPT ![r] = Edited(c, edit[r])]
       /\ \E next \in AfterRead(c, edit[r]) : pc' = [pc EXCEPT ![r] = next]
  /\ UNCHANGED <<file, edit, liveVars, running, historyVars>>

(* Mutant: the error is not looked at.                                     *)
ReadFailsUnnoticed(r) ==
  /\ pc[r] = "read"
  /\ pc' = [pc EXCEPT ![r] = "truncate"]
  /\ UNCHANGED <<file, edit, view, liveVars, running, historyVars>>

(* ReadFile or Unmarshal gives an error, whatever is in the file.          *)
ReadFails(r) ==
  /\ pc[r] = "read"
  /\ pc' = [pc EXCEPT ![r] = "failed"]
  /\ UNCHANGED <<file, edit, view, liveVars, running, historyVars>>

(* Mutant: opened without O_TRUNC.                                         *)
OpenUntruncated(r) ==
  /\ pc[r] = "truncate"
  /\ pc' = [pc EXCEPT ![r] = "write"]
  /\ UNCHANGED <<file, edit, view, liveVars, running, historyVars>>

Truncate(r) ==
  /\ pc[r] = "truncate"
  /\ file' = Empty
  /\ pc' = [pc EXCEPT ![r] = "write"]
  /\ UNCHANGED <<edit, view, liveVars, running, historyVars>>

OpenFails(r) ==
  /\ pc[r] = "truncate"
  /\ pc' = [pc EXCEPT ![r] = "failed"]
  /\ UNCHANGED <<file, edit, view, liveVars, running, historyVars>>

Write(r) ==
  /\ pc[r] = "write"
  /\ file' \in IF file = Empty THEN {view[r]} ELSE {view[r], Garbled}
  /\ ideal' = Edited(ideal, edit[r])
  /\ apart' = IF edit[r].kind = "overwrite" THEN Live ELSE apart \ {edit[r].kind}
  /\ pc' = [pc EXCEPT ![r] = "ok"]
  /\ UNCHANGED <<edit, view, liveVars, running, alone, spared>>

(* The disk is full: nothing of the document is written, or a part of it.  *)
WriteFails(r) ==
  /\ pc[r] = "write"
  /\ file' \in {file, Garbled}
  /\ spared' = FALSE
  /\ pc' = [pc EXCEPT ![r] = "failed"]
  /\ UNCHANGED <<edit, view, liveVars, running, ideal, alone, apart>>

(* The process dies, with every request it was serving, and comes up again *)
(* when config.yaml can be loaded (main exits when it cannot).             *)
Crash ==
  /\ running
  /\ running' = FALSE
  /\ pc' = [r \in Request |-> IF Busy(r) THEN "failed" ELSE pc[r]]
  /\ spared' = (spared /\ \A r \in Request : pc[r] # "write")
  /\ UNCHANGED <<file, edit, view, liveVars, ideal, alone, apart>>

Loads(c) ==
  \/ file = c
  \/ file = Empty /\ c = EmptyConfig
  \/ file = Garbled /\ c \in Document

Start ==
  /\ ~ running
  /\ \E c \in Config :
       /\ Loads(c)
       /\ engineBlock' = c.blockDirect
       /\ balancerBlock' = c.blockDirect
       /\ engineRules' = c.rules
  /\ running' = TRUE
  /\ apart' = {}
  /\ UNCHANGED <<file, pc, edit, view, ideal, alone, spared>>

RequestStep(r) ==
  \/ \E ed \in Edit : Receive(r, ed)
  \/ ApplyEngine(r) \/ ApplyBalancer(r) \/ SnapshotRules(r)
  \/ Read(r) \/ ReadFails(r)
  \/ Truncate(r) \/ OpenFails(r) \/ Write(r) \/ WriteFails(r)

Next == (\E r \in Request : RequestStep(r)) \/ Crash \/ Start

Spec == Init /\ [][Next]_vars

-----------------------------------------------------------------------------
TypeOK ==
  /\ file \in Config \cup {Empty, Garbled}
  /\ pc \in [Request -> {"idle", "engine", "balancer", "snapshot", "read",
                         "truncate", "write", "ok", "failed"}]
  /\ edit \in [Request -> Edit \cup {None}]
  /\ view \in [Request -> Config \cup {None}]
  /\ \A r \in Request : /\ pc[r] # "idle" => edit[r] \in Edit
                        /\ pc[r] \in {"truncate", "write"} => view[r] \in Config
  /\ engineBlock \in BOOLEAN /\ balancerBlock \in BOOLEAN
  /\ engineRules \in Rules
  /\ running \in BOOLEAN
  /\ ideal \in Config
  /\ alone \in BOOLEAN /\ spared \in BOOLEAN
  /\ apart \subseteq Live

(* Requests that never overlap do what they say, or fail and change        *)
(* nothing, unless one is cut short with the file truncated: between them  *)
(* config.yaml is the first document with every edit that was answered     *)
(* well applied in order.                                                  *)
QuietEditsAllKept == alone /\ spared /\ AtRest => file = ideal

(* ... and the two copies of the kill-switch agree whatever fails; with    *)
(* the file they agree, and the rules do, but for a setting that a PUT     *)
(* applied and could not save ("applied but not saved"), or that the raw   *)
(* editor has changed in the file alone; a restart settles these.          *)
QuietCopiesAgree ==
  alone /\ AtRest /\ running =>
    /\ engineBlock = balancerBlock
    /\ spared => /\ "blockDirect" \notin apart => engineBlock = file.blockDirect
                 /\ "rules" \notin apart => engineRules = file.rules

(* yamledit.go:19, editing the tree "keeps every node we don't touch       *)
(* verbatim", and api.go:1632, the file "is only ever written from one     *)
(* caller": once the edits have all succeeded the document has every one   *)
(* of them.                                                                *)
TreeEdits == {"addSource", "addBundle", "addSidecarBundle", "removeSource", "spoof", "rules"}
EditKeepsTheRest ==
  (\A r \in Request : pc[r] = "ok" /\ edit[r].kind \in TreeEdits) => file = ideal
=============================================================================
