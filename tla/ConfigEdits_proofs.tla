-------------------------- MODULE ConfigEdits_proofs --------------------------
(***************************************************************************)
(* Requests that rewrite config.yaml and never overlap are kept, or fail   *)
(* and change nothing, and the copies of a setting agree as far as they    *)
(* are saved, for any number of requests, names and rule lists, and        *)
(* through restarts.                                                       *)
(***************************************************************************)
EXTENDS ConfigEdits, TLAPS

Adding == {"addSource", "addBundle", "addSidecarBundle"}
Source == Adding \cup {"removeSource"}

(* Which requests are ever at which step.                                  *)
StepInv ==
  \A r \in Request :
    /\ pc[r] = "engine" => edit[r].kind \in {"blockDirect", "rules"}
    /\ pc[r] = "balancer" => edit[r].kind = "blockDirect"
    /\ pc[r] = "snapshot" => edit[r].kind = "rules"
    /\ pc[r] = "read" => edit[r].kind # "overwrite"

LEMMA EditShape ==
  ASSUME NEW ed \in Edit
  PROVE  /\ ed.kind \in Source \cup {"blockDirect", "spoof", "rules", "overwrite"}
         /\ ed.kind \in Adding => ed.arg \in Name
         /\ ed.kind \in {"blockDirect", "spoof"} => ed.arg \in BOOLEAN
         /\ ed.kind = "rules" => ed.arg \in Rules
         /\ ed.kind = "overwrite" => ed.arg \in Config
BY DocumentAssumption DEF Edit, Source, Adding

LEMMA RulesEdit ==
  ASSUME NEW ed \in Edit, ed.kind = "rules", NEW list \in Rules
  PROVE  [ed EXCEPT !.arg = list] \in Edit /\ [ed EXCEPT !.arg = list].kind = "rules"
         /\ [ed EXCEPT !.arg = list].arg = list
BY DEF Edit

(* An edit turns a document into a document and touches one part of it.    *)
LEMMA EditedConfig ==
  ASSUME NEW c \in Config, NEW ed \in Edit
  PROVE  /\ Edited(c, ed) \in Config
         /\ ed.kind \notin {"blockDirect", "overwrite"} =>
              Edited(c, ed).blockDirect = c.blockDirect
         /\ ed.kind \notin {"rules", "overwrite"} => Edited(c, ed).rules = c.rules
         /\ ed.kind = "blockDirect" => Edited(c, ed).blockDirect = ed.arg
         /\ ed.kind = "rules" => Edited(c, ed).rules = ed.arg
         /\ ed.kind = "overwrite" => Edited(c, ed) = ed.arg
<1>1. CASE ed.kind \in {"addSource", "addBundle"}
  <2>1. Edited(c, ed) = [c EXCEPT !.sources = @ \cup {ed.arg}]
    BY <1>1 DEF Edited
  <2>2. ed.arg \in Name
    BY <1>1, EditShape DEF Adding
  <2> QED
    BY <1>1, <2>1, <2>2 DEF Config
<1>7. CASE ed.kind = "addSidecarBundle"
  <2>1. ed.arg \in Name
    BY <1>7, EditShape DEF Adding
  <2>2. PICK sources \in SUBSET (Name \cup {Legacy}) :
          Edited(c, ed) = [[c EXCEPT !.sources = sources] EXCEPT !.sidecars = ed.arg]
    <3>1. c.sources \cup {ed.arg} \in SUBSET (Name \cup {Legacy})
      BY <2>1 DEF Config
    <3>2. Edited(c, ed) = [[c EXCEPT !.sources = c.sources \cup {ed.arg}] EXCEPT !.sidecars = ed.arg]
      BY <1>7 DEF Edited
    <3> QED
      BY <3>1, <3>2
  <2> QED
    BY <1>7, <2>1, <2>2 DEF Config
<1>2. CASE ed.kind = "removeSource"
  BY <1>2 DEF Edited, Config
<1>3. CASE ed.kind = "blockDirect"
  <2>1. ed.arg \in BOOLEAN
    BY <1>3, EditShape
  <2>2. Edited(c, ed) = [c EXCEPT !.blockDirect = ed.arg]
    BY <1>3 DEF Edited
  <2> QED
    BY <1>3, <2>1, <2>2 DEF Config
<1>4. CASE ed.kind = "spoof"
  <2>1. ed.arg \in BOOLEAN
    BY <1>4, EditShape
  <2>2. Edited(c, ed) = [c EXCEPT !.spoof = ed.arg]
    BY <1>4 DEF Edited
  <2> QED
    BY <1>4, <2>1, <2>2 DEF Config
<1>5. CASE ed.kind = "rules"
  <2>1. ed.arg \in Rules
    BY <1>5, EditShape
  <2>2. Edited(c, ed) = [c EXCEPT !.rules = ed.arg]
    BY <1>5 DEF Edited
  <2> QED
    BY <1>5, <2>1, <2>2 DEF Config
<1>6. CASE ed.kind = "overwrite"
  <2>1. ed.arg \in Config
    BY <1>6, EditShape
  <2>2. Edited(c, ed) = ed.arg
    BY <1>6 DEF Edited
  <2> QED
    BY <1>6, <2>1, <2>2
<1> QED
  BY <1>1, <1>2, <1>3, <1>4, <1>5, <1>6, <1>7, EditShape DEF Source, Adding

-----------------------------------------------------------------------------
(* Types.                                                                  *)
TypeInv == TypeOK /\ StepInv

LEMMA EmptyConfigType == EmptyConfig \in Config
BY RulesAssumption DEF EmptyConfig, Config

LEMMA TypeInit == Init => TypeInv
<1> SUFFICES ASSUME Init PROVE TypeInv
  OBVIOUS
<1>1. file \in Config
  BY DocumentAssumption DEF Init
<1>2. file.blockDirect \in BOOLEAN /\ file.rules \in Rules
  BY <1>1 DEF Config
<1> QED
  BY <1>1, <1>2 DEF Init, TypeInv, TypeOK, StepInv

LEMMA ReceiveTypes ==
  ASSUME TypeInv, NEW r \in Request, NEW ed \in Edit, Receive(r, ed)
  PROVE  TypeInv'
<1> USE DEF TypeInv, TypeOK, StepInv, Receive, liveVars
<1>1. ed.kind \in Source \cup {"blockDirect", "spoof", "rules", "overwrite"}
  BY EditShape
<1>2. ed.kind = "overwrite" => ed.arg \in Config
  BY EditShape
<1>3. edit' \in [Request -> Edit \cup {None}] /\ edit'[r] = ed
  OBVIOUS
<1>4. /\ pc' \in [Request -> {"idle", "engine", "balancer", "snapshot", "read",
                             "truncate", "write", "ok", "failed"}]
      /\ pc'[r] \in {"engine", "truncate", "read"}
      /\ pc'[r] = "engine" => ed.kind \in {"blockDirect", "rules"}
      /\ pc'[r] = "truncate" => ed.kind = "overwrite"
      /\ pc'[r] = "read" => ed.kind # "overwrite"
      /\ \A s \in Request \ {r} : pc'[s] = pc[s] /\ edit'[s] = edit[s]
  BY <1>1 DEF Source, Adding, Live
<1>5. /\ view' \in [Request -> Config \cup {None}]
      /\ ed.kind = "overwrite" => view'[r] \in Config
      /\ \A s \in Request \ {r} : view'[s] = view[s]
  BY <1>2
<1>6. StepInv'
  BY <1>3, <1>4
<1>7. alone' \in BOOLEAN
  BY DEF AtRest, Busy
<1> QED
  BY <1>3, <1>4, <1>5, <1>6, <1>7

LEMMA StepTypes ==
  ASSUME TypeInv, [Next]_vars
  PROVE  TypeInv'
<1> USE DEF TypeInv, TypeOK, StepInv, liveVars, historyVars
<1>1. CASE UNCHANGED vars
  BY <1>1 DEF vars
<1>2. CASE Crash
  BY <1>2 DEF Crash, Busy, AtRest
<1>3. CASE Start
  <2>1. PICK c \in Config : engineBlock' = c.blockDirect /\ balancerBlock' = c.blockDirect
                              /\ engineRules' = c.rules
    BY <1>3 DEF Start
  <2>2. c.blockDirect \in BOOLEAN /\ c.rules \in Rules
    BY DEF Config
  <2> QED
    BY <1>3, <2>1, <2>2 DEF Start
<1>4. ASSUME NEW r \in Request, RequestStep(r)
      PROVE  TypeInv'
  <2>1. CASE \E ed \in Edit : Receive(r, ed)
    BY <2>1, ReceiveTypes
  <2>2. CASE ApplyEngine(r)
    <3>1. edit[r] \in Edit /\ edit[r].kind \in {"blockDirect", "rules"}
      BY <2>2 DEF ApplyEngine, Live
    <3>2. /\ edit[r].kind = "rules" => edit[r].arg \in Rules
          /\ edit[r].kind = "blockDirect" => edit[r].arg \in BOOLEAN
      BY <3>1, EditShape
    <3> QED
      BY <2>2, <3>1, <3>2 DEF ApplyEngine, Live
  <2>3. CASE ApplyBalancer(r)
    <3>1. edit[r] \in Edit /\ edit[r].kind = "blockDirect"
      BY <2>3 DEF ApplyBalancer
    <3>2. edit[r].arg \in BOOLEAN
      BY <3>1, EditShape
    <3> QED
      BY <2>3, <3>1, <3>2 DEF ApplyBalancer
  <2>4. CASE SnapshotRules(r)
    <3>1. edit[r] \in Edit /\ edit[r].kind = "rules" /\ engineRules \in Rules
      BY <2>4 DEF SnapshotRules
    <3>2. edit'[r] = [edit[r] EXCEPT !.arg = engineRules]
      BY <2>4 DEF SnapshotRules
    <3>3. edit'[r] \in Edit /\ edit'[r].kind = "rules"
      BY <3>1, <3>2, RulesEdit
    <3>4. edit' \in [Request -> Edit \cup {None}] /\ \A s \in Request \ {r} : edit'[s] = edit[s]
      BY <2>4, <3>2, <3>3 DEF SnapshotRules
    <3> QED
      BY <2>4, <3>3, <3>4 DEF SnapshotRules
  <2>5. CASE Read(r)
    <3>1. PICK c \in Config :
            /\ view' = [view EXCEPT ![r] = Edited(c, edit[r])]
            /\ \E next \in {"failed", "truncate"} : pc' = [pc EXCEPT ![r] = next]
      BY <2>5 DEF Read, AfterRead
    <3>2. Edited(c, edit[r]) \in Config
      BY <2>5, EditedConfig DEF Read
    <3> QED
      BY <2>5, <3>1, <3>2 DEF Read
  <2>6. CASE ReadFails(r)
    BY <2>6 DEF ReadFails
  <2>7. CASE Truncate(r) \/ OpenFails(r) \/ WriteFails(r)
    BY <2>7 DEF Truncate, OpenFails, WriteFails
  <2>8. CASE Write(r)
    <3>1. Edited(ideal, edit[r]) \in Config
      BY <2>8, EditedConfig DEF Write
    <3> QED
      BY <2>8, <3>1 DEF Write, Live
  <2> QED
    BY <1>4, <2>1, <2>2, <2>3, <2>4, <2>5, <2>6, <2>7, <2>8 DEF RequestStep
<1> QED
  BY <1>1, <1>2, <1>3, <1>4 DEF Next

(* The variables of ConfigEdits keep their types, and a request at a step  *)
(* holds what that step uses.                                              *)
THEOREM TypeCorrect == Spec => []TypeOK
<1>1. TypeInv => TypeOK
  BY DEF TypeInv
<1> QED
  BY <1>1, TypeInit, StepTypes, PTL DEF Spec

-----------------------------------------------------------------------------
(* One request at a time.  What a request at work has left in the file     *)
(* and in the copies of its setting, and what the copies are worth then.   *)
Sole == alone => \A r, s \in Request : Busy(r) /\ Busy(s) => r = s
NobodyWhenDown == ~ running => AtRest

FileInv ==
  alone /\ spared =>
    /\ AtRest => file = ideal
    /\ \A r \in Request : Busy(r) =>
         /\ pc[r] # "write" => file = ideal
         /\ pc[r] \in {"truncate", "write"} => view[r] = Edited(ideal, edit[r])
         /\ pc[r] = "write" => file = Empty

(* What a PUT at work has set, beyond its first step.                      *)
Applied(r) ==
  /\ edit[r].kind = "blockDirect" =>
       /\ pc[r] # "engine" => engineBlock = edit[r].arg
       /\ pc[r] = "balancer" \/ balancerBlock = engineBlock
  /\ edit[r].kind # "blockDirect" => balancerBlock = engineBlock
  /\ edit[r].kind = "rules" /\ pc[r] \notin {"engine", "snapshot"} => engineRules = edit[r].arg

Kept == /\ "blockDirect" \notin apart => engineBlock = ideal.blockDirect
        /\ "rules" \notin apart => engineRules = ideal.rules

CopiesInv ==
  alone /\ running =>
    /\ AtRest => engineBlock = balancerBlock
    /\ \A r \in Request : Busy(r) => Applied(r)
    /\ spared => Kept

IInv == TypeInv /\ Sole /\ NobodyWhenDown /\ FileInv /\ CopiesInv

LEMMA NotADocument == ASSUME NEW c \in Config PROVE c # Empty /\ c # Garbled
BY ContentAssumption

LEMMA InitInv == Init => IInv
<1> SUFFICES ASSUME Init PROVE IInv
  OBVIOUS
<1>1. TypeInv
  BY TypeInit
<1>2. AtRest /\ \A r \in Request : ~ Busy(r)
  BY DEF Init, AtRest, Busy
<1> QED
  BY <1>1, <1>2 DEF Init, IInv, Sole, NobodyWhenDown, FileInv, CopiesInv, Kept

-----------------------------------------------------------------------------
LEMMA ReceiveStep ==
  ASSUME IInv, TypeInv', NEW r \in Request, NEW ed \in Edit, Receive(r, ed)
  PROVE  IInv'
<1> USE DEF IInv, TypeInv, TypeOK, Receive, liveVars
<1>1. edit'[r] = ed /\ \A s \in Request \ {r} : edit'[s] = edit[s]
  OBVIOUS
<1>2. /\ pc'[r] \in {"engine", "truncate", "read"}
      /\ pc'[r] = "engine" <=> ed.kind \in Live
      /\ pc'[r] = "truncate" <=> ed.kind = "overwrite"
      /\ \A s \in Request \ {r} : pc'[s] = pc[s]
  BY DEF Live
<1>3. ~ AtRest' /\ Busy(r)'
  BY <1>2 DEF AtRest, Busy
<1>4. alone' => alone /\ AtRest /\ \A s \in Request \ {r} : ~ Busy(s)'
  BY <1>2 DEF AtRest, Busy
<1>5. alone' /\ spared => file = ideal
  BY <1>4 DEF FileInv
<1>6. Sole'
  BY <1>4 DEF Sole
<1>7. NobodyWhenDown'
  BY DEF NobodyWhenDown
<1>8. FileInv'
  <2>1. ed.kind = "overwrite" => view'[r] = Edited(ideal, ed)
    BY EditedConfig, EditShape
  <2> QED
    BY <1>1, <1>2, <1>3, <1>4, <1>5, <2>1 DEF FileInv
<1>9. CopiesInv'
  BY <1>1, <1>2, <1>3, <1>4 DEF CopiesInv, Applied, Kept, Live
<1> QED
  BY <1>6, <1>7, <1>8, <1>9

(* A step of a request at work that stays at work, or ends.                *)
LEMMA SoleKept ==
  ASSUME IInv, NEW r \in Request, Busy(r), alone' = alone, running' = running,
         \A s \in Request \ {r} : pc'[s] = pc[s]
  PROVE  /\ Sole' /\ NobodyWhenDown' /\ running
         /\ alone => \A s \in Request \ {r} : ~ Busy(s) /\ ~ Busy(s)'
         /\ alone /\ ~ Busy(r)' => AtRest'
         /\ Busy(r)' => ~ AtRest'
<1>1. running
  BY DEF IInv, NobodyWhenDown, AtRest
<1>2. alone => \A s \in Request \ {r} : ~ Busy(s) /\ ~ Busy(s)'
  BY DEF IInv, Sole, Busy
<1>3. Sole'
  BY <1>2 DEF Sole
<1>4. Busy(r)' => ~ AtRest'
  BY DEF AtRest
<1>5. alone /\ ~ Busy(r)' => AtRest'
  BY <1>2 DEF AtRest
<1> QED
  BY <1>1, <1>2, <1>3, <1>4, <1>5 DEF NobodyWhenDown

LEMMA ApplyStep ==
  ASSUME IInv, TypeInv', NEW r \in Request,
         ApplyEngine(r) \/ ApplyBalancer(r) \/ SnapshotRules(r)
  PROVE  IInv'
<1> USE DEF IInv, TypeInv, TypeOK, liveVars, historyVars
<1>1. /\ pc[r] \in {"engine", "balancer", "snapshot"}
      /\ pc'[r] \in {"balancer", "snapshot", "read"}
      /\ \A s \in Request \ {r} : pc'[s] = pc[s] /\ edit'[s] = edit[s]
      /\ edit'[r].kind = edit[r].kind
      /\ UNCHANGED <<file, view, running, ideal, alone, spared>>
  <2>1. CASE SnapshotRules(r)
    <3>1. edit'[r] = [edit[r] EXCEPT !.arg = engineRules]
      BY <2>1 DEF SnapshotRules
    <3>2. edit[r] \in Edit /\ edit[r].kind = "rules"
      BY <2>1 DEF SnapshotRules, StepInv
    <3>3. edit'[r].kind = edit[r].kind
      BY <3>1, <3>2, RulesEdit
    <3> QED
      BY <2>1, <3>3 DEF SnapshotRules
  <2> QED
    BY <2>1 DEF ApplyEngine, ApplyBalancer
<1>2. Busy(r) /\ Busy(r)'
  BY <1>1 DEF Busy
<1>3. /\ Sole' /\ NobodyWhenDown' /\ running
      /\ alone => \A s \in Request \ {r} : ~ Busy(s)'
      /\ ~ AtRest'
  BY <1>1, <1>2, SoleKept
<1>4. FileInv'
  BY <1>1, <1>2, <1>3 DEF FileInv
<1>5. CopiesInv'
  <2>1. SUFFICES ASSUME alone PROVE Applied(r)' /\ (spared => Kept')
    BY <1>1, <1>3 DEF CopiesInv
  <2>2. Applied(r) /\ (spared => Kept)
    BY <1>2, <1>3, <2>1 DEF CopiesInv
  <2>3. CASE ApplyEngine(r)
    <3>1. edit[r].kind \in {"blockDirect", "rules"}
      BY <2>3 DEF ApplyEngine, StepInv
    <3> QED
      BY <2>2, <2>3, <3>1 DEF ApplyEngine, Applied, Kept
  <2>4. CASE ApplyBalancer(r)
    <3>1. edit[r].kind = "blockDirect"
      BY <2>4 DEF ApplyBalancer, StepInv
    <3> QED
      BY <2>2, <2>4, <3>1 DEF ApplyBalancer, Applied, Kept
  <2>5. CASE SnapshotRules(r)
    <3>1. edit[r] \in Edit /\ edit[r].kind = "rules" /\ engineRules \in Rules
      BY <2>5 DEF SnapshotRules, StepInv
    <3>2. edit'[r] = [edit[r] EXCEPT !.arg = engineRules]
      BY <2>5 DEF SnapshotRules
    <3>3. edit'[r].kind = "rules" /\ edit'[r].arg = engineRules
      BY <3>1, <3>2, RulesEdit
    <3> QED
      BY <2>2, <2>5, <3>1, <3>3 DEF SnapshotRules, Applied, Kept
  <2> QED
    BY <2>3, <2>4, <2>5
<1> QED
  BY <1>3, <1>4, <1>5

(* A step that leaves what is set live as it is, and the file too unless   *)
(* it goes from the truncation to the write.                               *)
LEMMA FileStep ==
  ASSUME IInv, TypeInv', NEW r \in Request,
         pc[r] \in {"read", "truncate", "write"},
         pc'[r] \in {"truncate", "write", "failed"},
         \A s \in Request \ {r} : pc'[s] = pc[s],
         UNCHANGED <<edit, liveVars, running, ideal, alone, apart>>,
         spared' => spared
  PROVE  Sole' /\ NobodyWhenDown' /\ CopiesInv'
<1> USE DEF IInv, liveVars
<1>1. Busy(r)
  BY DEF Busy
<1>2. /\ Sole' /\ NobodyWhenDown' /\ running
      /\ alone => \A s \in Request \ {r} : ~ Busy(s) /\ ~ Busy(s)'
      /\ Busy(r)' => ~ AtRest'
  BY <1>1, SoleKept
<1>3. alone => Applied(r) /\ (spared => Kept)
  BY <1>1, <1>2 DEF CopiesInv
<1>4. alone => Applied(r)' /\ balancerBlock = engineBlock /\ (spared' => Kept')
  BY <1>3 DEF Applied, Kept
<1> QED
  BY <1>2, <1>4 DEF CopiesInv

LEMMA ReadStep ==
  ASSUME IInv, TypeInv', NEW r \in Request, Read(r) \/ ReadFails(r)
  PROVE  IInv'
<1> USE DEF IInv, TypeInv, TypeOK, liveVars, historyVars
<1>1. /\ pc[r] = "read" /\ Busy(r) /\ pc'[r] \in {"truncate", "failed"}
      /\ \A s \in Request \ {r} : pc'[s] = pc[s] /\ view'[s] = view[s]
      /\ UNCHANGED <<file, edit, liveVars, running, historyVars>>
  BY DEF Read, ReadFails, Busy, AfterRead
<1>2. alone /\ spared => file = ideal /\ ideal \in Config
  BY <1>1 DEF FileInv
<1>3. alone /\ spared /\ pc'[r] = "truncate" => view'[r] = Edited(ideal, edit[r])
  <2>1. SUFFICES ASSUME alone, spared, pc'[r] = "truncate"
                 PROVE  view'[r] = Edited(ideal, edit[r])
    OBVIOUS
  <2>2. Read(r)
    BY <2>1 DEF ReadFails
  <2>3. PICK c \in Config :
          ReadsAs(r, c) /\ view' = [view EXCEPT ![r] = Edited(c, edit[r])]
    BY <2>2 DEF Read
  <2>4. c = ideal
    BY <2>1, <2>3, <1>2, NotADocument DEF ReadsAs
  <2> QED
    BY <2>3, <2>4
<1>4. /\ Sole' /\ NobodyWhenDown' /\ CopiesInv'
      /\ alone => \A s \in Request \ {r} : ~ Busy(s)'
  BY <1>1, FileStep, SoleKept
<1>5. FileInv'
  BY <1>1, <1>2, <1>3, <1>4 DEF FileInv, Busy
<1> QED
  BY <1>4, <1>5

LEMMA TruncateStep ==
  ASSUME IInv, TypeInv', NEW r \in Request, Truncate(r) \/ OpenFails(r) \/ WriteFails(r)
  PROVE  IInv'
<1> USE DEF IInv, TypeInv, TypeOK, liveVars, historyVars
<1>1. /\ pc[r] \in {"truncate", "write"} /\ pc'[r] \in {"write", "failed"}
      /\ \A s \in Request \ {r} : pc'[s] = pc[s]
      /\ UNCHANGED <<edit, view, liveVars, running, ideal, alone, apart>>
      /\ spared' => spared /\ pc[r] = "truncate"
                    /\ file' = IF pc'[r] = "write" THEN Empty ELSE file
  BY DEF Truncate, OpenFails, WriteFails
<1>2. /\ Busy(r) /\ Sole' /\ NobodyWhenDown' /\ CopiesInv'
      /\ alone => \A s \in Request \ {r} : ~ Busy(s)'
      /\ Busy(r)' => ~ AtRest'
  BY <1>1, FileStep, SoleKept DEF Busy
<1>3. FileInv'
  BY <1>1, <1>2 DEF FileInv, Busy
<1> QED
  BY <1>2, <1>3

LEMMA WriteStep ==
  ASSUME IInv, TypeInv', NEW r \in Request, Write(r)
  PROVE  IInv'
<1> USE DEF IInv, TypeInv, TypeOK, liveVars
<1>1. /\ pc[r] = "write" /\ pc'[r] = "ok" /\ Busy(r) /\ ~ Busy(r)'
      /\ \A s \in Request \ {r} : pc'[s] = pc[s]
      /\ file' \in IF file = Empty THEN {view[r]} ELSE {view[r], Garbled}
      /\ ideal' = Edited(ideal, edit[r])
      /\ apart' = IF edit[r].kind = "overwrite" THEN Live ELSE apart \ {edit[r].kind}
      /\ UNCHANGED <<edit, view, liveVars, running, alone, spared>>
  BY DEF Write, Busy
<1>2. /\ Sole' /\ NobodyWhenDown' /\ running
      /\ alone => \A s \in Request \ {r} : ~ Busy(s) /\ ~ Busy(s)'
      /\ alone => AtRest'
  BY <1>1, SoleKept
<1>3. FileInv'
  <2>1. alone /\ spared => file' = ideal'
    BY <1>1 DEF FileInv
  <2> QED
    BY <1>1, <1>2, <2>1 DEF FileInv
<1>4. CopiesInv'
  <2>1. SUFFICES ASSUME alone
                 PROVE  engineBlock = balancerBlock /\ (spared => Kept')
    BY <1>1, <1>2 DEF CopiesInv
  <2>2. Applied(r) /\ (spared => Kept)
    BY <1>1, <1>2, <2>1 DEF CopiesInv
  <2>3. edit[r] \in Edit /\ ideal \in Config
    BY <1>1
  <2>4. /\ edit[r].kind \notin {"blockDirect", "overwrite"} =>
             ideal'.blockDirect = ideal.blockDirect
        /\ edit[r].kind \notin {"rules", "overwrite"} => ideal'.rules = ideal.rules
        /\ edit[r].kind = "blockDirect" => ideal'.blockDirect = edit[r].arg
        /\ edit[r].kind = "rules" => ideal'.rules = edit[r].arg
    BY <1>1, <2>3, EditedConfig
  <2>5. engineBlock = balancerBlock
    BY <1>1, <2>2 DEF Applied
  <2>6. spared => Kept'
    BY <1>1, <2>2, <2>4 DEF Applied, Kept, Live
  <2> QED
    BY <2>5, <2>6
<1> QED
  BY <1>2, <1>3, <1>4

LEMMA RestartStep ==
  ASSUME IInv, TypeInv', Crash \/ Start
  PROVE  IInv'
<1> USE DEF IInv, TypeInv, TypeOK, liveVars, historyVars
<1>1. CASE Crash
  <2>1. AtRest' /\ ~ running'
    BY <1>1 DEF Crash, AtRest, Busy
  <2>2. alone' /\ spared' => alone /\ spared /\ file' = file /\ ideal' = ideal
                             /\ \A r \in Request : pc[r] # "write"
    BY <1>1 DEF Crash
  <2>3. \A r \in Request : ~ Busy(r)'
    BY <2>1 DEF AtRest
  <2>4. alone' /\ spared' => file = ideal
    BY <2>2 DEF FileInv, AtRest
  <2>5. FileInv'
    BY <2>2, <2>3, <2>4 DEF FileInv
  <2> QED
    BY <2>1, <2>3, <2>5 DEF Sole, NobodyWhenDown, CopiesInv
<1>2. CASE Start
  <2>1. /\ AtRest /\ AtRest'
        /\ UNCHANGED <<file, pc, edit, view, ideal, alone, spared>>
    BY <1>2 DEF Start, NobodyWhenDown, AtRest, Busy
  <2>2. \A r \in Request : ~ Busy(r)'
    BY <2>1 DEF AtRest
  <2>3. FileInv'
    BY <2>1, <2>2 DEF FileInv
  <2>4. PICK c \in Config : /\ Loads(c)
                            /\ engineBlock' = c.blockDirect
                            /\ balancerBlock' = c.blockDirect
                            /\ engineRules' = c.rules
    BY <1>2 DEF Start
  <2>5. alone /\ spared => Kept'
    <3>1. SUFFICES ASSUME alone, spared PROVE Kept'
      OBVIOUS
    <3>2. file = ideal /\ ideal \in Config
      BY <2>1, <3>1 DEF FileInv
    <3>3. c = ideal
      BY <3>2, <2>4, NotADocument DEF Loads
    <3> QED
      BY <2>1, <2>4, <3>3 DEF Kept
  <2> QED
    BY <2>1, <2>2, <2>3, <2>4, <2>5 DEF Sole, NobodyWhenDown, CopiesInv
<1> QED
  BY <1>1, <1>2

LEMMA StepInvKept ==
  ASSUME IInv, [Next]_vars
  PROVE  IInv'
<1>1. TypeInv'
  BY StepTypes DEF IInv
<1>2. CASE UNCHANGED vars
  BY <1>1, <1>2 DEF vars, liveVars, historyVars, IInv, Sole, NobodyWhenDown, FileInv,
                    CopiesInv, Applied, Kept, AtRest, Busy
<1>3. ASSUME NEW r \in Request, RequestStep(r)
      PROVE  IInv'
  BY <1>1, <1>3, ReceiveStep, ApplyStep, ReadStep, TruncateStep, WriteStep DEF RequestStep
<1> QED
  BY <1>1, <1>2, <1>3, RestartStep DEF Next

LEMMA InvAlways == Spec => []IInv
BY InitInv, StepInvKept, PTL DEF Spec

(* Requests that never overlap are all kept, or fail and change nothing:   *)
(* config.yaml is the first document with every edit that was answered     *)
(* well applied in order (editYAMLFile and the other writers), through     *)
(* restarts and crashes, unless the file has once been left truncated.     *)
THEOREM QuietEditsKept == Spec => []QuietEditsAllKept
<1>1. IInv => QuietEditsAllKept
  BY DEF IInv, FileInv, QuietEditsAllKept
<1> QED
  BY <1>1, InvAlways, PTL

(* ... and then the engine and the balancer have one kill-switch even if   *)
(* it could not be saved, and both agree with the file on every setting    *)
(* whose last PUT was saved, by the handlers as by a start.                *)
THEOREM QuietCopies == Spec => []QuietCopiesAgree
<1>1. IInv => QuietCopiesAgree
  BY DEF IInv, FileInv, CopiesInv, Kept, QuietCopiesAgree
<1> QED
  BY <1>1, InvAlways, PTL
=============================================================================
