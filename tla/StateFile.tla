------------------------------ MODULE StateFile ------------------------------
(***************************************************************************)
(* state.Save and state.Load on data/state.json, system call by system     *)
(* call: every save opens and truncates the same path.tmp, writes it, and  *)
(* renames it over path.  Saves are not serialised: the probing goroutine  *)
(* and each PATCH handler call Save on their own.                          *)
(*                                                                         *)
(* A file is an inode and survives its names: a writer that has it open    *)
(* goes on writing to it after a rename.  Of its bytes we keep the         *)
(* document last written at offset 0 and the length: a shorter document    *)
(* written over a longer one leaves a tail, and the file does not parse.   *)
(* A crash ends the process between two system calls; what they did stays. *)
(***************************************************************************)
EXTENDS Naturals

CONSTANTS Saver,    \* goroutines that may be in Save
          Doc,      \* states worth saving
          Length,   \* the length of the JSON of each
          Inode,    \* the file system's inodes
          None      \* no file, no document

ASSUME LengthAssumption == Length \in [Doc -> Nat \ {0}]
ASSUME NoneAssumption == None \notin Doc \cup Inode
ASSUME DocAssumption == Doc # {} /\ "error" \notin Doc

VARIABLES
  path, tmp,          \* the inode each of the two names leads to, or None
  file,               \* per inode: its bytes
  savePc, saveDoc, fd,  \* per saver: its step, what it saves, the file it has open
  loaded              \* what Load returned at the last startup

vars == <<path, tmp, file, savePc, saveDoc, fd, loaded>>
saveVars == <<savePc, saveDoc, fd>>

File == [head : Doc, length : Nat]

Whole(f) == f.length = Length[f.head]
Truncated(f) == [f EXCEPT !.length = 0]
Overwritten(f, d) ==
  [head |-> d, length |-> IF f.length > Length[d] THEN f.length ELSE Length[d]]

(* Load: a missing file is an empty state, and a file that does not parse  *)
(* is an error, on which main starts fresh.                                *)
Load == IF path = None THEN None
        ELSE IF Whole(file[path]) THEN file[path].head ELSE "error"

Init ==
  /\ file \in [Inode -> [head : Doc, length : {0}]]
  /\ path = None
  /\ tmp = None
  /\ savePc = [s \in Saver |-> "idle"]
  /\ saveDoc = [s \in Saver |-> None]
  /\ fd = [s \in Saver |-> None]
  /\ loaded = None

Unused == Inode \ ({path, tmp} \cup {fd[s] : s \in Saver})

(* Mutant: the document is written over path itself, and path.tmp unused.  *)
SaveOpenInPlace(s, d) ==
  /\ savePc[s] = "idle"
  /\ \E i \in IF path = None THEN Unused ELSE {path} :
       /\ tmp' = i
       /\ file' = [file EXCEPT ![i] = Truncated(@)]
       /\ fd' = [fd EXCEPT ![s] = i]
  /\ saveDoc' = [saveDoc EXCEPT ![s] = d]
  /\ savePc' = [savePc EXCEPT ![s] = "write"]
  /\ UNCHANGED <<path, loaded>>

(* Mutant: the open does not create the file.                              *)
SaveOpenNoCreate(s, d) ==
  /\ savePc[s] = "idle"
  /\ file' = IF tmp = None THEN file ELSE [file EXCEPT ![tmp] = Truncated(@)]
  /\ fd' = [fd EXCEPT ![s] = tmp]
  /\ saveDoc' = [saveDoc EXCEPT ![s] = d]
  /\ savePc' = [savePc EXCEPT ![s] = "write"]
  /\ UNCHANGED <<path, tmp, loaded>>

(* os.WriteFile(tmp), first half: open with O_CREATE and O_TRUNC.  The     *)
(* errors before it (mkdir, marshal, the open itself) change nothing.      *)
SaveOpen(s, d) ==
  /\ savePc[s] = "idle"
  /\ \E i \in IF tmp = None THEN Unused ELSE {tmp} :
       /\ tmp' = i
       /\ file' = [file EXCEPT ![i] = Truncated(@)]
       /\ fd' = [fd EXCEPT ![s] = i]
  /\ saveDoc' = [saveDoc EXCEPT ![s] = d]
  /\ savePc' = [savePc EXCEPT ![s] = "write"]
  /\ UNCHANGED <<path, loaded>>

(* Second half: one write at offset 0, and close.                          *)
SaveWrite(s) ==
  /\ savePc[s] = "write"
  /\ file' = [file EXCEPT ![fd[s]] = Overwritten(@, saveDoc[s])]
  /\ fd' = [fd EXCEPT ![s] = None]
  /\ savePc' = [savePc EXCEPT ![s] = "rename"]
  /\ UNCHANGED <<path, tmp, saveDoc, loaded>>

(* Or the write fails, and path.tmp stays behind, truncated.  The part of   *)
(* the document that a full disk may have taken is left out: a save that   *)
(* nobody overlaps truncates the file before it renames it.                *)
SaveFails(s) ==
  /\ savePc[s] = "write"
  /\ fd' = [fd EXCEPT ![s] = None]
  /\ saveDoc' = [saveDoc EXCEPT ![s] = None]
  /\ savePc' = [savePc EXCEPT ![s] = "idle"]
  /\ UNCHANGED <<path, tmp, file, loaded>>

(* os.Rename(tmp, path); it fails when another save renamed tmp away, and  *)
(* the error is logged.                                                    *)
SaveRename(s) ==
  /\ savePc[s] = "rename"
  /\ path' = IF tmp # None THEN tmp ELSE path
  /\ tmp' = None
  /\ saveDoc' = [saveDoc EXCEPT ![s] = None]
  /\ savePc' = [savePc EXCEPT ![s] = "idle"]
  /\ UNCHANGED <<file, fd, loaded>>

(* The process ends wherever its savers are, and main loads the state.     *)
Restart ==
  /\ loaded' = Load
  /\ savePc' = [s \in Saver |-> "idle"]
  /\ saveDoc' = [s \in Saver |-> None]
  /\ fd' = [s \in Saver |-> None]
  /\ UNCHANGED <<path, tmp, file>>

SaveStep(s) ==
  (\E d \in Doc : SaveOpen(s, d)) \/ SaveWrite(s) \/ SaveFails(s) \/ SaveRename(s)

Next == (\E s \in Saver : SaveStep(s)) \/ Restart

Spec == Init /\ [][Next]_vars

(* Saves of any goroutines that happen not to overlap.                     *)
Alone == \A s, t \in Saver : savePc[s] # "idle" /\ savePc[t] # "idle" => s = t
AloneSpec == Init /\ [][Next /\ Alone']_vars

-----------------------------------------------------------------------------
TypeOK ==
  /\ path \in Inode \cup {None}
  /\ tmp \in Inode \cup {None}
  /\ file \in [Inode -> File]
  /\ savePc \in [Saver -> {"idle", "write", "rename"}]
  /\ saveDoc \in [Saver -> Doc \cup {None}]
  /\ fd \in [Saver -> Inode \cup {None}]
  /\ \A s \in Saver : /\ savePc[s] = "write" => fd[s] \in Inode
                      /\ savePc[s] # "idle" => saveDoc[s] \in Doc
  /\ loaded \in Doc \cup {None, "error"}

(* What a save under way knows of the two files when none overlaps it: it  *)
(* alone holds tmp, which is not the file of path, and path is whole.      *)
SoleSaverInv ==
  /\ path # None => Whole(file[path]) /\ path # tmp
  /\ \A s \in Saver :
       /\ savePc[s] # "idle" => tmp # None
       /\ savePc[s] = "write" => fd[s] = tmp /\ file[tmp].length = 0
       /\ savePc[s] = "rename" => /\ Whole(file[tmp])
                                  /\ file[tmp].head = saveDoc[s]

(* state.go:36, "Save writes state atomically": a load never sees a save   *)
(* half done, wherever the process died, and returns the last one done.    *)
Store == INSTANCE AtomicStore WITH stored <- Load, loaded <- loaded
SavesAreAtomic == Store!Spec

(* The same, for the file at rest: when no save is under way, state.json   *)
(* parses.                                                                 *)
AtRestWhole ==
  (path # None /\ \A s \in Saver : savePc[s] = "idle") => Whole(file[path])
=============================================================================
