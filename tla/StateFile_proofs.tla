-------------------------- MODULE StateFile_proofs --------------------------
(***************************************************************************)
(* When no two saves overlap, state.Save and Load implement AtomicStore,   *)
(* for documents of any lengths and a crash between any two system calls.  *)
(***************************************************************************)
EXTENDS StateFile, TLAPS

IInv == TypeOK /\ SoleSaverInv

LEMMA InitInv == Init => IInv
BY NoneAssumption, LengthAssumption DEF Init, IInv, TypeOK, SoleSaverInv, File

(* Truncating and overwriting keep a file a file; a document written to    *)
(* an empty file is there whole.                                           *)
LEMMA TruncatedFile ==
  ASSUME NEW f \in File
  PROVE  Truncated(f) \in File /\ Truncated(f).length = 0
BY DEF Truncated, File

LEMMA OverwrittenFile ==
  ASSUME NEW f \in File, NEW d \in Doc
  PROVE  /\ Overwritten(f, d) \in File
         /\ Overwritten(f, d).head = d
         /\ f.length = 0 => Whole(Overwritten(f, d))
<1>1. Length[d] \in Nat \ {0} /\ f.length \in Nat
  BY LengthAssumption DEF File
<1> QED
  BY <1>1 DEF Overwritten, File, Whole

-----------------------------------------------------------------------------
(* The types hold however many saves overlap and wherever the process dies: *)
(* a save that writes has a file open, one under way has a document.       *)
THEOREM TypeCorrect == Spec => []TypeOK
<1>1. Init => TypeOK
  BY NoneAssumption DEF Init, TypeOK, File
<1>2. TypeOK /\ [Next]_vars => TypeOK'
  <2> SUFFICES ASSUME TypeOK, [Next]_vars PROVE TypeOK'
    OBVIOUS
  <2>1. ASSUME NEW s \in Saver, NEW d \in Doc, SaveOpen(s, d) PROVE TypeOK'
    <3>1. PICK i \in (IF tmp = None THEN Unused ELSE {tmp}) :
            /\ tmp' = i
            /\ file' = [file EXCEPT ![i] = Truncated(@)]
            /\ fd' = [fd EXCEPT ![s] = i]
      BY <2>1 DEF SaveOpen
    <3>2. i \in Inode
      BY <3>1 DEF Unused, TypeOK
    <3>3. file' \in [Inode -> File]
      BY <3>1, <3>2, TruncatedFile DEF TypeOK
    <3> QED
      BY <2>1, <3>1, <3>2, <3>3 DEF TypeOK, SaveOpen
  <2>2. ASSUME NEW s \in Saver, SaveWrite(s) PROVE TypeOK'
    <3>1. fd[s] \in Inode /\ saveDoc[s] \in Doc
      BY <2>2 DEF TypeOK, SaveWrite
    <3>2. file' \in [Inode -> File]
      BY <2>2, <3>1, OverwrittenFile DEF TypeOK, SaveWrite
    <3> QED
      BY <2>2, <3>2 DEF TypeOK, SaveWrite
  <2>3. ASSUME NEW s \in Saver, SaveRename(s) PROVE TypeOK'
    BY <2>3 DEF TypeOK, SaveRename
  <2>4. ASSUME NEW s \in Saver, SaveFails(s) PROVE TypeOK'
    BY <2>4, NoneAssumption DEF TypeOK, SaveFails
  <2>5. CASE Restart
    <3>1. Load \in Doc \cup {None, "error"}
      BY DEF Load, TypeOK, File
    <3> QED
      BY <2>5, <3>1 DEF TypeOK, Restart
  <2>6. CASE UNCHANGED vars
    BY <2>6 DEF TypeOK, vars
  <2> QED
    BY <2>1, <2>2, <2>3, <2>4, <2>5, <2>6 DEF Next, SaveStep
<1> QED
  BY <1>1, <1>2, PTL DEF Spec

-----------------------------------------------------------------------------
(* The step of each system call, and what it does to the stored document.  *)
LEMMA OpenStep ==
  ASSUME IInv, Alone', NEW s \in Saver, NEW d \in Doc, SaveOpen(s, d)
  PROVE  IInv' /\ Load' = Load /\ loaded' = loaded
<1>1. PICK i \in (IF tmp = None THEN Unused ELSE {tmp}) :
        /\ tmp' = i
        /\ file' = [file EXCEPT ![i] = Truncated(@)]
        /\ fd' = [fd EXCEPT ![s] = i]
  BY DEF SaveOpen
<1>2. i \in Inode /\ i # path
  BY <1>1, NoneAssumption DEF Unused, IInv, TypeOK, SoleSaverInv
<1>3. file' \in [Inode -> File] /\ file'[i].length = 0
  BY <1>1, <1>2, TruncatedFile DEF IInv, TypeOK
<1>4. TypeOK'
  BY <1>1, <1>2, <1>3 DEF IInv, TypeOK, SaveOpen
<1>5. path' = path /\ (path # None => file'[path] = file[path])
  BY <1>1, <1>2 DEF SaveOpen, IInv, TypeOK
<1>6. SoleSaverInv'
  <2>1. savePc'[s] = "write" /\ fd'[s] = tmp' /\ tmp' = i
    BY <1>1 DEF SaveOpen, IInv, TypeOK
  <2>2. \A t \in Saver \ {s} : savePc'[t] = "idle"
    BY <2>1 DEF Alone
  <2>3. path' # None => Whole(file'[path']) /\ path' # tmp'
    BY <1>2, <1>5, <2>1 DEF IInv, SoleSaverInv, Whole
  <2> QED
    BY <1>2, <1>3, <2>1, <2>2, <2>3, NoneAssumption DEF SoleSaverInv, Whole
<1>7. Load' = Load
  BY <1>5 DEF Load, Whole
<1> QED
  BY <1>4, <1>6, <1>7 DEF IInv, SaveOpen

LEMMA WriteStep ==
  ASSUME IInv, Alone, NEW s \in Saver, SaveWrite(s)
  PROVE  IInv' /\ Load' = Load /\ loaded' = loaded
<1>1. /\ tmp \in Inode /\ fd[s] = tmp /\ saveDoc[s] \in Doc
      /\ file[tmp] \in File /\ file[tmp].length = 0 /\ path # tmp
  BY DEF IInv, TypeOK, SoleSaverInv, SaveWrite
<1>2. file' = [file EXCEPT ![tmp] = Overwritten(@, saveDoc[s])]
  BY <1>1 DEF SaveWrite
<1>3. /\ file' \in [Inode -> File]
      /\ file'[tmp].head = saveDoc[s]
      /\ Whole(file'[tmp])
  BY <1>1, <1>2, OverwrittenFile DEF IInv, TypeOK
<1>4. TypeOK'
  BY <1>3 DEF IInv, TypeOK, SaveWrite
<1>5. path' = path /\ tmp' = tmp /\ (path # None => file'[path] = file[path])
  BY <1>1, <1>2 DEF SaveWrite, IInv, TypeOK
<1>6. SoleSaverInv'
  <2>1. savePc'[s] = "rename" /\ saveDoc' = saveDoc
    BY DEF SaveWrite, IInv, TypeOK
  <2>2. \A t \in Saver \ {s} : savePc'[t] = "idle"
    BY DEF Alone, SaveWrite, IInv, TypeOK
  <2>3. path' # None => Whole(file'[path']) /\ path' # tmp'
    BY <1>1, <1>5 DEF IInv, SoleSaverInv, Whole
  <2> QED
    BY <1>1, <1>3, <1>5, <2>1, <2>2, <2>3, NoneAssumption DEF SoleSaverInv, Whole
<1>7. Load' = Load
  BY <1>5 DEF Load, Whole
<1> QED
  BY <1>4, <1>6, <1>7 DEF IInv, SaveWrite

LEMMA FailStep ==
  ASSUME IInv, Alone, NEW s \in Saver, SaveFails(s)
  PROVE  IInv' /\ Load' = Load /\ loaded' = loaded
<1>1. /\ UNCHANGED <<path, tmp, file, loaded>>
      /\ \A t \in Saver : savePc'[t] = "idle"
  BY DEF SaveFails, Alone, IInv, TypeOK
<1>2. TypeOK'
  BY NoneAssumption DEF IInv, TypeOK, SaveFails
<1>3. SoleSaverInv'
  BY <1>1 DEF IInv, SoleSaverInv, Whole
<1>4. Load' = Load
  BY <1>1 DEF Load, Whole
<1> QED
  BY <1>1, <1>2, <1>3, <1>4 DEF IInv

LEMMA RenameStep ==
  ASSUME IInv, Alone, NEW s \in Saver, SaveRename(s)
  PROVE  IInv' /\ Load' \in Doc /\ loaded' = loaded
<1>1. /\ tmp \in Inode /\ saveDoc[s] \in Doc
      /\ Whole(file[tmp]) /\ file[tmp].head = saveDoc[s]
  BY DEF IInv, TypeOK, SoleSaverInv, SaveRename
<1>2. path' = tmp /\ tmp' = None /\ file' = file
  BY <1>1, NoneAssumption DEF SaveRename
<1>3. TypeOK'
  BY <1>1, <1>2 DEF IInv, TypeOK, SaveRename
<1>4. SoleSaverInv'
  <2>1. \A t \in Saver : savePc'[t] = "idle"
    BY DEF Alone, SaveRename, IInv, TypeOK
  <2> QED
    BY <1>1, <1>2, <2>1, NoneAssumption DEF SoleSaverInv, Whole
<1>5. Load' = saveDoc[s]
  BY <1>1, <1>2, NoneAssumption DEF Load, Whole
<1> QED
  BY <1>1, <1>3, <1>4, <1>5 DEF IInv, SaveRename

LEMMA RestartStep ==
  ASSUME IInv, Restart
  PROVE  IInv' /\ Load' = Load /\ loaded' = Load
<1>1. Load \in Doc \cup {None}
  BY DEF Load, IInv, TypeOK, SoleSaverInv, File
<1>2. TypeOK'
  BY <1>1 DEF IInv, TypeOK, Restart
<1>3. SoleSaverInv'
  BY DEF IInv, SoleSaverInv, Restart, Whole
<1> QED
  BY <1>2, <1>3 DEF Restart, Load, Whole, IInv

LEMMA StutterStep ==
  ASSUME IInv, UNCHANGED vars
  PROVE  IInv' /\ Load' = Load /\ loaded' = loaded
BY DEF IInv, TypeOK, SoleSaverInv, Load, Whole, vars

LEMMA AloneStep ==
  IInv /\ Alone /\ Alone' /\ [Next]_vars => IInv' /\ [Store!Next]_<<Load, loaded>>
BY OpenStep, WriteStep, FailStep, RenameStep, RestartStep, StutterStep
   DEF Next, SaveStep, Store!Next, Store!Save, Store!Restart

(* What a saver knows of the two names and of their files, and the types,  *)
(* for any number of savers (the probing goroutine, each PATCH) whose      *)
(* saves do not overlap.                                                   *)
THEOREM SoleSaver == Spec /\ []Alone => [](TypeOK /\ SoleSaverInv)
<1>1. Init => IInv
  BY InitInv
<1>2. IInv /\ Alone /\ Alone' /\ [Next]_vars => IInv'
  BY AloneStep
<1> QED
  BY <1>1, <1>2, PTL DEF Spec, IInv

(* state.go:36 holds of saves that do not overlap, whoever saves: a reader *)
(* of state.json, and a restart after a crash anywhere, finds the last     *)
(* document whose rename was done, and finds it whole.                     *)
THEOREM SoleSaverAtomic == Spec /\ []Alone => SavesAreAtomic
<1>1. Init => Store!Init
  BY DEF Init, Store!Init, Load
<1>2. IInv /\ Alone /\ Alone' /\ [Next]_vars => [Store!Next]_<<Load, loaded>>
  BY AloneStep
<1>3. Spec /\ []Alone => []IInv
  BY SoleSaver DEF IInv
<1> QED
  BY <1>1, <1>2, <1>3, PTL DEF Spec, SavesAreAtomic, Store!Spec

(* The runs check the two on the specification without the steps in which  *)
(* a second save begins: its behaviours are those the theorems speak of.   *)
LEMMA AloneBehaviours == AloneSpec <=> Spec /\ []Alone
<1>1. Init => Alone
  BY DEF Init, Alone
<1>2. Alone /\ UNCHANGED vars => Alone'
  BY DEF Alone, vars
<1> QED
  BY <1>1, <1>2, PTL DEF Spec, AloneSpec
=============================================================================
