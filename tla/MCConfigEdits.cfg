\* Two requests of any kind, and a crash anywhere.
SPECIFICATION Spec
CONSTANTS
  Request = {r1, r2}
  Name = {n1}
  Legacy = Legacy
  Rules = {NoRules, someRules}
  NoRules = NoRules
  Document <- MCDocument
  None = None
  Empty = Empty
  Garbled = Garbled
CHECK_DEADLOCK FALSE
INVARIANT TypeOK
INVARIANT QuietEditsAllKept
INVARIANT QuietCopiesAgree
SYMMETRY MCSymmetry
