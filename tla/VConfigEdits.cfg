\* Two handlers read the same document and write it one after the other.
SPECIFICATION Spec
CONSTANTS
  Request = {r1, r2}
  Name = {n1}
  Legacy = Legacy
  Rules = {NoRules, someRules}
  NoRules = NoRules
  Document <- MCDocument
  None = None
  Empty = Empty
  Garbled = Garbled
CHECK_DEADLOCK FALSE
INVARIANT EditKeepsTheRest
SYMMETRY MCSymmetry
