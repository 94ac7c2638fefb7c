\* Two PATCH handlers save at once.
SPECIFICATION Spec
CONSTANTS
  Saver = {s1, s2}
  short = short
  long = long
  longer = longer
  Doc = {short, long, longer}
  Length <- MCLength
  Inode = {i1, i2, i3, i4}
  None = None
INVARIANT AtRestWhole
