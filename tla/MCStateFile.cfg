\* Two goroutines save, not at once; the process is killed anywhere.
SPECIFICATION AloneSpec
CONSTANTS
  Saver = {s1, s2}
  short = short
  long = long
  longer = longer
  Doc = {short, long, longer}
  Length <- MCLength
  Inode = {i1, i2, i3}
  None = None
INVARIANT TypeOK
INVARIANT SoleSaverInv
PROPERTY SavesAreAtomic
