\* Two connection threads save at once.
CONSTANTS
  Savers = {s1, s2}
  Inodes = {i1, i2, i3}
  NoFile = NoFile
  MaxVersion = 3
  Size <- MCSize
SPECIFICATION FileSpec
INVARIANTS PathReadable
