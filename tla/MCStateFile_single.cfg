\* One save at a time; saves are cut short by failures and crashes.
CONSTANTS
  Savers = {s1}
  Inodes = {i1, i2}
  NoFile = NoFile
  MaxVersion = 3
  Size <- MCSize
SPECIFICATION FileSpec
INVARIANTS FileTypeOK AtomicReplace SizeCheckPasses
