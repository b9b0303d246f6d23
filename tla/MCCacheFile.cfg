SPECIFICATION FairSpec
CONSTANTS
  Proc = {p1, p2}
  Inode = {i1, i2, i3, i4, i5}
  Value <- MCValue
  Call <- MCCall
  Initial = 0
  After <- SizeAfter
  Refused <- TooBig
  NoCall = NoCall
  NoInode = NoInode
  NoProc = NoProc
INVARIANTS UpdateHoldsFile
PROPERTIES ImplementsAtomicFile UpdatesEnd
