SPECIFICATION Spec
CONSTANTS
  n1 = n1
  b1 = b1
  b2 = b2
  t1 = t1
  t2 = t2
  t3 = t3
  f1 = f1
  d1 = d1
  d2 = d2
  cs9 = cs9
  as10 = as10
  Name = {n1, b1, b2}
  Proc = {p1}
  File = {f1, d1}
  root = root
  copy = copy
  boot = boot
  Part = {root, copy, boot}
  FileOf <- MCFileOf
  Truncatable = {boot}
  Tree = {t1, t2, t3}
  Distro = {cs9, as10}
  DistroOf <- MCDistroOf
  DefaultDistro = cs9
  BuilderOf <- MCBuilderOf
  Jobs <- MCJobs
  Fault = {}
  NoImage = NoImage
  NoDisk = NoDisk
  NoTree = NoTree
  NoFile = NoFile
  NoName = NoName
INVARIANTS SameDistroTools FailsForAReason
PROPERTIES BuildIsComplete BuilderIsCurrent DiskIsWhole NothingLeft
