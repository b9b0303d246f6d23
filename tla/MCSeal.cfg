SPECIFICATION Spec
CONSTANTS
  n1 = n1
  n2 = n2
  d1 = d1
  k1 = k1
  Name = {n1, n2}
  Proc = {p1, p2}
  Dir = {d1}
  Tree = {t1, t2}
  Key = {kb, k1, k2}
  SignedFile = {f1}
  Aboot = {t1}
  Unsignable = {t2}
  Jobs <- MCJobs
  BuildKey = kb
  NoImage = NoImage
  NoKey = NoKey
  NoJob = NoJob
  NoFile = NoFile
  Broken = Broken
  Torn = Torn
  Fault = {}
SYMMETRY MCSymmetry
INVARIANTS ResealBinds TemporariesRemoved
PROPERTIES RefinesAtomic
