SPECIFICATION Spec
CONSTANTS
  Proc = {p1, p2}
  Name = {a, b}
  Obj = {o1, o2, o3}
  Space = {1}
  Overhead = 1
  MaxKills = 1
  Maximum = {1, 3}
  NoProc = NoProc
  NoObj = NoObj
  NoName = NoName
SYMMETRY MCSymmetry
INVARIANTS TypeOK ReaderSeesWhole InfoMeansWhole
PROPERTIES OvercountHasCause UndercountHasCause
