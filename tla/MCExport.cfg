SPECIFICATION MCSpec
CONSTANTS
  Len0 = 7
  Block = 3
  Chunk = 2
  Batch = 2
  Payload = {x}
  Hole = Hole
  Zero = Zero
  Unset = Unset
INVARIANTS TruncateKeepsData ExtractIsFaithful SparseIsFaithful
PROPERTIES ExportEnds
CHECK_DEADLOCK FALSE
