SPECIFICATION Spec
CONSTANTS
  MaxLine = 3
  MaxChunk = 3
  MaxStream = 7
INVARIANTS TypeOK CutsDoNotMatter BufferIsUnfinishedLine
CHECK_DEADLOCK FALSE
