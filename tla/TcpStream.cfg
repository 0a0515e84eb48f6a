\* Any peer, this library and others: empty packets, sizes beyond the limit and wrong flags.
CONSTANTS
  HeadSize = 3
  MaxSend = 5
  MaxSize = 5
  BufferSize = 4
  Sizes = {0, 1, 5, 6}
  MaxFrames = 3
SPECIFICATION LiveSpec
INVARIANTS TypeOK ParserInv AssertMustBeTrue NoBorrowAcrossRecv NothingWithheld
PROPERTIES ImplementsChannel DeliversEverything OwnPacketsAccepted
CHECK_DEADLOCK FALSE
