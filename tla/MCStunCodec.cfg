SPECIFICATION FairSpec
CONSTANTS
  ByteXor <- MCXor
  MaxAttributes = 3
  Datagrams <- MCDatagrams
  Requests <- MCRequests
INVARIANT DecodesTheMeaning
INVARIANT EncodesTheRequest
PROPERTY CallReturns
CHECK_DEADLOCK FALSE
