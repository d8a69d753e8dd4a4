SPECIFICATION FairSpec
CONSTANTS
  HEADER_SIZE = 20
  FirstLines <- MCFirstLines
  HeaderLengths <- MCHeaderLengths
  StreamSizes <- MCStreamSizes
  MaxHeaders = 2
  MaxBody = 5
INVARIANTS ResponseTypeOK BodyInOrder Framed HeaderEnds LeftOutOnlyIfFull
PROPERTY WriteReturns
