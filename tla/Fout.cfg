\* Chunks hold 5 bytes, later 4: a record of 5 bytes fits in the first two
\* chunks and no longer after that, one of 8 in none. The buffer grows once.
CONSTANTS
  opt_fout_buffer_size = 8
  FoutMaxBuffer = 15
  MarkerLen = 2
  TailLen <- MCTailLen
  BodyLen = {1, 4, 7}
  MemoryFails = FALSE
  OfferBound = 16
SPECIFICATION Spec
INVARIANTS BufferFits WellFormedChunks NoSilentLoss OneSentinel TruncatedForCause
PROPERTIES PrefixOnly
