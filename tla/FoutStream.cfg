\* Two threads with three traces between them, whole or of up to two chunks;
\* any write may fail. No symmetry: liveness is checked.
CONSTANTS
  Thread = {t1, t2}
  MaxChunks = 2
  MaxTraces = 3
  WriteFails = TRUE
SPECIFICATION FairSpec
INVARIANT OnlySentStacks
PROPERTY SentGetsCounted
