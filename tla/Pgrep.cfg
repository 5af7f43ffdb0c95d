\* Two workers and two processes, as many as the queue holds, with a trace
\* limit that is reached; a process that exits fails to set up. No symmetry:
\* liveness is checked.
CONSTANTS
  Worker = {w1, w2}
  Pid = {p1, p2}
  MayFail = {}
  opt_num_workers = 2
  opt_trace_limit = 1
  TraceBound = 1
SPECIFICATION FairSpec
INVARIANTS OneOwner CriticalExclusion
PROPERTIES ShutdownCompletes PoolPromise TargetsGetSampled
