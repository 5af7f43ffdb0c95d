\* A path of each kind; processes of the same or of different versions;
\* descriptors that run out after a leak. A thread stops after MaxAttach processes.
SPECIFICATION Spec
CONSTANTS
  Threads = {t1, t2}
  Pids = {p1, p2}
  Versions = {"74", "84"}
  MaxFd = 4
  MaxAttach = 2
SYMMETRY Symmetry
CHECK_DEADLOCK FALSE
INVARIANTS OutputStaysOpen OnlyFailuresLeak OwnOutputLost LayoutMatches QuietCounts
