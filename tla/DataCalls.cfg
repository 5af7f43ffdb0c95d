SPECIFICATION DataSpec
CONSTANTS
  Mark = Mark
  Frame = Frame
  Trace = Trace
  Letter = Letter
  NoKey = NoKey
  MaxText = 4
  Second = 4
  MaxSecond = 2
  HashBits = 16
  PHPSPY_STR_SIZE = 4
  PHPSPY_MAX_ARRAY_BUCKETS = 2
  KeyChars = {97, 98}
  TableSizes = {2, 4}
  MaxBuf = 12
  MaxArgs = 5
INVARIANTS
  MirrorsAsStated StripExact ClockExact EscapeExact
  LookupFinds ListFits ChildSameOptions
