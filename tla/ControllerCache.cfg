SPECIFICATION Spec
CONSTANTS
  a = a
  b = b
  lo = lo
  hi = hi
  c1 = c1
  c2 = c2
  Client = {c1, c2}
  Reg = {a, b}
  Field = {lo, hi}
  Ranges <- MCRanges
  Block <- MCBlock
  Served <- MCServed
  Item <- MCItems
  May <- MCMay
  MayFail = {c1}
  None = None
INVARIANTS CacheFollowsWrites
PROPERTIES WriteKeepsOtherBits
