SPECIFICATION FairSpec
CONSTANTS
  rd = rd
  w1 = w1
  w2 = w2
  Req = {rd}
  Reads = {rd}
  Blocks = {rd}
  RegOf <- MCRegOf
  InputBlocks = {0}
  Conn = {c1, c2}
  CancelIn = {"wait1"}
  MaxStream = 1
  Idle = Idle
  NoReq = NoReq
PROPERTIES PollsResume ImplementsExchange
