SPECIFICATION FairSpec
CONSTANTS
  rd = rd
  w1 = w1
  w2 = w2
  Req = {rd}
  Reads = {rd}
  Blocks = {rd}
  RegOf <- MCRegOf
  InputBlocks = {0}
  Conn = {c1}
  CancelIn = {"wait1", "wait2"}
  MaxStream = 1
  Idle = Idle
  NoReq = NoReq
PROPERTIES PollsResume
