CONSTANTS
    DongleSerial <- MCDongleSerial
    InverterSerial <- MCInverterSerial
    a = a
    b = b
    Callers = {a, b}
    Calls <- MCCalls
    Registers = {255, 256}
    Values = {0, 259}
    Counts = {1, 2}
    Others <- MCOthers
    Pushes <- MCPushes
    Lengths = {TRUE, FALSE}
    Chunks = {37, 1024}
    ReadTicks = 1
    WriteTicks = 1
    MaxFrames = 2
    MaxPending = 1
SPECIFICATION Spec
INVARIANTS TypeOK RequestsAreIntact WrittenOnce AnswerIsFresh NoReplyMissed
PROPERTIES LockComesBack
