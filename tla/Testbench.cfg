SPECIFICATION Spec
CHECK_DEADLOCK FALSE
CONSTANTS
    CmdBytes = 2
    RespBytes = 2
    SockBytes = 2
    EarlyQuit = FALSE
    Pins = {p1, p2}
    UartPeriod = 2
    Bits = 2
    WordBits = 4
    IntBits = 3
    Inputs = 2
    Outputs = 1
    JtagPeriod = 2
    GpioPeriod = 2
    Horizon = 3
    Wrap = 4
    ResetTime = 1
    Bytes <- MCBytes
    MaxSent = 3
    MaxBytes = 2
    MaxChanges = 2
    MaxConns = 2
    Ending = {"none", "jtag"}
INVARIANTS
    Conserved
    LockStep
    EndsWell
    TraceWindow
    UartBytes
PROPERTIES
    GpioBatch
    GpioConverges
    Answered
    Quits
