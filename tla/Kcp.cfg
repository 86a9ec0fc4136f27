SPECIFICATION Spec
CONSTANTS
    probe = probe
    host = host
    mtu = 3
    IKCP_OVERHEAD = 1
    IKCP_WND_RCV = 3
    snd_wnd = 2
    rcv_wnd = 2
    MTU_SIZE = 3
    Word = 16
    FirstSn = 15
    MaxCopies = 1
    MaxFaults = 1
INVARIANTS
    NothingLost
PROPERTY
    ImplementsPipe
CHECK_DEADLOCK FALSE
