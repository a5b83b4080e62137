SPECIFICATION FairSpec
CONSTANTS
    snlua = snlua
    gate = gate
    w1 = w1
    w2 = w2
    timer = timer
    None = None
    Services = {snlua, gate}
    Workers = {w1, w2}
    Outside = {timer}
    NoService = None
    Boot <- MCBoot
    BootMail <- MCBootMail
    Weight <- MCWeight
    MaxSend = 2
INVARIANTS OnePlace RefCounts MemorySafe
PROPERTIES ActorSpec Served Reclaimed
CHECK_DEADLOCK FALSE
