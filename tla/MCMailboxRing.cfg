SPECIFICATION RingSpec
CONSTANTS
    a = a
    b = b
    none = none
    Message = {a, b}
    NoMessage = none
    DefaultSize = 2
    OverloadAt = 1
    MaxLength = 5
INVARIANT Filled
PROPERTIES FifoSpec BacklogWarned
