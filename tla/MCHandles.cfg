SPECIFICATION Spec
CONSTANTS
    c1 = c1
    c2 = c2
    c3 = c3
    l1 = l1
    l2 = l2
    l3 = l3
    main = main
    none = none
    Contexts = {c1, c2, c3}
    Launchers = {l1}
    Aborters = {main}
    Names = {1, 2}
    HandleMask = 31
    DefaultSize = 1
    MaxRegister = 4
    NULL = none
INVARIANTS LookupsRight NoClash
PROPERTIES LeavesWhole RetireAllComplete
CHECK_DEADLOCK FALSE
