SPECIFICATION FairSpec
CONSTANTS
    a = a
    b = b
    outside = outside
    Services = {a, b}
    Outside = outside
    NCo = 4
    Fronts = {a}
    Budgets <- AnyWork
INVARIANTS SessionsSound NoCallForgotten QueueExclusion
PROPERTIES EveryCallEnds QueuesDrain
CHECK_DEADLOCK FALSE
