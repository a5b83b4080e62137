SPECIFICATION FairSpec
CONSTANTS
    s1 = s1
    s2 = s2
    s3 = s3
    main = main
    u1 = u1
    c1 = c1
    c2 = c2
    nil = nil
    Services = {s1, s2, s3}
    Started = {s1}
    Main = main
    Names = {u1}
    Clients = {c1, c2}
    Quotas <- MCQuotas
    MaxVersion = 2
    Nil = nil
INVARIANT UniqueSound
PROPERTIES EveryLaunchAnswered TableSettles Converges
