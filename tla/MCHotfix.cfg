SPECIFICATION FairSpec
CONSTANTS
    Modules <- MCModules
    Objects = {o1, o2}
    Methods <- MCMethods
    Register = "register"
    Chain <- MCChain
    Defs <- MCDefs
    MaxVer = 3
    Broken = TRUE
    Closing = TRUE
    Nil = Nil
INVARIANT HandlersCurrent
PROPERTIES LoadedIsRun NoneStaysBehind
