SPECIFICATION Spec
CONSTANTS
    Modules <- MCModules
    Objects = {o1}
    Methods <- MCMethods
    Register = "register"
    Chain <- MCChain
    Defs <- MCDefs
    MaxVer = 3
    Broken = TRUE
    Closing = FALSE
    Nil = Nil
PROPERTY DoneMeansUpdated
