SPECIFICATION FairSpec
CONSTANTS
    Callers = {c1, c2, c3}
    WindowSize = 4
    Num = 1
    Den = 2
PROPERTIES
    CooldownRespected
    RecoversWhenHealthy
