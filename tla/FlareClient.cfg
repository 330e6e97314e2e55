SPECIFICATION ClientSpec
CONSTANTS
    N = 2
    Callers = {a, b}
    Threshold = 2
    Cooldown = 1
INVARIANTS
    NonceReuseNeedsFault
PROPERTIES
    ClientSurvivesOutages
