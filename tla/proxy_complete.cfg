CONSTANTS
    x1 = x1
    x2 = x2
    Chunks <- MC_Chunks
    MaxChunks = 2
SPECIFICATION Spec
PROPERTY ConnectionCompletes
CHECK_DEADLOCK FALSE
