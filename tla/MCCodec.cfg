SPECIFICATION CodecSpec
CONSTANTS
    MaxByte = 3
    MaxRun = 2
    RawCap = 6
    Bodies <- MCBodies
    MaxFrames = 3
    MaxFaults = 1
INVARIANTS
    IntactFramesArrive
    EveryByteSurfaces
CHECK_DEADLOCK FALSE
