SPECIFICATION CodecSpec
CONSTANTS
    MaxByte = 3
    MaxRun = 2
    RawCap = 6
    Bodies <- MCDownBodies
    MaxFrames = 1
    MaxFaults = 0
INVARIANT IntactFramesArrive
CHECK_DEADLOCK FALSE
