CONSTANTS
    Roms = {r1, r2}
    SaveSlots = {s1}
    Inputs = {"menu", "rom", "state"}
    Stops = {}
    Faults = {}
    NumFrames = 2
    MaxEvents = 1
SPECIFICATION FairSpec
PROPERTY LoadExits
CHECK_DEADLOCK FALSE
