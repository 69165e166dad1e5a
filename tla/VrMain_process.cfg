CONSTANTS
    Roms = {r1, r2}
    SaveSlots = {s1}
    Inputs = {"menu", "save", "quit", "rom", "state"}
    Stops = {"stop", "exit", "loss", "instance_loss"}
    Faults = {"write", "kill", "spawn", "missing", "start", "begin", "wait", "blit", "throw"}
    NumFrames = 2
    MaxEvents = 2
SPECIFICATION FairSpec
INVARIANT SessionCallsPaired
PROPERTIES RelaunchAsAsked MenuPauses
CHECK_DEADLOCK FALSE
