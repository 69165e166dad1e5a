CONSTANTS
    N = 5
    Items = {i1, i2}
    NoItem = none
    MaxLen = 2
SPECIFICATION Spec
INVARIANTS LevelsLinked NoWildPointer
PROPERTY ImplementsReadyQueue
