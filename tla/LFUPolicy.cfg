CONSTANTS
    None = None
    Keys = {a, b, c}
    MaxCount = 4
SPECIFICATION Spec
INVARIANTS TypeOK MinFrequencyIsLowerBound
PROPERTIES EvictsLeastFrequent KeepsContract
