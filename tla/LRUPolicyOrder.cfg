CONSTANTS
    None = None
    Keys = {a, b, c}
    MaxLength = 5
    MaxEvictions = 2
SPECIFICATION Spec
PROPERTY EvictsLeastRecent
