CONSTANTS
    None = None
    Keys = {a, b, c}
    MaxLength = 8
    MaxEvictions = 4
SPECIFICATION Spec
INVARIANTS TypeOK ExactUntilEvicted IndexNeverBehind LengthBound
PROPERTY OlderEntriesKeepPlace
