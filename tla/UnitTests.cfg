CONSTANTS
    None = None
    Keys = {"key", "key1", "key2", "nonexistent"}
    EntrySize = 48
SPECIFICATION Spec
INVARIANT AssertionsHold
