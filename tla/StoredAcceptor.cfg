CONSTANTS
    None = None
    MaxEntry = 2
    Troubles = {{"save"}, {"save", "evict"}, {"load"}, {"fresh"}}
    MaxPid = 2
    Vid = {1}
    MaxCrash = 1
SPECIFICATION Spec
INVARIANTS VoteOnDisk LagKnown
PROPERTIES NeverBelow ChosenDurable RecoveredAll
