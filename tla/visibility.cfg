SPECIFICATION FairSpec
CONSTANTS
    restore1 = restore1 restore2 = restore2 archive1 = archive1 NoOp = NoOp
    Ops = {restore1, restore2, archive1}
    Action <- ActionOf
    MaxChanges = 2
    MaxFailures = 2
CHECK_DEADLOCK FALSE
INVARIANTS
    DoneWasVisible
PROPERTIES
    NewestDecides
    AcceptedSettles
