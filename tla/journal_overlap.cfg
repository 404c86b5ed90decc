SPECIFICATION Spec
CONSTANTS
    p1 = p1 p2 = p2
    direct = direct confirm = confirm confirm2 = confirm2 action = action
    run = run aiRun = aiRun incident = incident
    restore = restore native = native archive = archive
    NoProc = NoProc NoOp = NoOp
    Procs = {p1, p2}
    Ops = {direct, confirm, confirm2, action, run, aiRun, incident, restore, native, archive}
    Kind <- KindOf
    LegacyArchive = archive
    Sites <- Overlap
    MaxStarts = 5
CHECK_DEADLOCK FALSE
INVARIANTS
    NeverStranded
