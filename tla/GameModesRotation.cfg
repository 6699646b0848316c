CONSTANTS
    a = a
    b = b
    bad = bad
    grand = grand
    lvdm = lvdm
    broken = broken
    missing = missing
    Scripts = {a}
    BadScripts = {bad}
    Configured <- const_None
    MaxSlots = 1
    MaxDepth = 2
    Nobody = Nobody
    Blank = Blank
    Modes = {grand, lvdm}
    BadModes = {broken}
    NoModes = {missing}
    ModeLine <- const_ModeLine
SPECIFICATION FairSpec
PROPERTY RotatesAsConfigured
CHECK_DEADLOCK FALSE
