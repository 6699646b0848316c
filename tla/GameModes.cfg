CONSTANTS
    a = a
    b = b
    bad = bad
    grand = grand
    lvdm = lvdm
    broken = broken
    missing = missing
    Scripts = {a, b}
    BadScripts = {bad}
    Configured <- const_Configured
    MaxSlots = 3
    MaxDepth = 3
    Nobody = Nobody
    Blank = Blank
    Modes = {grand, lvdm}
    BadModes = {broken}
    NoModes = {missing}
    ModeLine <- const_ModeLine
SPECIFICATION Spec
INVARIANTS
    TypeOK
    NamesMatch
    OneCopy
    ConfiguredLoaded
PROPERTIES
    RunsMode
CHECK_DEADLOCK FALSE
