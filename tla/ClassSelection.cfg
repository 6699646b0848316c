CONSTANTS
    c1 = c1
    c2 = c2
    Skins <- const_Skins
    Offers <- const_Offers
    NoClass = NoClass
    Garbage = Garbage
    Nothing = Nothing
    MaxSent = 1
    MaxOrders = 1
SPECIFICATION Spec
INVARIANTS
    TypeOK
    ClassAgrees
    NobodyStuck
CHECK_DEADLOCK FALSE
