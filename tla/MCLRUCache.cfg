SPECIFICATION Spec
CONSTANTS
    none = none
    Thread = {t1, t2, t3}
    Id = {1, 2, 4}
    Charge <- ChargeById
    Capacities = {0, 3}
    MaxHandle = 5
SYMMETRY Symmetry
INVARIANTS
    DeletedWhenUnreachable
    ListsMatchHolders
    UsageIsCharge
PROPERTIES
    InsertEvictsEnough
