\* Every adapter over either backend: records of two ids, two writes, and a
\* call that fails or a process that stops anywhere.
CONSTANTS
    Ids = {"i", "j"}
    Torn = Torn
    Absent = Absent
    MaxWrites = 2
    MaxFaults = 1
SPECIFICATION Spec
CHECK_DEADLOCK FALSE
INVARIANT ListsExactly
PROPERTIES RefinesStore
