SPECIFICATION Spec
CONSTANTS
    Senders = {s1, s2, edit}
    Silent = {edit}
    MaxNotes = 2
    MaxFaults = 0
    MaxRestarts = 0
INVARIANTS
    WaitsOnlyWhenEmpty
