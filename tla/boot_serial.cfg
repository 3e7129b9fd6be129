CONSTANTS
    utf8 = utf8
    edited = edited
    Appliers = {a1}
    Tokens = {t1, t2}
    MaxPlans = 4
    NoCma = NoCma
    Unpatchable = Unpatchable
    Absent = Absent
    Torn = Torn
    Serial = TRUE
    PowerFails = TRUE
    Rests <- MCUtf8
    Lossy <- MCLossyUtf8
SPECIFICATION Spec
CHECK_DEADLOCK TRUE
SYMMETRY MCTokenSymmetry
INVARIANTS TypeOK BackupHoldsItsHash AppliedHasBackup
PROPERTY Implements
