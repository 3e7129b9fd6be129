CONSTANTS
    utf8 = utf8
    edited = edited
    Appliers = {a1, a2}
    Tokens = {t1}
    MaxPlans = 3
    NoCma = NoCma
    Unpatchable = Unpatchable
    Absent = Absent
    Torn = Torn
    Serial = FALSE
    PowerFails = FALSE
    Rests <- MCUtf8
    Lossy <- MCLossyUtf8
SPECIFICATION Spec
CHECK_DEADLOCK TRUE
INVARIANT AppliedHasBackup
