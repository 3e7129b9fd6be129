CONSTANTS
    utf8 = utf8
    edited = edited
    Appliers = {a1, a2}
    Tokens = {t1}
    MaxPlans = 2
    NoCma = NoCma
    Unpatchable = Unpatchable
    Absent = Absent
    Torn = Torn
    Serial = FALSE
    PowerFails = TRUE
    Rests <- MCEdited
    Lossy <- MCLossyEdited
SPECIFICATION Spec
CHECK_DEADLOCK TRUE
SYMMETRY MCSymmetry
VIEW MCWithoutHistory
INVARIANTS OnlyReviewedContent TargetNeverTorn
