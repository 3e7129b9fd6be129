CONSTANTS
    Frames = 4
    Settings <- MCSettings
    Elapsed = {1, 6}
    Slack = 1
    None = None

SPECIFICATION Spec
INVARIANTS
    TypeOK
    NoFrameLost
    LastFrameSent
    NeverBeforeItsTime
    SentFramesAreFresh
    AdaptiveKeepsUp
    KeepsPace

CHECK_DEADLOCK FALSE
