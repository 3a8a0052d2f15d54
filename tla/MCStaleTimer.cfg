CONSTANTS
    Mine = {m1}
    Theirs = {t1}
    None = None
    PageSize = 1
    MaxIncidents = 1
    MaxRetries = 1
SPECIFICATION Spec
PROPERTY OldTimerSparesRetry
