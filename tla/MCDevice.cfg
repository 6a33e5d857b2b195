SPECIFICATION FairSpec
CONSTANTS
    Thread = {t1, t2}
    AllowDeviceOnly = TRUE
    MaxFaults = 2
    MaxResets = 1
INVARIANTS FilesAgree ToldMeansEnrolled SessionsAgree
PROPERTIES NeverTurnedAway Settles
