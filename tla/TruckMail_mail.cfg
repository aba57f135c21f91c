SPECIFICATION MailFairSpec
CONSTANTS
    NoJob = NoJob
    Types = {"water.truck-mail"}
    MaxAttempts <- MCMaxAttempts
    Nothing = Nothing
    Incomplete = Incomplete
    Failures = {"unset", "host"}
    Jobs = {j1, j2}
    Trucks = {t1}
    Contents = {old}
    MaxRestarts = 1
    MaxVersion = 2
    MaxMails = 2
INVARIANT DocumentsMatchText
INVARIANT MessageIdIsOfSnapshot
INVARIANT UnretriedTruckMailedOnce
PROPERTY AlwaysNoMailAfterAnswer
PROPERTY QueuedTruckUnlocks
