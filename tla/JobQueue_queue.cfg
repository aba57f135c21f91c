SPECIFICATION FairSpec
CONSTANTS
    Jobs = {1, 2, 3}
    NoJob = NoJob
    Types = {"push.send", "email.send", "station.sync"}
    MaxAttempts <- MCMaxAttempts
    MaxRestarts = 1
INVARIANT WorkerOwnsItsJob
PROPERTY WaitingJobSurvivesRestart
