SPECIFICATION OutboxSpec
CONSTANTS
    e1 = e1
    e2 = e2
    e3 = e3
    Event = {e1, e2, e3}
    PartitionKey <- MCPartitionKey
    Relay = {r1, r2}
    BatchSize = 2
    MaxFailures = 2
CHECK_DEADLOCK FALSE
INVARIANT RetryAttemptIsRecorded
