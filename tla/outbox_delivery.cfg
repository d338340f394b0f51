CONSTANTS
    Events = {e1}
    Workers = {w1, w2}
    NoEvent = NoEvent
    Batch = 1
    MaxAttempts = 3
    MaxFaults = 1
    MaxRetries = 1
SPECIFICATION Spec
INVARIANTS TypeOK AttemptsApart DeliveredWasAccepted ExhaustedWasTried
PROPERTY QueueDrains
CHECK_DEADLOCK FALSE
