SPECIFICATION Spec
CONSTANTS
    NumSessions = 2
    RequestsPerMinute = 1
    Window = 0
    CooldownSeconds = 1
    RetryAfters <- MCRetryAfters
    MaxConsecutiveErrors = 2
    t1 = t1
    t2 = t2
    NoTask = NoTask
    Tasks <- MCTasks
    MaxRetries = 1
    MaxRedirects = 1
    MaxConcurrent = 1
PROPERTIES HopKeepsSession
