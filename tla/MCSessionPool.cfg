SPECIFICATION Spec
CONSTANTS
    NumSessions = 3
    RequestsPerMinute = 1
    Window = 0
    CooldownSeconds = 1
    RetryAfters <- MCRetryAfters
    MaxConsecutiveErrors = 2
    MaxLeases = 1
INVARIANTS TypeOK InService LruOrder
PROPERTIES ReentryAfterRest NoStarvation
