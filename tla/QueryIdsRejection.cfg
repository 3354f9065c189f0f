SPECIFICATION Spec
CONSTANTS
    t1 = t1
    t2 = t2
    Vanity = Vanity
    Cards = Cards
    Tasks <- MCTasks
    NoTask = NoTask
    Queries <- MCQueries
    Ttl = 2
    FailureBackoff = 1
    MaxBuilds = 2
    MaxRestarts = 0
PROPERTIES RejectionForcesDiscovery
