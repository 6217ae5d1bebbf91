SPECIFICATION Spec
CONSTANTS
    Offers <- MCTlsOffers
    Mechanisms <- MCPlain
    MaxRejects = 0
    MaxRestarts = 1
PROPERTIES RestartLogsIn
CHECK_DEADLOCK FALSE
