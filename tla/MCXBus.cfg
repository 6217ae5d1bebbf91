SPECIFICATION Spec
CONSTANTS
    Offers <- MCOffers
    Mechanisms <- MCMechanisms
    MaxRejects = 5
    MaxRestarts = 1
INVARIANTS TypeOK TakesTurns PresenceOnce TlsBeforeAuth
PROPERTIES LoginCompletes LogsInInOrder
CHECK_DEADLOCK FALSE
