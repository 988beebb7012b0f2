SPECIFICATION Spec
CONSTANTS
    alice = alice
    bob = bob
    Worker = {w1, w2}
    Actor = {alice, bob}
    Creator = alice
    MaxAttempts = 2
    MaxRequests = 3
    MaxEdits = 2
INVARIANT
    WaitsOnOpenRequest
CHECK_DEADLOCK FALSE
