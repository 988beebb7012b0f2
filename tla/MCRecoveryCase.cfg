SPECIFICATION Spec
CONSTANTS
    first = first second = second
    shape = shape range = range total = total
    person = person agent = agent r1 = r1
    Node = {first, second}
    Detector = {shape, range, total}
    Source <- Sources
    Quarantining = {shape, total}
    Permitting = {shape, range, total}
    Fits <- FitsWhile
    Versioned = TRUE
    Human = {person}
    Agent = {agent}
    Requester = {r1}
    Reopening = TRUE
    MaxRevision <- Revisions
    MaxGrants = 2
INVARIANTS
    PublicationIsAuthorized
    PostureIsEarned
    ParkedRunHasACase
CHECK_DEADLOCK FALSE
