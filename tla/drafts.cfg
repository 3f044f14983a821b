\* Three clients on one draft, late requests and lost answers.
CONSTANTS
    alice = alice
    bob = bob
    guest = guest
    Clients = {alice, bob, guest}
    NoActor = NoActor
    Actor <- MCActor
    MaxDrafts = 1
    MaxMarks = 2
    MaxRequests = 5
    MaxTimeouts = 1
SPECIFICATION Spec
INVARIANTS
    VersionNamesContent
PROPERTIES
    NoBlindOverwrite
    
