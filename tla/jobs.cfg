SPECIFICATION DistSpec
CONSTANTS
    Session = {s1}
    Poller = poller
    Zmq = zmq
    Body = {b1, b2}
    Stalling = {s1}
    Free = free
    MaxJobs = 2
    MaxHeight = 2
    MaxPrev = 2
    MaxTime = 3
    Template <- MCTemplate
SYMMETRY Symmetry
INVARIANTS
    DistTypeOK
    JobWindow
    NoMissedJob
    NoStaleWork
PROPERTIES
    IdsAreNeverReused
    BroadcastsInOrder
    BroadcastKeepsWork
