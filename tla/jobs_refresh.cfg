SPECIFICATION DistSpec
CONSTANTS
    Session = {s1}
    Poller = poller
    Zmq = zmq
    Body = {b1, b2}
    Stalling = {}
    Free = free
    MaxJobs = 3
    MaxHeight = 2
    MaxPrev = 2
    MaxTime = 1
    Template <- MCTemplate
PROPERTIES
    RefreshKeepsWork
