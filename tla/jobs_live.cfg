SPECIFICATION FairDistSpec
CONSTANTS
    Session = {s1}
    Poller = poller
    Zmq = zmq
    Body = {b1, b2}
    Stalling = {}
    Free = free
    MaxJobs = 2
    MaxHeight = 2
    MaxPrev = 2
    MaxTime = 2
    Template <- MCTemplate
PROPERTIES
    TemplateReachesMiners
