SPECIFICATION FairDistSpec
CONSTANTS
    Session = {s1}
    Poller = poller
    Zmq = zmq
    Body = {b1, b2}
    Stalling = {s1}
    Free = free
    MaxJobs = 2
    MaxHeight = 2
    MaxPrev = 2
    MaxTime = 1
    Template <- MCTemplate
PROPERTIES
    TemplateIsServed
CHECK_DEADLOCK FALSE
