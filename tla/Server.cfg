SPECIFICATION FairSpec
CONSTANTS
    udp = udp
    doj = doj
    doh = doh
    hole = hole
    MinBackoff = 1
    MaxBackoff = 3
    Listeners = {udp, doj, doh, hole}
    Kind <- AllKinds
INVARIANTS TypeOK BoundSocketHasShortestBackoff StopsOnlyOnSignal
PROPERTIES RetriesBind NotifiedListenerYields
