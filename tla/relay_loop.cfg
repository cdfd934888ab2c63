CONSTANTS
    Clients = {c1, c2}
    Flows = {f1, f2}
    TcpKeys = {tcp}
    UdpKeys = {}
    Ipv6Keys = {v6}
    Tokens = {t1, t2, t3, t4, t5}
    Listener = Listener
    None = None
SPECIFICATION FairSpec
INVARIANTS NoPanic EventFindsItsHandler OpenMeansRouted OnlyIpv6Leaks AcceptQueueWatched
PROPERTIES QueuedClientServed ClosedIsDropped
