CONSTANTS
    Clients = {c1}
    Flows = {f1}
    TcpKeys = {tcp}
    UdpKeys = {}
    Ipv6Keys = {v6}
    Tokens = {t1, t2, t3}
    Listener = Listener
    None = None
SPECIFICATION Spec
INVARIANT NoHandlerLeaks
