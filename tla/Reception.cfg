SPECIFICATION Spec
CONSTANTS
    root = root
    name = name
    proxy = proxy
    ext = ext
    None = None
    User <- Names
    Ext <- Outside
    Dirs <- ThreeDirs
    Wanted <- Submitted
    Hops = 2
    HopLimit = 1
    MaxOut = 3
INVARIANTS RouteRight AcceptedWhole TaskLast ForwardingEnds AcceptedServed
