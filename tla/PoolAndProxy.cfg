CONSTANTS
  Ports = {p1, p2}
  Tunnels = {t1, t2, t3}
  Links = {l1, l2}
  None = None
  MaxMessages = 2
SPECIFICATION BothSpec
INVARIANTS ListenersAccounted CountedIsDelivered DeliveredInOrder
PROPERTIES NeverReplacesLive LinksEndAfterClose PortFreed CancelEnds HalfCloseEnds
CHECK_DEADLOCK FALSE
