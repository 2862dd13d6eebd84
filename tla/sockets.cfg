SPECIFICATION Spec
CONSTANTS
  t1 = t1
  t2 = t2
  s1 = s1
  u1 = u1
  Tcp <- TwoTcp
  Server <- OneServer
  Udp <- OneUdp
  Fds <- ThreeFds
INVARIANTS
  TypeOK
  HandlesApart
  NeverBlocks
  NothingLeaked
PROPERTIES
  OthersStayOpen
