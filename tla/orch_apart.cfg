CONSTANTS
  s1 = s1  s2 = s2  h1 = h1  h2 = h2  d1 = d1
  tcp = tcp  udp = udp  p80 = p80  e1 = e1
  Any = Any  None = None
  Switches = {s1}
  Hosts = {h1}
  Dsts = {d1}
  Protos = {tcp, udp}
  L4Ports = {p80}
  Ports = {e1}
  Keys <- Apart
  Flaky = {}
  Late = {}
  MaxPackets = 1
  Locations <- OnePort
  Packets <- NoPackets
  ConfirmCycles = 2
  ReleaseRate <- ReleaseAtOne
  MaxAwaiting = 1
SPECIFICATION Spec
INVARIANTS
  NoOrphanDrop
  Enforced
PROPERTIES
  BooksFollowPolicy
  TablesFollowPolicy
