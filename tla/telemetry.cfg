CONSTANTS
  pair = pair  rule = rule  victim = victim
  syn = syn  udp = udp  ip = ip
  None = None
  s1 = s1
  Switches = {s1}
  Flows = {pair, rule}
  Kind <- MCKind
  DstOf <- MCDstOf
  Labels = {syn, udp}
  Unlabelled = ip
  MaxPackets = 3
  MaxReplies = 2
SPECIFICATION Spec
INVARIANTS
  TypeOK
  NeverOvercounts
  NothingSkipped
  TelemetryAddsUp
PROPERTIES
  NoStaleLabel
