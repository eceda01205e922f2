CONSTANTS
  s1 = s1  s2 = s2  s3 = s3  h1 = h1  h3 = h3  r1 = r1  r2 = r2  r3 = r3
  Switches = {s1, s2, s3}
  Links <- MCLinks
  Hosts = {h1, h3}
  Routers = {r1, r2, r3}
  HomeOf <- MCHomeOf
  IpPairs <- MCIpPairs
  Answers <- MCAnswers
  Broadcast = Broadcast  None = None
  MaxInFlight = 2
SPECIFICATION Spec
INVARIANTS
  TypeOK
  RulesLead
  HomeKnowsFirst
