CONSTANTS
  c1 = c1
  c2 = c2
  s1 = s1
  a = a
  b = b
  Clients <- MCClients
  Servers <- MCServers
  Data <- MCData
  MaxQueued = 2
SPECIFICATION Spec
INVARIANTS
  TypeOK
  NoLostWakeUp
PROPERTIES
  ImplementsLink
  QueuedIsTaken
  DisconnectReleases
