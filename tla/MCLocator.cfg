SPECIFICATION Spec
CONSTANTS
  Nodes = {n1}
  RemoteServices = {s1}
  MaxConn = 2
  MaxChange = 1
  Absent = Absent
  Pending = Pending
  None = None
  Owners <- MCOwners
  Locals = {"l1", "l2"}
  Service <- MCService
  Location <- MCLocation
  Unversioned = {"bad"}
  Services = {"x", "y", "r"}
  Restricted = {"y"}
  Peers = {"q"}
  MaxStreams = 2
  Nowhere = "nowhere"
  Routings = {"s1", "s2"}
  Ruid <- MCRuid
  Refreshes = {"f1", "f2"}
  Listed <- MCListed
  Groups = {"g", "h"}
  MaxStores = 1
  MaxRouterStreams = 3
  Remotes = {"n1", "n2"}
  MaxDatagrams = 4
  Values = {1, 2, 3}
  MaxWeight = 3
  Hashes = 4
  MaxPoint = 31
  Digest <- MCDigest
INVARIANTS
  NoOrphans FirstLinkUpdates PeersFollow PublishedWhileHeld RoutersCurrent KeysStay
PROPERTIES  DroppedIfSilent
CHECK_DEADLOCK FALSE
