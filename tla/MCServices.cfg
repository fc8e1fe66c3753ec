SPECIFICATION Spec
CONSTANTS
  Listeners = {"locator", "logging"}
  Slots <- MCSlots
  MaxInvokes = 3
  Instances = {"i1", "i2", "i3"}
  Subjects = {"c1", "u1", "u2"}
  Scope <- MCScope
  Methods = {"get"}
  MaxEdits = 3
  Plugged <- MCPlugged
  Bits = 3
  PortBits = 2
  Directories = {"/var/run/cocaine"}
  Nodes = {"a", "b", "c", "d"}
  Installed <- MCInstalled
  Refused = {6}
  Calls <- MCCalls
  Categories = {"system", "node", "docker", "other", "net", "lost"}
  Requests <- MCRequests
  Request <- MCRequest
  Collections = {"data", ".collection-acls"}
  Names = {"k", "t", "u", "data", "storage-acls"}
  AclCollection = ".collection-acls"
  AclTag = "storage-acls"
  MaxCrashes = 1
INVARIANTS
   EndsAgree ValuesKept ConfigFollowed
  CodeLoaded  EveryEventOnce  AclFollowsTree
PROPERTIES FindExact 
CHECK_DEADLOCK FALSE
