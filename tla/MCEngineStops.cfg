SPECIFICATION EngineFairSpec
CONSTANTS
  Sessions = {s1}
  Attachers = {a1}
  MaxFd = 2
  Null = Null
PROPERTY Stops
