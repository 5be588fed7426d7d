SPECIFICATION RateFairSpec
CONSTANTS
  Ip = {a, b}
  Handler = {h1, h2}
  Number = {1, 2, 3}
  NoIp = NoIp
  NoBucket = NoBucket
  Request <- MCRequest
  Cost = 2
  Burst = 1
  IdleTime = 2
PROPERTIES KeepsTheRate GetIsCurrent IdleAreEvicted
