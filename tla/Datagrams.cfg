SPECIFICATION MCSpec
CONSTANTS
  MaxNow = 2
  QUEUE_TTL = 1
  IDLE = 2
  MAX_QUEUED = 1
  MAX_QUEUED_BYTES = 2
  Sizes = {1}
  c1 = c1
  c2 = c2
  x = x
  ip = ip
  name = name
  other = other
  denied = denied
  Permitted = {ip, other}
  Sources <- MCSources
  Allowed = {c1, c2}
  Targets = {ip, name}
  Domains = {name}
  AddressesOf <- MCAddressesOf
  MAX_TARGETS = 2
  None = None
  Loads <- MCLoads
  Routes = {1, 2}
  Locals = {s1, s2}
  Limits <- MCLimits
  Tasks = {1, 2}
  MaxIngests = 2
  MaxReturns = 1
  Nobody = Nobody
INVARIANTS
  
  EveryDropIsCounted
  

  
CHECK_DEADLOCK FALSE
