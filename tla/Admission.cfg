CONSTANTS
  a1 = a1
  a2 = a2
  a3 = a3
  n1 = n1
  n2 = n2
  p1 = p1
  p2 = p2
  t1 = t1
  t2 = t2
  Tasks = {t1, t2}
  Auths = {a1, a2, a3}
  Nodes = {n1, n2}
  NodeOf <- MCNodeOf
  TsOf <- MCTsOf
  Proofs = {p1, p2}
  SessionOf <- MCSessionOf
  ExpiresOf <- MCExpiresOf
  TICKS = 2
  W = 1
  TOLERANCE = 1
  MARGIN = 1
  PerNodeMax = 1
  GlobalMax = 2
  BIND_NONCE_MAX = 1
  PRUNE_INTERVAL = 2
  BIND_PROOF_TTL_SECS = 1
  SessionTtl = 2
  Loads <- MCLoads
  Steps <- Backwards
  Start = 4
  MaxTime = 12
SPECIFICATION Spec
INVARIANTS
  
  ValidProofIsRemembered
 
SYMMETRY Alike
