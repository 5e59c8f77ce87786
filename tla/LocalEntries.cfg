SPECIFICATION Spec
CONSTANTS
  Slugs <- MCSlugs
  NoText = NoText
  NoNode = NoNode
  NoRevision = NoRevision
  Unset = Unset
  BadNet = BadNet
  NoAddress = NoAddress
  Garbled = Garbled
  NoUserPass = NoUserPass
  MAX_CHAIN_HOPS = 4
  EVENT_HISTORY = 2
  MaxFlips = 1
  MAX_UNAUTH = 1
  Greetings <- MCGreetings
  SocksRequests <- MCSocksRequests
  Setups <- MCSetups
  Peers <- MCPeers
  OsPorts <- MCOsPorts
INVARIANTS OnlyPermittedPeersGetThrough AcceptedDocumentStarts LateConnectionsAreNotServed 
PROPERTY LocalTasksEnd
CHECK_DEADLOCK FALSE
