SPECIFICATION FairSpec
CONSTANTS
  ERR = ERR
  Meta = Meta
  Nobody = Nobody
  Plain = Plain
  Daemon = Daemon
  alice = alice
  far = far
  client = client
  web = web
  conn = conn
  LocalUser = {alice}
  Outsider = {far}
  Thread <- MCThread
  Session <- MCSession
  WebThread = {web}
  Conn <- MCConn
  Box <- MCBox
  Dialogue <- MCDialogue
  MaxFaults = 1
  Time = {1}
  Limit <- MCLimit
INVARIANTS
  LocalRecipientsExact
  
  DataHasRecipient
  
  AckedIsListed
  
  ListMatchesBodies
PROPERTIES
  ImplementsMailboxSpec
  
CHECK_DEADLOCK FALSE
