SPECIFICATION Spec
CONSTANTS
  ann = ann
  bob = bob
  dev = dev
  c1 = c1
  c2 = c2
  Accounts = {ann, bob, dev}
  Delegated = {dev}
  Restorable = {bob}
  Conns = {c1, c2}
  NoOne = NoOne
  Passwords <- Words
  InitialRows <- Rows
  Limits <- Scenes
INVARIANTS CredentialsAreOwn 
PROPERTIES LockReachesServer
CHECK_DEADLOCK FALSE
