SPECIFICATION FairFederationSpec
CONSTANTS
  client1 = client1 client2 = client2
  a1 = a1 b1 = b1 b2 = b2 b3 = b3
  NoClient = NoClient
  Threads <- MCThreads
  Clients = {client1, client2}
  Registered = {client1, client2}
  Docs <- MCDocs
  Owner <- MCOwner
  BucketOf <- MCBucketOf
  MaxCandidates = 1
  GpuMin = 10
  HasGpu = TRUE
  MaxBlock = 2
  MaxMissing = 0
  MaxKeys = 2
  RunDocs <- MCRunDocs
  Trigger = client2
  ReplyIds = 2
  MaxLost = 1
PROPERTIES RunsEnd
INVARIANTS ResultsPaired FederationTypeOK SavedHaveWitness ResultsComplete
CHECK_DEADLOCK FALSE
