SPECIFICATION OneCalculatorSpec
CONSTANTS
  t1 = t1 t2 = t2 t3 = t3 client1 = client1 client2 = client2 stranger = stranger
  a1 = a1 a2 = a2 a3 = a3 b1 = b1 b2 = b2 x1 = x1
  NoClient = NoClient
  Threads = {t1, t2}
  Clients = {client1, client2}
  Registered = {client1, client2}
  Docs <- TwoDocs
  Owner <- TwoOwner
  BucketOf <- SameBucket
  MaxCandidates = 100000
  GpuMin = 10
  HasGpu = TRUE
  MaxBlock = 2
  MaxMissing = 0
  MaxKeys = 1
INVARIANTS NothingLost
