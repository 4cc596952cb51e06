SPECIFICATION FairSpec
CONSTANTS
  t1 = t1 t2 = t2
  client1 = client1 client9 = client9
  k1 = k1 k2 = k2
  Threads = {t1, t2}
  Clients = {client1, client9}
  Defaults = {client1}
  Keys = {k1, k2}
  NumFiles = 2
  NoClient = NoClient
  Nobody = Nobody
  MaxRequests = 3
  MaxChanges = 2
  MaxUpdates = 2
INVARIANTS LogAccounts RegistrationLasts
PROPERTIES RequestsEnd
CHECK_DEADLOCK FALSE
