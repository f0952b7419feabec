\* Three user ids, two of one name; two API keys and an environment key.
CONSTANTS
  Users = {u1, u2, u3}
  Names = {"admin", "other"}
  NameOf <- NameOfId
  First = u1
  Present = {u2}
  Admins = {u1, u2}
  Requests = {r1, r2}
  Ops = {"login", "password", "setup", "confirm", "cli", "create", "delete", "call"}
  NoCookie = NoCookie
  MaxAttempts = 2
  MaxTotp = 1
  MaxCodes = 1
  MaxRequests = 3
  MaxFaults = 1
  MaxRestarts = 1
  Ids = {e1, k1, k2}
  Raws = {env, k1, k2}
  EnvRaw = env
  None = None
  RawOf <- RawOfId
  Clients = {c1, c2}
  MaxPerTenant = 2
  KeyRpm = 2
  TenantRpm = 2
  IngestKeyRpm = 1
  MaxConcurrent = 1
  MaxArrivals = 2
  MaxWindows = 1
  MaxKeyFaults = 1
  MaxKeyRestarts = 1
SPECIFICATION AccessSpec
SYMMETRY AccessSymmetry
CHECK_DEADLOCK FALSE
INVARIANT SessionsSound
INVARIANT UpdatesSurvive
INVARIANT KeysSound
PROPERTY IssuedIsCurrent
