\* Three requests for two texts, so that one holds the lock, others wait, and a
\* request may find a part of what it asks for.
CONSTANTS
  Requests = {r1, r2, r3}
  Texts = {t1, t2}
  None = None
  MaxTimeouts = 1
  MaxRestarts = 1
SPECIFICATION FairSpec
CHECK_DEADLOCK FALSE
INVARIANT CacheSound
INVARIANT IdsSound
PROPERTY EmbeddingKept
PROPERTY RequestEnds
