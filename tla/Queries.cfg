SPECIFICATION Spec
CONSTANTS
  None = None
  Requests = {"a1", "a2", "b"}
  Users = {"admin", "guest"}
  UserOf <- MCUserOf
  PerUser = 1
  Global = 1
  Readers = 1
  Keys = {"drives"}
  CacheMax = 1
  TTL = 1
  Timeout = 1
  Wait = 1
INVARIANTS
  WorkCapped
  ReadersOwned
PROPERTIES
  AnsweredFresh
  EveryQueryEnds
