\* No limit; a character stays in the world when its client is lost.
SPECIFICATION Spec
CONSTANTS
  s1 = s1
  s2 = s2
  s3 = s3
  a1 = a1
  a2 = a2
  c1 = c1
  WorldSessions = {s1, s2, s3}
  Accounts = {a1, a2}
  Characters = {c1}
  AccountOf <- MCAccountOf
  BelongsTo <- MCBelongsTo
  GameMasters = {s2}
  Configs <- MCLinger
  NoSession = NoSession
  NoCharacter = NoCharacter
  MaxVersion = 1
  MaxLoads = 2
INVARIANT
  NothingForgotten
\* A world that has shut down stops.
CHECK_DEADLOCK FALSE
