SPECIFICATION MCSpec
CONSTANTS
  c1 = c1
  agent = agent
  other = other
  Slots = {agent, other}
  Nobody = nobody
  Conversations = {c1}
  Stateless = stateless
  ProfilesOf <- MCProfiles
  MaxTurns <- MCMaxTurns
  MaxPieces = 1
INVARIANT NothingStoredTwice
