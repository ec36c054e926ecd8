SPECIFICATION MCFairSpec
CONSTANTS
  c1 = c1
  agent = agent
  other = other
  Slots = {agent, other}
  Nobody = nobody
  Conversations = {c1}
  Stateless = stateless
  ProfilesOf <- MCProfiles
  MaxTurns <- MCMaxTurns
  MaxPieces = 3
INVARIANT OneAtATime
INVARIANT StreamWellFormed
INVARIANT OutputAsAnnounced
 
INVARIANT StoreIsHistory
PROPERTY EveryRequestEnds
PROPERTY AnswersInOrder
