SPECIFICATION Spec
CONSTANTS
  ConversationId = {c1, c2, c3, c4}
  Title = {untitled}
  DefaultTitle = untitled
  MaxConversations = 3
  MaxStates = 5
  MaxMessages = 5
SYMMETRY Symmetry
INVARIANT OrderMatchesMap
INVARIANT EvictsAsTheLoop
PROPERTY DirtyEvictedLast
PROPERTY CreatedStays
