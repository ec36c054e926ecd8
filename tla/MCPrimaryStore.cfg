SPECIFICATION Spec
CONSTANTS
  Spaces = {s1, s2}
  Conversations = {c1}
  Messages = {m1, m2}
  NoId = NoId
  Attempts = 1
  MaxQueue = 1
  MaxRetry = 1
  Budgets <- MCBudgets
\* With the budget used up and every push done the program waits for nothing.
CHECK_DEADLOCK FALSE
SYMMETRY Symmetry
INVARIANT MapSound
INVARIANT RequestsNameKnown
INVARIANT CleanUploaded
INVARIANT NothingForgotten
INVARIANT OneProject
