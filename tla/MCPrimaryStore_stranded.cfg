SPECIFICATION FairSpec
CONSTANTS
  Spaces = {s1}
  Conversations = {c1}
  Messages = {m1}
  NoId = NoId
  Attempts = 1
  MaxQueue = 1
  MaxRetry = 1
  Budgets <- MCStrandedBudgets
\* With the budget used up and every push done the program waits for nothing.
CHECK_DEADLOCK FALSE
PROPERTY EventuallyUploaded
