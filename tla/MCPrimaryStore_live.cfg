SPECIFICATION FairSpec
CONSTANTS
  Spaces = {s1}
  Conversations = {c1}
  Messages = {m1, m2}
  NoId = NoId
  Attempts = 1
  MaxQueue = 1
  MaxRetry = 1
  Budgets <- MCLiveBudgets
\* With the budget used up and every push done the program waits for nothing.
CHECK_DEADLOCK FALSE
PROPERTY UploadedUnlessLost
