SPECIFICATION MCSpec
CONSTANTS
  ConversationId = {c1, c2}
  Title = {untitled}
  DefaultTitle = untitled
  MaxConversations = 2
  MaxStates = 3
  MaxMessages = 3
  AutoCall = auto
  SaveCalls = {save}
  Faults = {"refused", "lost"}
  StartOutcomes = {"ready", "failed"}
  MayRestart = TRUE
  Answers = {2}
  MaxSpaces = 3
SYMMETRY Symmetry
INVARIANT MapsSound
INVARIANT ParentFirst
INVARIANT CleanUploaded
INVARIANT Readable
INVARIANT ProjectsAreFew
