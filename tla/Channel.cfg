CONSTANTS
  c1 = c1
  c2 = c2
  Channels <- MCChannels
  Types <- MCTypes
  Kinds <- MCKinds
  MaxCalls <- MCCalls
  MaxMessages <- MCMessages
  MaxNotes <- MCNotes
  MaxMem = 1
  NoChannel = NoChannel
SPECIFICATION LiveSpec
PROPERTY NotesInOrder CallsReturn
INVARIANTS RefsAreExact FramesAreOnTheStack AnswersOwnRequest
CHECK_DEADLOCK FALSE
