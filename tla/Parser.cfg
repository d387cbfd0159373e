SPECIFICATION Spec
CONSTANT Texts <- MCTexts
INVARIANTS
  Recognises
  TreeReadsLikeText
  Precedence
  LeavesListOnlyUnread
PROPERTY ParseEnds
CHECK_DEADLOCK FALSE
