SPECIFICATION Spec
CONSTANTS
  Calls <- AllCalls
  OutTexts <- LongTexts
  ErrTexts <- ShortTexts
INVARIANTS TypeOK PiecesDoNotMatter NoUnwantedStderr
