SPECIFICATION BoundarySpec
CONSTANTS
  Base <- MCBase
  Semicolon = 2
  Inputs <- MCInputs
  Starts = {0, 3}
  Nul = 0
  Chars = {0, 1, 2}
  Locale <- MCLocale
  Texts <- MCTexts
  TextLists <- MCTextLists
  FilterLists <- MCFilterLists
  FlagLists <- MCFlagLists
  AnyInput <- MCInput
INVARIANTS
  TypeOK
  NoOverread
  DecodesWhatWasSent
  IdsAreWhole
  DecodersAgree
  ThrowsOnTruncation
  BitsArrive
  ArgumentsArrive
  NothingLeaks
  HintsComeFirst
CHECK_DEADLOCK FALSE
