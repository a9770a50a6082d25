SPECIFICATION Spec
CONSTANTS
  x = x
  Object = {o1, o2}
  Buffer = {b1, b2}
  Delim = d
  Char = {x, d}
  NUL = nul
  Text <- ShortTexts
  Plain = {x}
  Comma = comma
  Quote = quote
  EndOfString = nul
  BufSize = 4
  FieldNo = {0, 1, 2, 3}
  Wild <- ShortStrings
  Line <- ShortLines
  Tab = tab
  RouteLine <- ShortRoutes
  Key <- SomeKeys
INVARIANTS TypeOK TokensRight OwnBuffers FieldRight StaysInLine TailRight ByKeyRight
CHECK_DEADLOCK FALSE
