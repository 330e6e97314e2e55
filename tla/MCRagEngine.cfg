SPECIFICATION EngineSpec
CONSTANTS
  Letters = {"A", "a", "b"}
  Digits = {"1"}
  Blanks = {" ", "nl"}
  Marks = {".", ","}
  Symbols = {"="}
  Enders = {"."}
  Point = "."
  Newline = "nl"
  Lower <- MCLower
  Documents <- MCDocuments
  Prompts <- MCPrompts
  Inputs <- MCInputs
  DEFAULT_K = 8
  Chars = {1, 2}
  Width <- MCWidth
  Keys <- MCKeys
  Values = {8, 9}
  NoValue = NoValue
  MaxKeyLen = 3
  JsonLevels = 9
INVARIANTS GraphIsDocuments AnswersVerify
PROPERTIES ImplementsMap
CHECK_DEADLOCK FALSE
