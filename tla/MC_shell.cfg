\* Up to three lines; two values, two columns, eleven tokens; one signal.
SPECIFICATION Spec
CONSTANTS
  Ident = {"a", "DATABASE", "longword"}
  Number = {"1", "123"}
  String = {"'x'", "'x"}
  MAX_TOKENS = 11
  MAX_VALUES = 2
  MAX_COLUMNS = 2
  LineSize = 14
  QuerySize = 17
  MaxSignals = 1
  Lexemes <- MCLexemes
  Scripts <- MCScripts
  Intents <- MCIntents
INVARIANTS ReplTypeOK IntentAsTyped InterruptTakesOne
PROPERTIES StatementParsed SessionEnds TtyAnswers
