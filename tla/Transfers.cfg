SPECIFICATION FairSpec
CONSTANTS
  w = w  b = b  c = c
  Locations = {w, b, c}
  Products = {"p"}
  Null = Null
  Guess <- MCGuess
  Asked = {"sells", "enroute"}
  Askers = {"a1", "a2"}
  Opening <- MCOpening
  MaxUnits = 2
  Budgets <- MCBudgets
  Editors = {"e1", "e2"}
  Resizers = {"r1", "r2"}
INVARIANTS TypeOK AnswerSticks FiguresFollowRoles NeverOverPromised
PROPERTIES FiguresRecover FinalStays
