SPECIFICATION Spec
CONSTANTS
  Caller = {a1}
  Handler = {h1}
  Call = {c1, c2}
  MaxBurst = 2
  MaxSnapshots = 1
  MaxReigns = 2
INVARIANT AnswersOfThisReign
PROPERTIES StartReturns RpcsAnswered MainReturns
