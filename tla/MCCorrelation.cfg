SPECIFICATION Spec
CONSTANTS
  None = None
  Plain = "-"
  All = "*"
  Names <- MCNames
  RuleOrder <- MCRuleOrder
  CorrOrder <- MCCorrOrder
  Fields = {"src", "dst"}
  Groups = {"g", "h"}
  RuleSets <- MCRuleSets
  Events <- MCEvents
  MaxState = 3
  MaxBuffered = 2
  MaxDepth = 10
  MaxTime = 3
  MaxLate = 1
  MaxEvents = 4
  MaxReloads = 1
CHECK_DEADLOCK FALSE
INVARIANTS
  WindowIsReference
  OneBucket
  BufferIsSuffix
  OrderIsExistential
  StateBounded
PROPERTIES
  SuppressionHolds
