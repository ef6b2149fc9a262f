CONSTANTS
  Principal = "principal"
  Things = {"Rex", "Mia"}
  Kinds = {"dog", "cat"}
  KindOf <- MCKindOf
  Described = {"Rex"}
  Singleton = {"color"}
  Plural = {"capacity"}
  Values = {"v1", "v2"}
  LastDate = 2
  MaxRows = 2
  Texts <- MCTexts
SPECIFICATION Spec
INVARIANTS AbsenceIsTheEngines ReplyKeepsTheStatus YesAndNoAreBacked LastToldIsCurrent
CONSTRAINT OneTable
CHECK_DEADLOCK FALSE
