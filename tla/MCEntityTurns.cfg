SPECIFICATION Spec
CONSTANTS
  Threads = {t1, t2}
  Users = {u1, u2}
  Names = {n1}
  Types = {thing, vehicle, person}
  Root = thing
  Vehicle = vehicle
  Person = person
  NoType = NoType
  Self = Self
  Anonymous = Anonymous
  Car = Car
  None = None
  MaxEntities = 3
  Kinds = {"self", "named", "possessive", "contextual", "id"}
  SharedKinds = {"self", "named"}
SYMMETRY Symmetry
CONSTRAINT Bounded
INVARIANTS KnowledgeStaysHome SelfIsOne NameIsTheKey
