SPECIFICATION FairSpec
CONSTANTS
  Tasks = {t1}
  Steps = {first, second}
  Fields = {name, letter, gender}
  StepOf <- MCStepOf
  Position <- MCPosition
  Sensitive = {gender}
  Optional = {letter, gender}
  Uploads = {letter}
  MaxSteps = 2
  None = None
  name = name
  letter = letter
  gender = gender
  first = first
  second = second
CONSTRAINT Postings
INVARIANTS
  TypeOK
  ApprovedValuesOnly
PROPERTIES
  StandingPagesAreComplete
  TasksEnd
CHECK_DEADLOCK FALSE
