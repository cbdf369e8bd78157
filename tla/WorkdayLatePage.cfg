SPECIFICATION UnattendedSpec
CONSTANTS
  Tasks = {t1}
  Steps = {first, second}
  Fields = {name, letter, gender}
  StepOf <- MCStepOf
  Position <- MCPosition
  Sensitive = {gender}
  Optional = {letter, gender}
  Uploads = {letter}
  MaxSteps = 3
  None = None
  name = name
  letter = letter
  gender = gender
  first = first
  second = second
PROPERTIES
  PassesAreComplete
CHECK_DEADLOCK FALSE
