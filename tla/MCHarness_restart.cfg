SPECIFICATION Spec
CONSTANTS
  Writers = {w1}
  Projects = {p1}
  Names = {"tdd-first"}
  SeededRule = "tdd-first"
  Texts = {"template", "custom"}
  Template = "template"
  SkillNames <- MCSkillNames
  MaxStarts = 2
  MaxRequests = 0
CHECK_DEADLOCK FALSE
PROPERTY StartIsIdempotent
