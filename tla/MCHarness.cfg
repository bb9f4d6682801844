SPECIFICATION Spec
CONSTANTS
  Writers = {w1, w2}
  Projects = {p1, p2}
  Names = {"tdd-first"}
  SeededRule = "tdd-first"
  Texts = {"template", "custom"}
  Template = "template"
  SkillNames <- OneSkill
  MaxStarts = 2
  MaxRequests = 3
CHECK_DEADLOCK FALSE
SYMMETRY Symmetry
INVARIANTS TypeOK NothingOfDeletedProjects SeedingReachesEveryProject WrittenContextIsUsed
