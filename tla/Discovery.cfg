SPECIFICATION Spec
CONSTANTS
  Session = {x1}
  Account = {t1, t2}
  Handler = {h1}
  Text = {text1, text2}
  Archetype = {a1, a2}
  MaxLinks = 2
SYMMETRY Interchangeable
INVARIANTS StagesBuildOnEachOther CompletedHasProject
  SubmitterFindsProject
CHECK_DEADLOCK FALSE
