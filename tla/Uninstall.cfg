SPECIFICATION Spec
CONSTANTS
  p1 = p1
  p2 = p2
  s1 = s1
  s2 = s2
  s3 = s3
  here1 = here1
  here2 = here2
  Commands = {here1, here2}
  Written <- UserFiles
  Added = "keybinds"
  MaxEvents = 2
  None = None
  Unparsable = Unparsable
  Absent = Absent
  Project = {p1, p2}
  Legacy = {p1}
  File = {"a", "b"}
  Start = {s1, s2, s3}
  ProjectOf <- Serves
  MaxDeaths = 1
SYMMETRY Alike
CONSTRAINTS OneHalfAtATime TwoStarts
INVARIANTS ReportIsTrue ConfigIsRestored RunsAreWhole
PROPERTIES OthersSurvive LiveStateIsKept
