SPECIFICATION Spec
CONSTANTS
  page = page
  part = part
  foot = foot
  note = note
  Gone = Gone
  Files = {page, part, foot, note}
  Watched = {page, part, foot}
  Texts <- SomeTexts
  AbsoluteNames = FALSE
  MaxEdits = 3
INVARIANTS
  ParentsFollowPartials
CHECK_DEADLOCK FALSE
