SPECIFICATION FairSpec
CONSTANTS
  page = page
  part = part
  foot = foot
  note = note
  Gone = Gone
  Files = {page, part, foot, note}
  Watched = {page, part, foot}
  Texts <- SomeTexts
  AbsoluteNames = TRUE
  MaxEdits = 3
INVARIANTS
  ParentsFollowPartials
PROPERTIES
  NeverOlder
  ComesToRest
CHECK_DEADLOCK FALSE
