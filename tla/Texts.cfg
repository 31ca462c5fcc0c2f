SPECIFICATION TextSpec
CONSTANTS
  LineRoom = 5
  TemplateRoom = 10
  JadeRoom = 8
  IncludeRoom = 7
INVARIANTS
  LinesAreRead
  TemplatesKeepTheirText
  IncludesAreRead
CHECK_DEADLOCK FALSE
