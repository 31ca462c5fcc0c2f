SPECIFICATION Spec
CONSTANTS
  a = a
  b = b
  id = id
  name = name
  c1 = c1
  Clients = {c1}
  Lines <- SomeLines
  Files <- SomeFiles
  WildPaths = {id, name}
  Methods = {"GET", "HEAD"}
  Urls = {a, b}
  NoRoute = NoRoute
  Current = Current
  MaxRoutes = 2
INVARIANTS
  TableIsDeclaration
  NeverMisroutes
  AnswersAreRight
  LinesSurvive
  RefreshHeals
CHECK_DEADLOCK FALSE
