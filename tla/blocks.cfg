SPECIFICATION RulesSpec
CONSTANTS
  c1 = c1
  c2 = c2
  short = short
  long = long
  Callers = {c1, c2}
  Subjects = {short, long}
  Within <- TextWithin
  MaxRules = 3
  MaxFailures = 2
SYMMETRY Symmetry
PROPERTIES
  SiteRuleStays
  ImplementsBlockList
  UnblockIsComplete
