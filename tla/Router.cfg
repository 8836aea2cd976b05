SPECIFICATION Spec
CONSTANTS
  Callers = {g1, g2}
  Names <- MCNames
  Patterns <- MCPatterns
  Added = {x}
  MaxChanges = 1
  NoRoute = NoRoute
  NoWriter = NoWriter
SYMMETRY Symmetry
INVARIANTS TypeOK CacheCoherent AnswerWasCurrent RoutedAsConfigured
