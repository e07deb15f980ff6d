CONSTANTS
  Requests = {r1, r2}
  Targets <- Paths
  MaxTokens = 2
  AllowOverwrite = TRUE
  Asked <- Wanted
SPECIFICATION Spec
SYMMETRY Symmetry
PROPERTIES LocksHold AnswersTrue
