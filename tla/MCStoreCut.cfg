CHECK_DEADLOCK FALSE
SPECIFICATION Spec
CONSTANTS
  Names <- MCNames
  Passwords <- MCPasswords
  Blank = ""
  Hash <- MCHash
  Creators = {1}
  Crashes = TRUE
  MaxTokens = 3
  MaxAdded = 0
INVARIANTS
  ValidMeansChosen
