SPECIFICATION Spec
CONSTANTS
  Names <- MCNames
  Passwords <- MCPasswords
  Blank = ""
  Hash <- MCHash
  Creators = {1, 2}
  Crashes = TRUE
  MaxTokens = 4
  MaxAdded = 1
INVARIANTS
  ListSound
  WrittenIsRead
CHECK_DEADLOCK FALSE
