CHECK_DEADLOCK FALSE
SPECIFICATION FairSpec
CONSTANTS
  Garbage = noise
  NoText = none
  Creds = {alice, stranger, longer}
  ValidCreds = {alice}
  LongCreds = {longer}
  Lines = {l1, l2}
  ExitLines = {l2}
  PubLen = 2
  BodyLen = 2
  MaxLines = 1
  ShortReads = TRUE
  PromptServer = FALSE
  Faults = {"client", "child", "parent"}
INVARIANTS
  TypeOK
  AuthIntegrity
  ExitIsTyped
PROPERTIES
  ChildOutlivesNoClient
