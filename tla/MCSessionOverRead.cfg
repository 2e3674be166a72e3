CHECK_DEADLOCK FALSE
SPECIFICATION Spec
CONSTANTS
  Garbage = noise
  NoText = none
  Creds = {alice, stranger}
  ValidCreds = {alice}
  LongCreds = {stranger}
  Lines = {l1}
  ExitLines = {l1}
  PubLen = 2
  BodyLen = 2
  MaxLines = 1
  ShortReads = FALSE
  PromptServer = FALSE
  Faults = {}
PROPERTIES
  ReadsOnlyPublicKey
