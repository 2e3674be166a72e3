CHECK_DEADLOCK FALSE
SPECIFICATION FairSpec
CONSTANTS
  Garbage = noise
  NoText = none
  Creds = {alice, stranger}
  ValidCreds = {alice}
  LongCreds = {stranger}
  Lines = {l1, l2}
  ExitLines = {l2}
  PubLen = 2
  BodyLen = 2
  MaxLines = 3
  ShortReads = FALSE
  PromptServer = TRUE
  Faults = {"client", "parent"}
INVARIANTS
  LoginAgreement
PROPERTIES
  AnswerComes
  IsEchoService
