SPECIFICATION Spec
CONSTANTS
  Digits = 2
  Retries = 4
  Word <- MCWord
PROPERTIES ReadyIsSeen
