SPECIFICATION BootSpec
CONSTANTS
  KEYBOARD_BUF_SIZE = 4
  Keys = {"a"}
  Lower <- MCLower
  Upper <- MCUpper
  NoChar <- MCNoChar
INVARIANTS HandlersReady KeysKeepComing
PROPERTIES  FullBufferDrains
