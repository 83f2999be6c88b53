CONSTANTS
  a = a
  b = b
  c = c
  Garbled = Garbled
  Zero = Zero
  PAGE_SIZE = 48
  Payloads <- MCPayloads
  ValueLen <- MCValueLen
SPECIFICATION Spec
PROPERTY PageRefinesSpec
CHECK_DEADLOCK FALSE
