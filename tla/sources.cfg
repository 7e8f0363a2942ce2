CONSTANTS
  Escapes <- MCEscapes
  AltBytes <- MCAltBytes
  TermKeys <- MCTermKeys
  MaxTyped = 3
  ReadSize = 2
  Faces <- MCFaces
  Modifiers = {"shift", "ctrl"}
  Shortcuts = {"minus"}
  Spans = 2

SPECIFICATION Spec
CHECK_DEADLOCK FALSE
INVARIANT KeysDecoded
INVARIANT NothingSwallowed
INVARIANT NoKeyStuck
PROPERTY AllHeard
