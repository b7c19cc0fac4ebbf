SPECIFICATION Spec
CONSTANTS
  Sets = {a, b}
  Texts = {t, u}
  NoText = NoText
  Policies = {"once", "always"}
  MaxDialogs = 2
  CanvasAtStart = TRUE
  Nested = TRUE
  Revises = TRUE
INVARIANT AcceptedBeforeOpened
PROPERTY AskedOnce
