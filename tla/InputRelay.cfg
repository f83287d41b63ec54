SPECIFICATION Spec
CONSTANTS
  K = K
  M = M
  L = L
  R = R
  Alt = Alt
  Keys = {Alt, K, M}
  Buttons = {L, R}
  Letter <- MCLetter
  Scenes <- MCScenes
  NoLine = NoLine
  Depth = 2
  Changes = 1
INVARIANTS
  InputTypeOK
  Faithful
  ClickLands
  OneLate
