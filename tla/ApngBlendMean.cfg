SPECIFICATION BlendSpec
CONSTANTS
  Colours = {0, 127, 255}
  Alphas = {0, 1, 2, 128, 255}
CHECK_DEADLOCK FALSE
PROPERTY
  NeverDarker
