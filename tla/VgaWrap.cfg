SPECIFICATION Spec
CONSTANTS
  FB_WIDTH = 3
  FB_HEIGHT = 6
  PITCH = 4
  GLYPH_W = 1
  GLYPH_H = 2
  MAX_ROWS = 8
  BYTE_VALUES = 6
  Chars = {97, 8, 10}
INVARIANT CursorOnScreen
