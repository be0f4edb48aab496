SPECIFICATION ConsoleSpec
CONSTANTS
  FB_WIDTH = 3
  FB_HEIGHT = 2
  PITCH = 3
  GLYPH_W = 1
  GLYPH_H = 1
  MAX_ROWS = 8
  BYTE_VALUES = 6
  Chars = {97}
  ThreadChars = {97}
  EchoChars = {97, 8, 10}
INVARIANT NoStrayPixel
