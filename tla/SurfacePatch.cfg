SPECIFICATION Spec
CONSTANTS
  Cells = {blank, a}
  Blank = blank
  Values = {v1, v2}
  Shades = {dark, light}
  PaletteSize = 2
  MaxHeight = 2
  MaxVersion = 3
  MaxChanges = 2
CHECK_DEADLOCK FALSE
INVARIANT PatchedIsCurrent
PROPERTY RefusedOnlyForPalette
