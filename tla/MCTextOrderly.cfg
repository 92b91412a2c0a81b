CONSTANTS
  Char = {x, y}
  Font = {normal, heading}
  Anchors = {a, b}
  None = None
  MaxText = 4
SPECIFICATION OrderlySpec
PROPERTIES StylesHold
