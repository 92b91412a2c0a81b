CONSTANTS
  Char <- MCChar
  Font = {"normal", "h1", "list", "xmp"}
  Anchors = {"a"}
  None = None
  Element = {"normal", "h1", "list", "pre", "xmp"}
  FontOf <- MCFontOf
  Normal = "normal"
  FreeFormat = {"normal", "h1", "list"}
  Heading = {"h1"}
  Preformatted = "pre"
  Literal = {"xmp"}
  Example = "xmp"
  List = "list"
  Space = "white"
  Tab = "white"
  NewLine = "white"
  MaxDepth = 2
  MaxText = 4
SPECIFICATION Spec
INVARIANTS TypeOK WordsInTheirStyle WordsApart
CHECK_DEADLOCK FALSE
