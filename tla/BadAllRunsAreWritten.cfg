CONSTANTS
  Char <- MCChar
  Font = {"normal", "h1", "list", "dl", "xmp", "listing"}
  Anchors = {"a"}
  None = None
  Element = {"normal", "h1", "dl", "pre", "xmp", "list", "listing"}
  FontOf <- MCFontOf
  Normal = "normal"
  FreeFormat = {"normal", "h1", "list", "dl"}
  Heading = {"h1"}
  Preformatted = "pre"
  Literal = {"xmp", "listing"}
  Example = "xmp"
  List = "list"
  Glossary = "dl"
  styleTable <- MCTable
  LINE_WRAP = 2
  Space = "space"
  Tab = "tab"
  NewLine = "newline"
  MaxDepth = 9
  MaxText = 40
  RunText <- MCRunText
  MaxRuns = 3
SPECIFICATION RoundTripSpec
INVARIANTS AllRunsAreWritten
