SPECIFICATION Spec
CONSTANTS
  Width = 4
  Height = 3
  TabStop = 2
  Chars = {"a"}
  Short = 16
  Areas <- MCAreas
  Grey = "grey"
  Attrs = {"grey", "blue"}
  MaxOps = 4
CHECK_DEADLOCK FALSE
PROPERTY IsTerminal
