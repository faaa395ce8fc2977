SPECIFICATION Spec
CONSTANTS
  Chars <- Letters
  Names <- SomeNames
  Links <- SomeLinks
  MaxDepth = 3
INVARIANTS
  CoversSubtree
  SlashesNeverWiden
CHECK_DEADLOCK FALSE
