SPECIFICATION Spec
CONSTANTS
  MaxTokens = 3
  MinTokens = 2
  MaxWords = 9
  ShortWords = 4
  Pages <- MCPages
INVARIANTS TypeOK Covers SizeBand NoSlivers WholeParagraphs
