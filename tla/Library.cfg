CONSTANTS
  Size = 5
  Values = 4
  ByteBits = 2
  Off = Off
SPECIFICATION LibrarySpec
INVARIANTS CopiesExactly AnswersRight ScanRight
