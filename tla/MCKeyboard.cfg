CONSTANTS
  Keys <- MCKeys
  Repeating <- NotCaps
  Backlog = 0
SPECIFICATION Spec
INVARIANTS FlagsRight TypedAsMeant
