CONSTANTS
  Reservations = {r1, r2}
  Keys = {a, b}
  MaxSize = 3
  Word = 256
SPECIFICATION Spec
INVARIANT DynamicExact
