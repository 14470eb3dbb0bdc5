SPECIFICATION Spec
CONSTANTS
  i1 = i1
  i2 = i2
  i3 = i3
  d1 = d1
  a = a
  b = b
  None = None
  Ids = {i1, i2}
  Strays = {}
  Window = 3
  Names = {a, b}
  TargetsOf <- TwoSpellings
PROPERTIES SpellingsSpaced
