\* Three connections or profiles; two groups of up to two proxies; a ring of four
\* entries that takes seven.
SPECIFICATION PagesSpec
CONSTANTS
  Items = {i1, i2, i3}
  Rows = {1, 2}
  Groups = {g1, g2}
  Proxies = {p1, p2}
  Columns = {1}
  ProxyRows = {1}
  Maximum = 4
  BatchMax = 3
  Texts = {"a", "b"}
  Heights = {1, 2}
  MaxEntries = 7
SYMMETRY Symmetry
INVARIANTS
  InView
PROPERTIES
  ConfirmedTarget
  Kept
  TailSpec
CHECK_DEADLOCK FALSE
