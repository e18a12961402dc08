\* Two handlers at a time create one product, one branch beside the seeded
\* one and the links of two admins.
\* UPI: two handlers at a time save two accounts for one branch.
SPECIFICATION SideBySide
CONSTANTS
  None = None
  Products = {p1}
  Branches = {b1, b2}
  Admins = {a1, a2}
  Ops = {o1, o2}
  Home = b1
  Central = a1
  Shops = {s1}
  Accounts = {v1, v2}
  Handlers = {h1, h2}
  NoAccount = NoAccount
SYMMETRY RowSymmetry
INVARIANTS CatalogComplete SharedOnlyByRace SavesTakeEffect
CHECK_DEADLOCK FALSE
