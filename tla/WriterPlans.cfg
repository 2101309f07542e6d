SPECIFICATION PlansSpec
CONSTANTS
  pub = pub
  hr = hr
  n1 = n1
  n2 = n2
  c1 = c1
  c2 = c2
  c3 = c3
  a = a
  b = b
  k = k
  None = None
  s1 = s1
  s2 = s2
  s3 = s3
  s4 = s4
  fin = fin
  Titles = {n1}
  Origins = {s1, s2, s3, s4}
  Shelving <- MCShelving
  ShelfOf <- MCShelfOf
  Reading <- MCReading
  MaxDisputed = 2
  Layers = {pub, hr}
  Public = pub
  Names = {n1, n2}
  Captures = {c1, c2, c3}
  Texts = {a, b, k}
  Callouts = {k}
  Cites <- MCCites
  LinkOf <- MCLinkOf
  Resolves <- MCResolves
  MaxDeletes = 1
CHECK_DEADLOCK FALSE
INVARIANTS BranchIsSound
PROPERTIES FilingKeepsTheRest RecompileKeepsTheRest
