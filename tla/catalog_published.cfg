SPECIFICATION ReadSpec
CONSTANTS
  Products = {p1, p2}
  Slugs = {s1, s2, s3}
  Requests = {r1, r2, r3}
  Configurations <- MCConfigurations
  Default <- MCDefault
  Stocked <- MCStocked
  Lower <- MCLower
  OptionsPerProduct = 2
  ValuesPerOption = 2
  VariantsPerProduct = 2
  None = None
  p1 = p1
  p2 = p2
  s1 = s1
  s2 = s2
  s3 = s3
  r1 = r1
  r2 = r2
  r3 = r3
SYMMETRY Interchangeable
INVARIANTS
  PublishedSellable
