SPECIFICATION Spec
CONSTANTS
  r1 = r1
  r2 = r2
  u1 = u1
  u2 = u2
  Runs = {r1, r2}
  Urls = {u1, u2}
  HashOf <- Texts
  CanonOf <- Addresses
  StoryOf <- Stories
  Relevant = {u1}
  Scored = TRUE
SYMMETRY RunSymmetry
INVARIANTS TypeOK NoSilentLoss WatermarkAfterSilver GoldIsBacked
