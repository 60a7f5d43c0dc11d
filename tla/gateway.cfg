SPECIFICATION Spec
CONSTANTS
  None = None
  blog = blog  shop = shop
  Sites = {blog, shop}
  Handlers = {h1, h2}
  SweptBy <- OneBeginsWithOther
  Loads <- FiveLoads
SYMMETRY Symmetry
CHECK_DEADLOCK FALSE
INVARIANTS
  TypeOK
  SuccessIsServed
