SPECIFICATION Spec
CONSTANTS
  None = None
  blog = blog  shop = shop
  Sites = {blog, shop}
  Handlers = {h1}
  SweptBy <- DistinctNames
  Loads <- RunsOnly
SYMMETRY Symmetry
CHECK_DEADLOCK FALSE
PROPERTIES
  CleanupSparesWorking
