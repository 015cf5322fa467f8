SPECIFICATION Spec
CONSTANTS
  Ids <- MCIds
  Prompts <- MCPrompts
  Yamls <- MCYamls
  Notes <- MCNotes
  Providers = 4
  Profiles = {p1}
  p1 = p1
  Package <- MCPackage
  Bundles <- MCBundles
  HandMade <- MCHandMade
  Typed <- MCTyped
  Canons <- MCCanons
  Clients = {c1, c2}
  MaxRequests = 3
  MaxEdits = 1
  None = None
  Broken = Broken
SYMMETRY Pages
INVARIANTS
  PackageIntact
  ConflictsAreReal
  BundleIsFaithful
PROPERTIES
  NothingUnseenIsLost
  EditsKeepLoading
CHECK_DEADLOCK FALSE
