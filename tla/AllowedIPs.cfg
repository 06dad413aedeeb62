\* Three-bit addresses, an arena of five nodes: leaves, splits of both kinds, refusals.
CONSTANTS
  d1 = d1 d2 = d2
  Data <- MCData
  Routes <- MCRoutes
  ADDR_BITS = 3
  N = 5
SYMMETRY Symmetry
SPECIFICATION Spec
INVARIANTS TrieIsProper TableAgrees LookupsAgree
