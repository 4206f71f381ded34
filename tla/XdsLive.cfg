CONSTANTS
  Nodes = {n1}
  Streams = {s1}
  Rebuilds = {b1, b2}
  TYPE_URLS_IN_ORDER <- OneType
  Capacity = 1
  MaxVersion = 3
  None = None
SPECIFICATION FairSpec
INVARIANT NoLostUpdate
PROPERTIES RebuildsEnd Converges
