\* Three keys, the first two with the same home, in three slots; of the three
\* lengths the last is not small.  The one iterator may look used for ever, and
\* meets values of length one.
SPECIFICATION Spec
CONSTANTS
  k1 = k1
  k2 = k2
  k3 = k3
  Nil = Nil
  Keys <- MCKeys
  hash <- MCHash
  Prefixes <- MCPrefixes
  hash_slots = 3
  storage_size = 4
  Lengths = {1, 2, 3}
  SMALL_LENGTH = 2
  nr_handles = 1
  iter_keys = 1
CONSTRAINT LengthsOrIterators
INVARIANT ChainsEnd DeletedStaysAway LastValueIsFound IterationIsComplete
CHECK_DEADLOCK FALSE
