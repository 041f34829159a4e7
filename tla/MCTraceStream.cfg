\* Two clients around the two bursts of a run, and resets.
SPECIFICATION FairSpec
CONSTANT Clients = {c1, c2}
INVARIANTS
  OrderedOnce
  NothingLostSinceJoin
PROPERTY StreamEnds
