SPECIFICATION Spec
CONSTANTS
  Client = {c1, c2}
  Device = {d1}
  App = {a1, a2}
  MaxQueue = 1
  MaxFail = 1
  NoDev = NoDev
SYMMETRY Symmetry
INVARIANTS
  ListingWhole
  ToldAfterChange
  HandlerLive
