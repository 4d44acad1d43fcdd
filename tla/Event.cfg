SPECIFICATION FairSpec
CONSTANTS
  Thread = {"t1", "t2", "t3"}
  Ring <- MCRing
  Chan = {"c", "d"}
  Val = {0, 1, 2, 3}
  NoData = NoData
  NoOffer = NoOffer
  Programs <- MCPrograms
  PreemptModes = {TRUE, FALSE}
INVARIANTS
  NoMissedRendezvous
  NoLostWakeup
PROPERTIES
  ImplementsRendezvous
  Terminates
