SPECIFICATION FairSpec
CONSTANTS
  Handler = {h1, h2, h3}
  Id = {i1, i2, i3, i4}
  None = None
  Slots = 2
  RegistryCapacity = 3
  BackgroundQuota = 1
INVARIANTS RegistryBounded TicketAlwaysFits BackgroundNeverWaits
PROPERTIES CancelledNeverStarts FifoQueue
SYMMETRY IdSymmetry
