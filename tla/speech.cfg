SPECIFICATION FairSpec
CONSTANTS
  Handler = {h1, h2}
  Id = {i1, i2}
  None = None
  Slots = 2
  RegistryCapacity = 2
  Segments = 1
INVARIANT IteratorClosed
PROPERTIES GivenBack ImplementsLifecycle
SYMMETRY IdSymmetry
