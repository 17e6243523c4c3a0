SPECIFICATION FairSpec
CONSTANT MaxEvents = 2
INVARIANTS WorkIsCovered CompleteMeansAll
PROPERTY GivenBack
