SPECIFICATION PciFairSpec
CONSTANT Client = {p1, p2}
PROPERTIES ImplementsBackend ProtectedUntouched
