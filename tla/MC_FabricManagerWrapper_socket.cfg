SPECIFICATION FairSpec
PROPERTY WaitsForActualSocket
