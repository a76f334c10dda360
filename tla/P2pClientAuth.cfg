SPECIFICATION Spec
CONSTANT MaxClients = 2
INVARIANT TimeoutMeansUnconnected
CHECK_DEADLOCK FALSE
