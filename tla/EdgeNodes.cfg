CONSTANTS
  Nodes = {n1, n2}
  MaxFaults = 2
  MaxErrors = 1
  MaxEvents = 2
SPECIFICATION FairNodes
INVARIANT NodesTypeOK
PROPERTIES PatchedIsRecorded Settles
