SPECIFICATION Spec
CONSTANTS
  N = 20
  None = None
  Size = 6
  Keys <- McKeys
  Nodes <- McNodes
  Scripts <- McScripts
  MaxCalls = 2
INVARIANTS TypeOK Ordered Balanced RepairGoesOn
PROPERTIES ImplementsKeySet
\* The caller may stop.
CHECK_DEADLOCK FALSE
