SPECIFICATION RunSpec
CONSTANTS
  Documents <- MCDocuments
  SCRIPT_MAP <- MCScriptMap
  Bundle <- MCBundle
  Within <- MCWithin
INVARIANTS
  InventoryFaithful
  OldKeptUntilBuilt
\* A run of the command ends.
CHECK_DEADLOCK FALSE
