SPECIFICATION RunSpec
CONSTANTS
  Documents <- MCDocuments
  SCRIPT_MAP <- MCScriptMap
  Bundle <- MCBundle
  Within <- MCWithin
INVARIANT
  NothingLost
\* A run of the command ends.
CHECK_DEADLOCK FALSE
