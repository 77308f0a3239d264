SPECIFICATION Spec
CONSTANTS
  Demo = {d1}
  Standard = {s1}
  Live = {}
  Slots = {a, b}
  Executions = {1, 2, 3}
  MaxFaults = 1
  NULL = NULL
CHECK_DEADLOCK FALSE
PROPERTIES CancelIsFinal
