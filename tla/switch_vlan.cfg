SPECIFICATION Spec
CONSTANTS
  Requests <- VlanRequests
  WordMB = 1073741824
INVARIANT SwitchVlanSet
