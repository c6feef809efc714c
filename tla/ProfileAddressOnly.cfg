SPECIFICATION Spec
CONSTANTS
  Requests = {"r1", "r2"}
  Addresses <- MCAddresses
  Bodies <- MCAddressOnly
PROPERTIES ReplacesAddresses
CHECK_DEADLOCK FALSE
