\* A caller that waits for the status with its own side still open.
SPECIFICATION FairSpec
CONSTANTS
  MaxRequests = 1
  MaxResponses = 1
  Failures = {"NotFound"}
PROPERTIES EndReachesCaller
CHECK_DEADLOCK FALSE
