\* A reset that times out does not drop the output an earlier run left unclaimed.
SPECIFICATION Spec
CONSTANTS
  MaxRequests = 3
  MaxWritten = 1
  Asked = {"continue", "reset"}
  Owners = {"headless"}
INVARIANT NoOutputOfEarlierRun
CHECK_DEADLOCK FALSE
