CONSTANTS
  MaxTx = 4
SPECIFICATION Spec
INVARIANTS TypeOK OneActive OutagesRecorded NothingOutlives SomeCallGoesOn
PROPERTIES CommitsAreSteps
CHECK_DEADLOCK FALSE
