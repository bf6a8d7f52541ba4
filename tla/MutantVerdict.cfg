CONSTANT Covering <- MCCovering
SPECIFICATION Spec
INVARIANTS SurvivedEverything TimeoutsConfirmed KillsNotContradicted KillersFailed
CHECK_DEADLOCK FALSE
