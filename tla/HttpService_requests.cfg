SPECIFICATION Spec
CONSTANTS
  r1 = r1
  r2 = r2
  None = None
  Requests = {r1, r2}
  Users = {"u"}
  Keys = {"k"}
  Configs <- MCConfigs
  Inputs <- MCInputs
INVARIANTS TypeOK RunsAreAdmitted RunsAreRecorded AnswersAgreeWithRows NothingLeftOpen ReadyMeansUsable
PROPERTIES ImplementsLedger EveryRequestIsAnswered LifespanEnds
CHECK_DEADLOCK FALSE
