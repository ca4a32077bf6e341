SPECIFICATION Spec
CONSTANTS
  None = None
  Requests <- MCRequests
  Environments <- MCEnvironments
  Clients <- MCClients
  Calls <- MCCalls
  Customers <- MCCustomers
  AgentTexts <- MCAgentTexts
  MaxToolRounds = 2
  MaxRetries = 2
  ReadTimeoutMaxRetries = 1
  RetryBudget = 5
  Deadline = 9
  RetryBaseDelay = 2
  Durations = {0, 4}
  Latenesses = {0, 6}
  Jitters = {0, 1}
  RetryAfters = {0, 4}
  Commands <- MCCommands
  Rows = {r1, r2, r3}
  BatchSize = 2
  MaxBatches = 2
INVARIANTS
  RisksAreHandled
  AnswersCarryTheirDoubts
  ToolCallsAreAnswered
  RetriesStayInBudget
  VerdictsAreEarned
PROPERTIES
  FailedChangesAreNeverRead
