\* One change request, cancelled while its receipt's directory sync fails.
CONSTANTS
  Kinds = {"modify"}
  MaxRequests = 1
SPECIFICATION Spec
INVARIANTS AcceptedCancellationWins
