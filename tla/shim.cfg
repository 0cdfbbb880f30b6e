\* A chat request and a plain run that may share a millisecond, two clients.
CONSTANTS
  Runs = {r1, r2}
  Chats = {r1}
  Streams = {}
  Clients = {c1, c2}
  Decisions = {"Deny"}
  NoPlan = NoPlan
  MaxClock = 1
  MaxRequests = 1
SPECIFICATION ShimFairSpec
INVARIANTS
  OwnAnswer
  StatusMatchesPending
  WaitingIsVisible
PROPERTY
  ChatIsAnswered
CHECK_DEADLOCK FALSE
