\* Starting, stopping and failing, next to requests that configure the clients.
SPECIFICATION Spec
CONSTANTS
  r1 = r1 r2 = r2
  Requests = {r1, r2}
  RouteOf <- TwoRoutes
  MaxFaults = 3
INVARIANTS
  OnlyFailuresTakeClients
  ClientsKept
PROPERTIES
  EventuallyAnswered
