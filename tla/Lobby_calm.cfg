CONSTANTS
  None = None
  Bot = Bot
  c1 = c1
  c2 = c2
  c3 = c3
  Conns <- Conns3
  Codes <- Codes2
  NumSeats = 3
  Timers <- Timers3
  Careful = TRUE
  SlowSockets = FALSE
SPECIFICATION Spec
CHECK_DEADLOCK FALSE
SYMMETRY Perms
INVARIANTS PlacesAgree HostSits QueueWatched
