CONSTANTS
    Devices = {1, 2}
    Private = {1, 2}
    Clients = {c1}
    Enabled = TRUE
    MaxFailures = 0
SPECIFICATION Spec
INVARIANT QueuedScanIsKept
