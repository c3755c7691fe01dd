SPECIFICATION FairSpec
CONSTANTS
    c1 = c1  c2 = c2  c3 = c3
    s1 = s1  s2 = s2  app = app
    h1 = h1  h2 = h2
    Clients = {c1, c2, c3}
    Anonymous = {c3}
    Servers = {s1, s2, app}
    Cores = {s1, s2}
    Host <- MCHost
    Setups <- MCSetups
    Capacity = 1
    MaxChunks = 2
INVARIANT MapsInStep
INVARIANT Agreement
INVARIANT OkMeansDone
PROPERTY Ipv4Starts
CHECK_DEADLOCK FALSE
