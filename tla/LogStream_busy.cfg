CONSTANTS
    c1 = c1
    c2 = c2
    l1 = l1
    Clients = {c1, c2}
    Local = {l1}
    Posts = 2
    ClientCap = 1
    LogCap = 1
    ExternalCap = 1
SPECIFICATION Spec
INVARIANTS NoSendOnClosed StreamInOrder PostsInOrder
PROPERTIES GoneForgotten PostsBroadcast
