SPECIFICATION FairSpec
CONSTANTS
    Senders = {app}
    LoginTask = login
    None = None
    Algorithms = {"none", "snappy"}
    Handshakes = {2}
    NonceSpace = 16
    Batches <- SmallBatches
    MaxFrames = 3
    MaxApp = 1
    MaxLogins = 2
INVARIANTS
    TypeOK
    NonceOnce
    LoginEarned
    
    HandshakeFirst
PROPERTIES
    LoginReturns
CHECK_DEADLOCK FALSE
