SPECIFICATION Spec
CONSTANTS
  Topics = {t1}
  NULL = NULL
  NumHandlers = 2
  MinWait = 1
  MaxWait = 2
  InitialWait = {0, 3}
  LinkCodes = {"NETWORK_PHYSICAL_LAYER_CONNECTED", "NETWORK_PHYSICAL_LAYER_DISCONNECTED"}
  AppOps = {"connect", "subscribe", "yield", "autoreconnect"}
  CallbackOps = {"disconnect", "connect", "subscribe", "yield", "autoreconnect"}
  HandlerOps = {"connect", "subscribe"}
  MaxDepth = 4
  MaxInFlight = 1
INVARIANTS IInv ConnectedHasSocket
PROPERTIES OwnSessionOnly AckOnOwnSession YieldHonest
