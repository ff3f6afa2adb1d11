SPECIFICATION FairSpec
CONSTANTS
  Topics = {t1, t2}
  NULL = NULL
  NumHandlers = 2
  MinWait = 1
  MaxWait = 2
  InitialWait = {3}
  LinkCodes = {"NETWORK_PHYSICAL_LAYER_CONNECTED", "NETWORK_PHYSICAL_LAYER_DISCONNECTED"}
  AppOps = {"connect", "yield", "subscribe", "reconnect"}
  CallbackOps = {}
  HandlerOps = {}
  MaxDepth = 1
  MaxInFlight = 1
INVARIANTS NoOrphanSession PingTracked
PROPERTIES Resubscribed CallsReturn ReconnectResolves
