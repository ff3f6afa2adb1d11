SPECIFICATION Spec
CONSTANTS
  Topics = {t1, t2}
  NULL = NULL
  NumHandlers = 2
  MinWait = 1
  MaxWait = 2
  InitialWait = {3}
  LinkCodes = {"NETWORK_PHYSICAL_LAYER_CONNECTED", "NETWORK_PHYSICAL_LAYER_DISCONNECTED"}
  AppOps = {"connect", "subscribe", "unsubscribe", "yield"}
  CallbackOps = {}
  HandlerOps = {}
  MaxDepth = 3
  MaxInFlight = 1
PROPERTIES Resubscribed
