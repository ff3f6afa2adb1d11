SPECIFICATION FairSpec
CONSTANTS
  Topics = {t1}
  NULL = NULL
  NumHandlers = 1
  MinWait = 1
  MaxWait = 2
  InitialWait = {3}
  LinkCodes = {"MQTT_CONNACK_CONNECTION_ACCEPTED"}
  AppOps = {"connect", "yield"}
  CallbackOps = {}
  HandlerOps = {}
  MaxDepth = 3
  MaxInFlight = 1
PROPERTIES ReconnectTried
