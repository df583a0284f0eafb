SPECIFICATION FairSpec
CONSTANTS
  api = api
  proxy = proxy
  c1 = c1
  c2 = c2
  c3 = c3
  Listeners <- MCListeners
  HttpListeners <- MCHttpListeners
  Connections <- MCConnections
  ListenerOf <- MCListenerOf
PROPERTIES Terminates
