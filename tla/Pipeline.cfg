SPECIFICATION Spec
CONSTANTS
  Routes = {"ra", "rb"}
  Global <- MCGlobal
  RoutePlugins <- MCRoutePlugins
  Priority <- MCPriority
  Statuses = {42, 403}
  HeaderSets <- MCHeaderSets
  None = None
  RouteName <- MCRouteName
  Policy <- MCPolicy
  TrustForwarded = TRUE
  Auths <- MCAuths
  Clients <- MCClients
  Decisions <- MCDecisions
  PluginText <- MCPluginText
INVARIANTS
  
  OwnConfig
  IdentityFromToken
  
  
