CONSTANTS
  None = None
  NoMessage = NoMessage
  Configs <- MCConfigs
  Published <- MCPublished
  Authorizations <- MCAuthorizations
  Ips = {"ip"}
  EnvoyFile = TRUE
  Messages <- MCMessages
  ChannelSize = 1
  MaxMessages = 2
SPECIFICATION Spec
INVARIANTS
  ServesWhatItBootedWith
  
  
  AnswersInOrder
  NothingLost
PROPERTIES
  StartEnds
  
