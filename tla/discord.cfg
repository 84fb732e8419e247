\* The server may rest when everything has stopped.
CHECK_DEADLOCK FALSE
SPECIFICATION ChatSpec
SYMMETRY MCSymmetry
CONSTANTS
  Installations <- MCInstallations
  MaxStartFaults = 1
  Commands = {c1, c2}
  Limit = 4
  DiscordLimit = 5
  MaxFaults = 1
  Kinds = {"persona", "summarize", "rpc", "register", "credits", "guildcredits"}
  Texts <- MCTexts
  ContextLimit = 2
  MaxDeletes = 1
INVARIANTS
  StartupIsSound
  MessagesArriveWhole
  QueueIsSound
  ConversationsAreSound
  CommandsAreAnswered
