CONSTANTS
  Platforms = {"pam", "windows"}
  MaxAttempts = 3
  MaxCalls = 2
  MaxBatch = 2
  MaxOnTheWay = 2
SPECIFICATION FairSpec
INVARIANTS TypeOK AnswersMatch NoCrossTalk CallbackFindsConversation
PROPERTIES CopiesLostWithExchange DialogueEnds
