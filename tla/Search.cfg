SPECIFICATION FairSearchSpec
CONSTANTS
  Session = {1, 39}
  Width <- Wide
  Instants = {0, 4500, 60000}
  Configs <- Climbing
  DeepenPerRound = 2
INVARIANT OnSchedule
PROPERTY EachSearchDeeper
PROPERTY Deepens
CHECK_DEADLOCK FALSE
