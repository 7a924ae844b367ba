SPECIFICATION Spec
CONSTANTS
  Sources <- GoldSources
  Packets <- GoldPackets
  Alternatives <- EditValues
  MaxEdits = 2
  MaxEdited = 1
  MaxCrashes = 1
INVARIANTS
  WorkIsSealed
  SourcesAreExplained
  JournalIsTrue
