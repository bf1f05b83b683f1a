\* Two overlapping deliveries, an import, a back-fill; transcripts appear, get another title or go; everything may fail.
SPECIFICATION FirefliesSpec

CONSTANTS
  t1 = t1  t2 = t2  p1 = p1  p2 = p2  old = old  new = new
  h1 = h1  h2 = h2  i1 = i1  b1 = b1

  Transcripts = {t1, t2}
  Titles = {old, new}
  People = {p1, p2}
  Invited <- OldTitleMatches
  Predating <- OneTranscript
  GivenTitle <- AllOld
  Hooks = {h1, h2}
  Imports = {i1}
  Backfills = {b1}
  PageSize = 1
  MaxSkip = 3
  MaxDeliveries = 2
  MaxEvents = 2
  Mishaps = {"api", "disk", "db", "mail", "crash"}
  Nothing = Nothing

CHECK_DEADLOCK FALSE

INVARIANT FirefliesTypeOK
INVARIANT MarkerTruthful
INVARIANT BackfillMissesNothing
PROPERTY RetriesAreSilent
PROPERTY DeliveryTakesEffect
