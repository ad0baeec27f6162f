SPECIFICATION WrapperSpec
CONSTANTS
  MaxHandle = 8
  MaxCommits = 2
INVARIANTS
  NeverReused
  NothingLeaks
  DeliveredUnlessStarved
PROPERTY
  HandlesKeepTheirMeaning
