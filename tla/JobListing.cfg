\* One job followed through all its transitions, three others coming and going.
CONSTANTS
  MaxRetries = 2
  Reports = {50, 150}
  Filter = "queued"
  Followed = followed
  Others = {o1, o2, o3}
  Limits = {1, 2}
  MaxEvents = 3
SPECIFICATION ListingSpec
INVARIANTS EntityConsistent PagingDrift
SYMMETRY OtherSymmetry
CHECK_DEADLOCK FALSE
