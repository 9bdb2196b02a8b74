CONSTANTS
  Players = {1, 2, 3, 4, 5}
  MaxStart = 2
  MaxHands = 2
  Seatings <- Listings
  Seats = {1, 3, 4, 6}
  TableSize = 6
  SmallestChip = 2
  MaxChips = 3
  Buttons = {3}
  Ledgers <- MCLedgers
  Ranks <- MCRanks
  Deck <- SmallDeck
SPECIFICATION HandEndSpec
INVARIANTS PotsAreLayers EverythingPaid BestHandByTheRules
PROPERTY PlacesFollowPlay
CHECK_DEADLOCK FALSE
