SPECIFICATION StorySpec
CONSTANTS
  a1 = a1 a2 = a2 a3 = a3
  c1 = c1 c2 = c2
  k1 = k1 k2 = k2 k3 = k3
  Attempts = {a1, a2, a3}
  Calls = {c1, c2}
  Keys = {k1, k2, k3}
  Tables = {1, 2}
  Slots = {0, 1, 4}
  Duration = 3
  Turnover = 1
  Requests <- AllRequests
  Seeded <- OneBooking
  MaxBookings = 3
  Same = Same
  NoSlot = NoSlot
  None = None
SYMMETRY AttemptSymmetry
INVARIANTS NoDoubleBooking
