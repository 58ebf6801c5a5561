CONSTANTS
  Rooms = {r1, r2}
  Convs = {c1, c2}
  Agents = {a1}
  Messages = {m1, m2}
  None = None
  Kept = 2
  MaxAnswers = 2
  MaxStaff = 1
SPECIFICATION Spec
SYMMETRY Symmetry
CONSTRAINT OneHistory
INVARIANTS
  HandedIsWithStaff
  SerialRoomHasOneConversation
  SerialLogIsADialogue
  SerialMemoryPairs
PROPERTIES
  SerialStaffTalkAlone
CHECK_DEADLOCK FALSE
