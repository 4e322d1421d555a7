\* Turns of one or several conversations, three in progress at a time.
CONSTANTS
  Turn = {t1, t2, t3, t4, t5}
  Window = 3
  MaxOpen = 3
SPECIFICATION ConversationSpec
INVARIANTS ConversationTypeOK NumberedWithoutGaps
PROPERTIES TurnsSerialize
SYMMETRY TurnSymmetry
CHECK_DEADLOCK FALSE
