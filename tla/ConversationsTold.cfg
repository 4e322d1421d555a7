\* Two turns, the second of which names the conversation of the first.
CONSTANTS
  Turn = {t1, t2}
  Window = 3
  MaxOpen = 2
SPECIFICATION ConversationSpec
INVARIANTS ToldIsFound
CHECK_DEADLOCK FALSE
