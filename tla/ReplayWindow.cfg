\* Two receivers of a six-counter window, nine packets.
CONSTANTS
  r1 = r1 r2 = r2
  Receiver <- MCReceiver
  WORD_SIZE = 2
  N_WORDS = 3
  COUNTER_WIDTH = 4
  REJECT_AFTER_MESSAGES = 9
SYMMETRY Symmetry
SPECIFICATION Spec
INVARIANTS LossEstimateIsSound
PROPERTIES NonceIsFresh ImplementsWindow
CHECK_DEADLOCK FALSE
