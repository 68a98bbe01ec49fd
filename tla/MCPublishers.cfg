CONSTANTS
  k1 = k1
  k2 = k2
  Keys = {k1, k2}
  MaxEvents = 2
  MaxEmits = 3
  MaxFlaps = 2
  MaxWebhooks = 4
  MaxOutages = 2
SPECIFICATION MCSpec
INVARIANTS
  PublisherInv
  IgPublisherInv
PROPERTIES
  FateSpec
  HeldIsSettled
  InstagramFates
CHECK_DEADLOCK FALSE
