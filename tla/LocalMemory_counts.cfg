SPECIFICATION Spec
CONSTANTS
  Slots <- MCSlots
  Addresses <- MCAddresses
  LowPages <- MCLowPages
  Pages <- MCPages
INVARIANTS TypeOK MemMapCounts WritersAreAlone 
CHECK_DEADLOCK FALSE
