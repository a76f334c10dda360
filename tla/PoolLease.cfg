SPECIFICATION FairSpec
CONSTANTS
  MaxBuffers = 2
  Receivers = {r1, r2}
  Senders = {s1}
INVARIANTS LeaseInv
PROPERTIES LeaseSpec 
