\* Two cards, two tabs of the owner, two logins at a time.
SPECIFICATION Spec
CONSTANTS
  Cards = {k1, k2}
  Tabs = {t1, t2}
  Browsers = {b1}
  Challenges = {c1, c2}
  Requests = {r1, r2}
  Attempts = 1
  MaxRevision = 4
  NoCard = NoCard
  Foreign = Foreign
SYMMETRY Symmetry
INVARIANTS TypeOK
PROPERTIES OwnersSeeWhatTheyChange KeepsPromise
CHECK_DEADLOCK FALSE
