\* One signal, the admin dashboard and one docs server.
CONSTANTS
  Front = proxy
  admin = admin
  docs = docs
  Sides <- TwoSides
  Handler = {h1}
SPECIFICATION FairSpec
INVARIANT ManagerStopsLast
PROPERTY ProgramEnds
