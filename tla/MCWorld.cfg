CONSTANTS
  Humans = {h1, h2}
  Bots = {b1}
  Cells = {s1, s2}
  Null = Null
SPECIFICATION Spec
INVARIANTS
  TypeOK
  EntitiesLive
PROPERTIES
  CalledOncePerTick
  TickEnds
