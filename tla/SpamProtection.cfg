SPECIFICATION Spec
CONSTANTS
  i1 = i1
  i2 = i2
  h1 = h1
  h2 = h2
  f1 = f1
  f2 = f2
  c1 = c1
  c2 = c2
  l1 = l1
  l2 = l2
  a = a
  b = b
  None = None
  Fallback = Fallback
  NoText = NoText
  Incident = {i1, i2}
  Handler = {h1, h2}
  MaxTries = 2
  MaxInputs = 5
  Field = {f1, f2}
  Value = {0, 1}
  Default <- Zeros
  Form <- OnlyOnes
  Command = {c1, c2}
  Load = {l1, l2}
  Ttl = 1
  MaxQuery = 1
  MaxSaves = 2
  MaxCommands = 2
  Text = {a, b}
  Rules <- SomeRules
  Defaults <- TwoInOneTick
  Cooldown = 1
  MaxWindow = 2
  Late = 1
  MaxTicks = 3
  MaxMessages = 3
INVARIANTS TypesOK EffectsHappenOnce ResultsAreTrue SavedChangesStay FreshPolicy DetectionsAreJust
PROPERTIES NoTimeoutWithoutConsent
SYMMETRY Symmetry
CHECK_DEADLOCK FALSE
