CONSTANTS
  m1 = m1  m2 = m2
  weights = weights  config1 = config1  config2 = config2  template1 = template1  template2 = template2
  Names = {m1, m2}
  Blobs = {weights, config1, config2, template1, template2}
  Config <- MCConfig
  Template <- MCTemplate
  Published <- MCPublished
  Made <- MCMade
  Requests = {r1, r2}
  Importers = {i1}
  Hydrator = hydrator
  Absent = Absent  Torn = Torn  NoJob = NoJob
  MaxRequests = 2
  MaxFaults = 1
SPECIFICATION Spec
SYMMETRY MCSymmetry
PROPERTY RemovalsSpareUsedLayers
CHECK_DEADLOCK FALSE
