CONSTANTS
  j1 = j1
  j2 = j2
  d1 = d1
  d2 = d2
  Jobs <- MCJobs
  JobDescs <- MCJobDescs
  Slots = {1, 2}
SYMMETRY MCSymmetry
SPECIFICATION Spec
INVARIANT JobsMatchGroups
