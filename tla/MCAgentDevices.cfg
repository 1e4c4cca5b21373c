CONSTANTS
  Cids = {1, 2, 3, 4}
  Devs = {1, 2, 3}
  VolumTotal <- MCVolumTotal
  Reqs <- MCReqs
  MinPort = 1
  MaxPort = 4
SPECIFICATION Spec
INVARIANTS ADTypeOK VolumesExact PortsExact SelectComplete
