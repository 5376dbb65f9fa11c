SPECIFICATION DocumentsFairSpec
CONSTANTS
  contract = contract
  ann = ann
  Document = {contract}
  OwnerOf <- MCOwnerOf
  Upload = {1, 2}
  Recovery = {r1, r2}
  ScanSize = 1
  MaxStops = 2
  NoDocument = none
INVARIANTS FilesAndVersionsAgree
PROPERTIES OrphansAreRemoved
