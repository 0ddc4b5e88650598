SPECIFICATION Spec
CONSTANTS
  fa = fa
  fb = fb
  fc = fc
  Fragments <- ThreeFragments
  Hosts <- AllHosts
  Lengths <- OneToThree
  Original = 7
  Scale = 100
  Missing = Missing
  MaxChanges = 2
  Changing <- SomeSeats
INVARIANTS
  BuiltReceiptsAreValid
  BuiltReceiptsTellTheTexts
  ValidReceiptsAggregate
  ModifiedReceiptsFail
CHECK_DEADLOCK FALSE
