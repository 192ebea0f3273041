SPECIFICATION FairSpec
CONSTANTS
  Bad = Bad
  NoPattern = Bad
  PACKAGES <- MCPackages
  Hits <- MCHits
  Pages <- MCPages
  Root = "package"
  Anchors = {"m"}
  Linearization <- MCLinearization
  HiddenClasses = {"AnyRef"}
  Members <- MCMembers
  Finds <- MCFinds
  Addresses <- MCAddresses
  Budgets <- MCBudgets
INVARIANTS
  TypeOK
  ListIsAnswer
  LinksAgree
  PageNamed
  MembersOnce
PROPERTY WindowSettles
CHECK_DEADLOCK FALSE
