SPECIFICATION Spec
CONSTANTS
  MaxWrappers = 16
  Limit = 2
  StatsMagic = 7
  StatsVersion = 1
  MaxSlots = 2
  TableMagic = 9
  TableVersion = 1
  MaxEntries = 2
  MaxText = 1
  WordBits = 3
INVARIANTS VariablesListed LayoutComplete NodesResolve TasksTold CatalogTrue
CHECK_DEADLOCK FALSE
