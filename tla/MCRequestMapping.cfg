CONSTANTS
  Types <- AllTypes
  Services <- AllServices
  Given <- OptionalMembers
  MaxOptional = 2
SPECIFICATION MappingSpec
INVARIANTS ParametersReachOCS OneSession UsedWithinReserved ResponseFits
CHECK_DEADLOCK FALSE
