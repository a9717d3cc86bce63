SPECIFICATION CacheSpec
CONSTANTS
  Words = 5
  Byte = {0, 1}
  Zero = 0
  Accesses <- MCNonZero
  Data <- MCNull
  Images <- MCMarked
  Lines = 3
  CacheTypes = {"ASSOCIATIVE", "DIRECTMAPPING", "NO_CACHE"}
INVARIANTS
  TypeOK
  Coherent
  OneLinePerAddress
  UsageOrdersLines
  FilledIsPrefix
PROPERTIES
  ImplementsFlatMemory
  ImplementsLRU
