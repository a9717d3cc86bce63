SPECIFICATION CacheSpec
CONSTANTS
  Words = 2
  Byte = {0, 1}
  Zero = 0
  Accesses <- MCMixed
  Data <- MCOne
  Images <- MCImages
  Lines = 2
  CacheTypes = {"ASSOCIATIVE", "DIRECTMAPPING"}
INVARIANTS
  ByteReadIsAByte
