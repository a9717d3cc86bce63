SPECIFICATION EditSpec
CONSTANTS
  Words = 1
  Byte = {0, 1}
  Zero = 0
  Accesses <- MCOneByte
  Data <- MCOne
  Images <- MCBlank
  Lines = 2
  CacheTypes = {"ASSOCIATIVE", "DIRECTMAPPING"}
  Usages = {2}
PROPERTIES
  AccessIsHeld
