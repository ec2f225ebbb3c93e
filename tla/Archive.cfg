CONSTANTS
  WordMod = 1024
  ChunkMax = 4
  Calls <- MCCalls
  Archives <- MCArchives
  Sources <- Senders
  BlockOf <- Block
  FileOf <- File
  Dearchived <- dearchive
SPECIFICATION Spec
INVARIANTS ArgumentsArrive ListsAreWhole 
PROPERTY ReadingEnds
