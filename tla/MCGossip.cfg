SPECIFICATION Spec
CONSTANTS
  one = one
  two = two
  seal = seal
  Aggregators <- MCAggregators
  Peers <- MCPeers
  Blocks <- MCBlocks
  KeyPaths <- MCKeyPaths
  Certificates <- MCCertificates
  Cosigs <- MCCosigs
  Entries <- MCEntries
  Posts <- MCPosts
  MaxFaults = 1
PROPERTIES
  CountsNameTheState
  EverythingSpreads
