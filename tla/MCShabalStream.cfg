SPECIFICATION StreamSpec
CONSTANTS
  Kinds = {"sph", "sse2", "simd128", "simd256", "simd512"}
  Pieces <- MCPieces
  MaxWords <- MCMaxWords
  Messages <- MCMessages
INVARIANTS
  DigestOfAllPieces
  BufHoldsTheRest
