CONSTANTS
  alice = alice
  bob = bob
  q1 = q1
  q2 = q2
  Accounts = {alice, bob}
  Queries = {q1, q2}
  Kinds <- TheKinds
  MaxTurns = 2
  Paths <- ThePaths
  Trees <- TheTrees
  Updates <- TheUpdates
  Commands <- TheCommands
  MaxChanges = 2
  Characters <- TheCharacters
  Alphabet <- TheAlphabet
  MaxLength = 2
SYMMETRY CatalogSymmetry
SPECIFICATION MCSpec
INVARIANT TypeOK
INVARIANT ListingIsSound
PROPERTY UserListIsSound
