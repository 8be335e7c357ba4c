SPECIFICATION FilterSpec
CONSTANTS
  alice = alice
  daemon = daemon
  bob = bob
  root = root
  example = example
  NoDomain = NoDomain
  Sender = {alice, daemon}
  Recipient = {bob, root}
  Domain = {example}
  DomainOf <- MCDomainOf
  MaxRequests = 2
  MaxChanges = 2
INVARIANTS FilterTypeOK FilteredAsDocumented CountsConserved
