SPECIFICATION FairSpec
CONSTANTS
  a = a  b = b  c = c  d = d  e = e  empty = empty  p = p  q = q  long = long
  Texts = {a, b, c, d, e, empty}
  IllegalTexts = {empty}  Ingested = {a, b, c, empty}
  Predicates = {p, q, long}
  IllegalPredicates = {long}
  Payloads <- MCPayloads
  MaxEntities = 3
INVARIANTS
  Acyclic RanksRespectEdges CycleRejectionsJustified
  TraversalsAgree EvidenceIsExact
PROPERTIES
  CallsReturn
