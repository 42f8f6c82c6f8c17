SPECIFICATION Spec
CONSTANTS
  llm = llm
  Upstream = {u}
  Name = {a, n}
  Alias = {a}
  Capability = {llm, image}
  Client = {c}
  Session = {p1, p2}
  Request = {r}
  Defaults = {a}
  Infer <- InferLlm
  MaxChanges = 5
INVARIANTS
  TypeOK
  RoutesHaveEnds
  RestrictedClientsStayRestricted
PROPERTIES
  DefaultsServeTheirAlias
SYMMETRY Symmetry
CHECK_DEADLOCK FALSE
