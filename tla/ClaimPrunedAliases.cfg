SPECIFICATION Spec
CONSTANTS
  llm = llm
  Upstream = {u}
  Name = {a, n}
  Alias = {a}
  Capability = {llm, image}
  Client = {c}
  Session = {p1}
  Request = {r}
  Defaults = {a}
  Infer <- InferLlm
  MaxChanges = 5
PROPERTY FallbackAliasesSurvive
CHECK_DEADLOCK FALSE
