CONSTANTS
  ka = ka
  kb = kb
  kc = kc
  kd = kd
  ke = ke
  NULL = NULL
  Capacity = 5
  Word = 16
  Keys = {ka, kb, kc, kd, ke}
  LongKeys = {ke}
  Values = {v1, v2, v3, v4}
  Hash <- MCHash
  Handlers = {h1, h2}
  ApiValues = {v1, v2}
  CallbackMay = {"put", "remove", "clear"}
SPECIFICATION CommandSpec
SYMMETRY Symmetry
INVARIANTS
  TypeOK
  CountersMatch
  Reachable
PROPERTIES
  ForeachVisitsEachOnce
  ImplementsDictionary
  DispatchesRegistered
