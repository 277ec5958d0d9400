SPECIFICATION LifeSpec
CONSTANTS
  Ids = {w1, w2}
  Root = root
  Nodes = {n1, n2, n3}
  Objs = {o1, o2, o3}
  Null = null
  MaxClose = 0
  MaxEvents = 3
  Self = self
  Apart = TRUE
  Managers = {self, other}
  Compositors = {compositor}
  Nobody = nobody
INVARIANT ShTypeOK
INVARIANT SafeIfQuiet
INVARIANT CloseAsksAll
INVARIANT OneManager
PROPERTY CloseFinishes
CHECK_DEADLOCK FALSE
