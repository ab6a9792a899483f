SPECIFICATION Spec
CONSTANTS
  Program = {p1, p2}
  Configs <- SomeConfigs
  Generated = {"amq.gen-1", "amq.gen-2"}
  None = None
SYMMETRY Symmetry
INVARIANTS TypeOK TopologyIsSetUp RefusedOnlyByClash CreatedIsChecked LeftOpenByBrokerOnly
