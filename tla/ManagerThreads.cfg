SPECIFICATION Spec
INVARIANTS
    
    RequestsServed
PROPERTIES
    RunEnds
    ConnectEnds
