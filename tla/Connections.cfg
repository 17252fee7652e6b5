SPECIFICATION Spec
INVARIANT BoundaryIsSound
PROPERTY HandoverIsProven
PROPERTY ParentsAreTold
CHECK_DEADLOCK FALSE
