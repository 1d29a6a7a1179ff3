SPECIFICATION Spec
CONSTANTS
    NodeIds = {3}
    MaxAge = 3
INVARIANT EstimateIsOwn
