SPECIFICATION Spec
INVARIANT ConditionForced
