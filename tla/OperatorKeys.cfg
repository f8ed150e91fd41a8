SPECIFICATION Spec
CONSTANT Forms <- KeyForms
INVARIANT OperatorsCustomizable
CHECK_DEADLOCK FALSE
