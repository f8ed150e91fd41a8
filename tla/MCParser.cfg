SPECIFICATION Spec
CONSTANT Forms <- MCForms
INVARIANTS TypeOK PrecedenceAsTable GroupingExact TextOrder FlagsExact NoEmptyArray ErrorsReported CaretOnCulprit StringRoundTrip
CHECK_DEADLOCK FALSE
