CONSTANTS
  Documents <- MCDocuments
  WidgetOverridden <- MCWidgetOverridden
  FieldOverridden <- MCFieldOverridden
SPECIFICATION Spec
INVARIANT WalkInPreOrder
CHECK_DEADLOCK FALSE
