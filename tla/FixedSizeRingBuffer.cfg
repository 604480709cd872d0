\* As many slots as Radio gives each of its queues.
SPECIFICATION Spec
CONSTANTS
  Size = 5
  Value = {v1, v2, v3}
  Vacant = Vacant
INVARIANT
  WindowIsExact
PROPERTY
  ImplementsBoundedQueue
