SPECIFICATION ClientSpec
INVARIANTS
  ConnectionClosed
