SPECIFICATION Spec
INVARIANTS OneTransport RecordedIsServed
PROPERTY ImplementsSwitch
