--------------------------- MODULE MCDeviceStatus ----------------------------
EXTENDS DeviceStatus, TLC

MCScope == {Offline(d) : d \in Device}

\* Requests in flight, and devices, are interchangeable.
Symmetry == Permutations(Slot) \cup Permutations(Device)
=============================================================================
