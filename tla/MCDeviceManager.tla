---- MODULE MCDeviceManager ----
EXTENDS DeviceManager, TLC

Symmetry == Permutations(Workers) \cup Permutations(Ids) \cup Permutations(Devices) \cup Permutations(Ports)
====
