-------------------------------- MODULE Ports ---------------------------------
(***************************************************************************)
(* The port bus: which component an address reaches, and the address the   *)
(* component sees (src/ports.cpp).  The constructor of a component         *)
(* connects it, so the list is in the order in which Arch constructs them. *)
(* The processor and memory have no ports.                                 *)
(***************************************************************************)
EXTENDS Integers, Sequences

\* `mask' is one less than a power of two: the range starts at `start' and the
\* component sees the low bits.
Devices == << [component |-> "PIC", start |-> 32,   mask |-> 1],
              [component |-> "PIT", start |-> 64,   mask |-> 3],
              [component |-> "PPI", start |-> 96,   mask |-> 3],
              [component |-> "FDC", start |-> 1008, mask |-> 7] >>

Owns(device, port) == port \in device.start .. device.start + device.mask

\* The first owner in the list is asked, the others are not.
DeviceAt(port) ==
  LET owners == {i \in DOMAIN Devices : Owns(Devices[i], port)}
  IN  IF owners = {}
      THEN [component |-> "None", start |-> port, mask |-> 0]
      ELSE Devices[CHOOSE i \in owners : \A j \in owners : i <= j]

ComponentAt(port) == DeviceAt(port).component

LocalAddress(port) == port % (DeviceAt(port).mask + 1)
=============================================================================
