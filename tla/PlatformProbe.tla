----------------------------- MODULE PlatformProbe -----------------------------
(***************************************************************************)
(* 02_Platform_driver/main.c: test_probe and test_remove for the devices   *)
(* of a device tree, with the driver core around them, which gives back    *)
(* what a device holds when its probe fails or after its remove.           *)
(*                                                                         *)
(* A register region belongs to one device at a time; nodes may name the   *)
(* same one.  Left out: the values that are read and logged.               *)
(***************************************************************************)
CONSTANTS
  Devices,
  Regions,     \* of physical memory
  Control,     \* the region a device's node names "control"
  Data         \* and the one it names "data"

ASSUME NodeAssumption == Control \in [Devices -> Regions] /\ Data \in [Devices -> Regions]

VARIABLES
  probe,       \* the call test_probe of each device is about to make
  dtc_data,    \* the devices whose struct test_dtb_data is allocated
  claimed,     \* the regions each device has requested and mapped
  missing      \* history: the calls of the last probe that have failed

probe_vars == <<probe, dtc_data, claimed, missing>>

Calls == {"devm_kzalloc", "get_control", "ioremap_control", "get_data", "ioremap_data",
          "irq_rx", "irq_tx", "device-name", "buffer-size"}

ProbeTypeOK ==
  /\ probe \in [Devices -> Calls \cup {"unbound", "bound", "release"}]
  /\ dtc_data \subseteq Devices
  /\ claimed \in [Devices -> SUBSET Regions]
  /\ missing \in [Devices -> SUBSET Calls]

ProbeInit ==
  /\ probe = [d \in Devices |-> "unbound"] /\ dtc_data = {}
  /\ claimed = [d \in Devices |-> {}] /\ missing = [d \in Devices |-> {}]

-----------------------------------------------------------------------------

Advances(d, from, to) == probe[d] = from /\ probe' = [probe EXCEPT ![d] = to]

\* A call fails, and probe goes to a step.
Fails(d, call, next) ==
  /\ Advances(d, call, next)
  /\ missing' = [missing EXCEPT ![d] = @ \cup {call}]
  /\ UNCHANGED <<dtc_data, claimed>>

\* The driver core finds the compatible string.
Match(d) ==
  /\ Advances(d, "unbound", "devm_kzalloc")
  /\ missing' = [missing EXCEPT ![d] = {}]
  /\ UNCHANGED <<dtc_data, claimed>>

AllocateData(d) ==
  \/ /\ Advances(d, "devm_kzalloc", "get_control")
     /\ dtc_data' = dtc_data \cup {d}
     /\ UNCHANGED <<claimed, missing>>
  \/ Fails(d, "devm_kzalloc", "release")

\* Mutant: ret is not looked at.
LookUpUnchecked(d, call, next) ==
  \/ /\ Advances(d, call, next)
     /\ UNCHANGED <<dtc_data, claimed, missing>>
  \/ Fails(d, call, next)

\* platform_get_resource_byname, of_property_read_string and
\* of_property_read_u32, whose failure ends the probe.
LookUp(d, call, next) ==
  \/ /\ Advances(d, call, next)
     /\ UNCHANGED <<dtc_data, claimed, missing>>
  \/ Fails(d, call, "release")

\* devm_ioremap_resource fails with an error pointer, never with NULL: the probe
\* goes on.  It fails when another device, or this one, has requested the region.
IoremapResource(d, call, region, next) ==
  \/ /\ \A e \in Devices : region \notin claimed[e]
     /\ Advances(d, call, next)
     /\ claimed' = [claimed EXCEPT ![d] = @ \cup {region}]
     /\ UNCHANGED <<dtc_data, missing>>
  \/ Fails(d, call, next)

\* platform_get_irq_byname fails with a negative number, and ret, which is
\* tested, is still 0.
GetIrq(d, call, next) ==
  \/ /\ Advances(d, call, next)
     /\ UNCHANGED <<dtc_data, claimed, missing>>
  \/ Fails(d, call, next)

test_probe(d) ==
  \/ AllocateData(d)
  \/ LookUp(d, "get_control", "ioremap_control")
  \/ IoremapResource(d, "ioremap_control", Control[d], "get_data")
  \/ LookUp(d, "get_data", "ioremap_data")
  \/ IoremapResource(d, "ioremap_data", Data[d], "irq_rx")
  \/ GetIrq(d, "irq_rx", "irq_tx")
  \/ GetIrq(d, "irq_tx", "device-name")
  \/ LookUp(d, "device-name", "buffer-size")
  \/ LookUp(d, "buffer-size", "bound")

\* Unbinding, or the end of the driver; test_remove itself does nothing.
test_remove(d) ==
  /\ Advances(d, "bound", "release")
  /\ UNCHANGED <<dtc_data, claimed, missing>>

\* devres_release_all
ReleaseAll(d) ==
  /\ Advances(d, "release", "unbound")
  /\ dtc_data' = dtc_data \ {d} /\ claimed' = [claimed EXCEPT ![d] = {}]
  /\ UNCHANGED missing

ProbeNext == \E d \in Devices : Match(d) \/ test_probe(d) \/ test_remove(d) \/ ReleaseAll(d)

ProbeSpec == ProbeInit /\ [][ProbeNext]_probe_vars

-----------------------------------------------------------------------------
(* Properties *)

Mapped(d) == (IF "ioremap_control" \in missing[d] THEN {} ELSE {Control[d]})
               \cup (IF "ioremap_data" \in missing[d] THEN {} ELSE {Data[d]})

\* However probes of devices that name the same region overlap and fail, a bound
\* device has its data, its name and size were read, and each base pointer is
\* the mapping of a region that no other device has or the error pointer of the
\* call that failed; an unbound one holds nothing, so that the next can have it.
ProbeHolds ==
  \A d \in Devices :
    /\ probe[d] = "bound" =>
         /\ d \in dtc_data /\ claimed[d] = Mapped(d)
         /\ missing[d] \subseteq {"ioremap_control", "ioremap_data", "irq_rx", "irq_tx"}
         /\ Control[d] = Data[d] => missing[d] \cap {"ioremap_control", "ioremap_data"} # {}
         /\ \A e \in Devices \ {d} : claimed[d] \cap claimed[e] = {}
    /\ probe[d] = "unbound" => d \notin dtc_data /\ claimed[d] = {}
=============================================================================
