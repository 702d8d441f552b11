---------------------------- MODULE MCLifecycle ----------------------------
(* Constant values for model-checking Lifecycle: two instances, two CPUs   *)
(* and one whose id is ambiguous, a split IOMMU group and a device without *)
(* one, and memory laid out so that growth can meet a neighbour, the end   *)
(* of a region or the end of the address space.                            *)
EXTENDS Lifecycle, TLC

CONSTANTS c1, c2, cx, d1, d2, d3

MCCpuLists == {<<>>, <<c1>>, <<c2>>, <<c1, c2>>, <<c1, c1>>, <<cx>>}
MCDeviceLists == {<<d1>>, <<d1, d2>>, <<d3>>}
MCIommuGroup == (d1 :> 7) @@ (d2 :> 7) @@ (d3 :> None)
Region(base, bytes) == [base |-> base, bytes |-> bytes]
MCLayouts ==
  {{}, {Region(0, 3)}, {Region(0, 2), Region(4, 2)}}
=============================================================================
