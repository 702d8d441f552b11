---------------------------- MODULE MCImageStore ----------------------------
(* Constant values for model-checking ImageStore: one source file that may *)
(* hold a disk image, some other bytes or nothing, imported as a kernel    *)
(* and as an OS image under two labels, with its digest pinned and not.    *)
EXTENDS ImageStore, TLC

CONSTANTS disk, other, empty, file

MCGeometry == (disk :> "raw") @@ (other :> None) @@ (empty :> None)

Kernel(expected) ==
  [kind |-> "kernel", path |-> file, label |-> None, expected |-> expected]
Image(label, expected) ==
  [kind |-> "os_image", path |-> file, label |-> label, expected |-> expected]

MCWorkload == {Kernel(disk), Image("a", None), Image("b", disk)}
=============================================================================
