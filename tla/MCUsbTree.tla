----------------------------- MODULE MCUsbTree -----------------------------
(* Small instances of UsbTree: a root port that takes a hub or a disk, two  *)
(* ports below it, one of which takes a hub, and a port below that.         *)
EXTENDS UsbTree

McLocs == {<<1>>, <<1, 1>>, <<1, 2>>, <<1, 2, 1>>}
McMayHold == [l \in McLocs |-> CASE l = <<1>>       -> {"hub", "disk"}
                                 [] l = <<1, 1>>    -> {"disk"}
                                 [] l = <<1, 2>>    -> {"hub", "plain"}
                                 [] l = <<1, 2, 1>> -> {"disk"}]
=============================================================================
