----------------------------- MODULE MCUsbPages -----------------------------
(***************************************************************************)
(* Instance of UsbPages for TLC: two sticks; one model on the machine, and *)
(* models on a stick, so that there are two pages when it is plugged in.   *)
(***************************************************************************)
EXTENDS UsbPages

TwoSticks == {"usb0", "usb1"}
Found     == <<"kept", "sole", "heel", "last">>
Where     == [m \in {"kept", "sole", "heel", "last"} |->
               IF m = "kept" THEN "local" ELSE IF m = "last" THEN "usb1" ELSE "usb0"]

=============================================================================
