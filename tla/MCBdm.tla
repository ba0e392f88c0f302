------------------------------- MODULE MCBdm -------------------------------
(* Instances of Bdm for TLC: sticks that come and go in slot 0.             *)
EXTENDS Bdm

MCTypeOf == [d \in Devices |-> "usb"]
MCHome   == [d \in Devices |-> {0}]

\* The sticks on; manual start with only the SD card slot on; off.
Sources == {[mode |-> "auto", on |-> {"usb"}], [mode |-> "manual", on |-> {"sdc"}],
            [mode |-> "off", on |-> {"usb"}]}

\* Off, with a network transport selected.
OffSources == {[mode |-> "auto", on |-> {"usb"}], [mode |-> "off", on |-> {"usb", "udp"}]}
=============================================================================
