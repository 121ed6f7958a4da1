---------------------------- MODULE MCUsbStorage ----------------------------
(* UsbStorage with every request of up to two blocks on a small device.    *)
EXTENDS UsbStorage

MCRequests == [op : {"READ", "WRITE", "OTHER"}, number : 0 .. 1, count : 0 .. 2]
=============================================================================
