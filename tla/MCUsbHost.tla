----------------------------- MODULE MCUsbHost ------------------------------
(* UsbHost with a keyboard, a mouse of the other speed, and a device that   *)
(* no driver claims.                                                        *)
EXTENDS UsbHost

MCSpeed == [k \in {"keyboard", "mouse", "other"} |->
                IF k = "mouse" THEN "LS" ELSE "FS"]
=============================================================================
