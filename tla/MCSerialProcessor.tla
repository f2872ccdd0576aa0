------------------------- MODULE MCSerialProcessor -------------------------
(* Three bits; every function and every route occurs in some setting.      *)
EXTENDS SerialProcessor

Setting(f, r) == [F |-> f, R |-> r]

MCSwitches == {Setting(0, 2), Setting(1, 1), Setting(2, 2), Setting(3, 1),
               Setting(4, 2), Setting(5, 1), Setting(6, 2), Setting(7, 0),
               Setting(7, 1), Setting(0, 3)}
=============================================================================
