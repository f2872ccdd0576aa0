---------------------------- MODULE MCCodecSetup ----------------------------
(* CodecSetup with the calls of main and the codec's registers.            *)
EXTENDS CodecSetup, Sgtl5000

MCPowerUp == {0, 255}
=============================================================================
