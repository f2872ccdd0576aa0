------------------------------ MODULE Sgtl5000 ------------------------------
(* The registers of the codec (sgtl5000.h) and the calls main of           *)
(* sgtl5000_test.c makes to set it up.                                     *)
EXTENDS Integers, Sequences

CHIP_ID           == 0      \* 0x0000
CHIP_DIG_POWER    == 2
CHIP_CLK_CTRL     == 4
CHIP_I2S_CTRL     == 6
CHIP_SSS_CTRL     == 10     \* 0x000a
CHIP_ADCDAC_CTRL  == 14
CHIP_PAD_STRENGTH == 20
CHIP_ANA_CTRL     == 36
CHIP_REF_CTRL     == 40
CHIP_ANA_POWER    == 48
CHIP_PLL_CTRL     == 50     \* 0x0032

\* The registers after power-up (data sheet of the SGTL5000).
PowerUpValue == [r \in {CHIP_ID, CHIP_DIG_POWER, CHIP_CLK_CTRL, CHIP_I2S_CTRL,
                        CHIP_SSS_CTRL, CHIP_ADCDAC_CTRL, CHIP_PAD_STRENGTH,
                        CHIP_ANA_CTRL, CHIP_REF_CTRL, CHIP_ANA_POWER,
                        CHIP_PLL_CTRL} |->
    CASE r = CHIP_ID           -> 40977    \* 0xA011
      [] r = CHIP_CLK_CTRL     -> 8
      [] r = CHIP_I2S_CTRL     -> 16
      [] r = CHIP_SSS_CTRL     -> 16
      [] r = CHIP_ADCDAC_CTRL  -> 524      \* 0x020C
      [] r = CHIP_PAD_STRENGTH -> 351      \* 0x015F
      [] r = CHIP_ANA_CTRL     -> 273      \* 0x0111
      [] r = CHIP_ANA_POWER    -> 28768    \* 0x7060
      [] r = CHIP_PLL_CTRL     -> 20480    \* 0x5000
      [] OTHER                 -> 0]

Rd(r) == << [op |-> "Rd", reg |-> r, val |-> 0] >>
Wr(r, v) == << [op |-> "Wr", reg |-> r, val |-> v] >>
WrRd(r, v) == Wr(r, v) \o Rd(r)

\* Divisors of the PLL, 12.5 MHz to 180.6336 MHz: 14 and 923/2048.
Setup == Rd(CHIP_ID)
         \o WrRd(CHIP_PLL_CTRL, 14 * 2 ^ 11 + 923)
         \o WrRd(CHIP_ANA_POWER, 17918)    \* 0x45FE
         \o WrRd(CHIP_REF_CTRL, 78)        \* 0x004E
         \o WrRd(CHIP_DIG_POWER, 99)       \* 0x0063
         \o WrRd(CHIP_CLK_CTRL, 7)
         \o WrRd(CHIP_I2S_CTRL, 128)
         \o WrRd(CHIP_ANA_CTRL, 4)
         \o WrRd(CHIP_SSS_CTRL, 16)
         \o Rd(CHIP_ANA_CTRL)
         \o WrRd(CHIP_ADCDAC_CTRL, 0)
         \o Rd(CHIP_PAD_STRENGTH)
=============================================================================
