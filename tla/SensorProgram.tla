--------------------------- MODULE SensorProgram ---------------------------
(***************************************************************************)
(* The table lsm6dsox_activity_recognition_for_mobile: 2224 writes of a     *)
(* byte to a register of the sensor, in this order.  They switch the bank   *)
(* of registers, load 733 bytes of decision trees into four pages of the    *)
(* sensor's memory, and start its classifier.  The bytes loaded are         *)
(* abstract (all 0); every other byte is that of the table.                 *)
(***************************************************************************)
EXTENDS Naturals, Sequences

\* The registers.  FUNC_CFG_ACCESS is there in both banks and selects one.
CTRL1_XL == \h10
CTRL2_G == \h11
CTRL3_C == \h12
MD1_CFG == \h5E
FUNC_CFG_ACCESS == \h01
PAGE_SEL == \h02
EMB_FUNC_EN_A == \h04
EMB_FUNC_EN_B == \h05
PAGE_ADDRESS == \h08
PAGE_VALUE == \h09
MLC_INT1 == \h0D
PAGE_RW == \h17
MLC_ODR == \h60

Main == \h00
Embedded == \h80

\* The bytes at first to last of a page: each takes a write of the page, one
\* of the address and one of the byte.
Bytes(page, first, last) ==
    [i \in 1..(3 * (last - first + 1)) |->
      CASE i % 3 = 1 -> <<PAGE_SEL, page>>
        [] i % 3 = 2 -> <<PAGE_ADDRESS, first + i \div 3>>
        [] i % 3 = 0 -> <<PAGE_VALUE, 0>>]

\* Mutated: a classifier that runs is not switched off.
Stop_running == << <<CTRL1_XL, 0>>, <<CTRL2_G, 0>>, <<FUNC_CFG_ACCESS, Embedded>>,
                   <<PAGE_RW, \h40>> >>

\* The sensor is stopped and its memory opened for writing.
Stop == << <<CTRL1_XL, 0>>, <<CTRL2_G, 0>>, <<FUNC_CFG_ACCESS, Embedded>>,
           <<EMB_FUNC_EN_B, 0>>, <<PAGE_RW, \h40>> >>

Page1 == Bytes(\h11, \hEA, \hF0) \o Bytes(\h11, \hF2, \hF2) \o Bytes(\h11, \hFA, \hFF)
Page3 == Bytes(\h31, \h3C, \hFF)
Page4 == Bytes(\h41, \h00, \h07) \o Bytes(\h41, \h42, \h4C)

\* A write in the main bank, after which the memory is opened again.
Reopen == << <<FUNC_CFG_ACCESS, Main>>, <<CTRL3_C, 0>>,
             <<FUNC_CFG_ACCESS, Embedded>>, <<PAGE_RW, \h40>> >>

Page4Trees == Bytes(\h41, \h4E, \hFF)
Page5 == Bytes(\h51, \h00, \hFF)
Page6 == Bytes(\h61, \h00, \h45)

\* Mutated: the statuses of the embedded functions are latched.
Close_latched == << <<FUNC_CFG_ACCESS, Embedded>>, <<PAGE_RW, \h80>> >>

Close == << <<FUNC_CFG_ACCESS, Embedded>>, <<PAGE_RW, \h00>> >>

\* The classifier and the accelerometer are started and the classifier is
\* led to the interrupt line INT1.
Run == << <<EMB_FUNC_EN_A, 0>>, <<EMB_FUNC_EN_B, \h10>>, <<PAGE_SEL, \h01>>,
          <<FUNC_CFG_ACCESS, Main>>, <<CTRL3_C, \h44>>,
          <<FUNC_CFG_ACCESS, Embedded>>, <<MLC_ODR, \h15>>,
          <<FUNC_CFG_ACCESS, Main>>, <<CTRL1_XL, \h28>>, <<CTRL2_G, 0>>,
          <<MD1_CFG, \h02>>,
          <<FUNC_CFG_ACCESS, Embedded>>, <<MLC_INT1, \h01>>,
          <<FUNC_CFG_ACCESS, Main>> >>

lsm6dsox_activity_recognition_for_mobile ==
    Stop \o Page1 \o Page3 \o Page4 \o Reopen \o Page4Trees \o Page5 \o Page6
         \o Close \o Run
=============================================================================
