--------------------------- MODULE ActivitySketch ---------------------------
(***************************************************************************)
(* The activity sketch from the last part of setup(), which programs the    *)
(* sensor and then attaches the interrupt handler, into loop().  The sensor *)
(* reports events as soon as its registers say so, attached or not.  A      *)
(* reset of the board leaves the sensor as it is, in the middle of its      *)
(* program or running the whole of it.                                      *)
(***************************************************************************)
EXTENDS Integers, ImuEvents, SensorProgram

VARIABLES
    LineCounter,    \* what setup() has done of the program and after it
    FUNC_CFG,       \* the bank of registers that is selected
    reg,            \* the registers of each bank
    stray           \* a byte of the program missed the memory (ghost)

chip == <<FUNC_CFG, reg, stray>>
avars == <<vars, LineCounter, chip>>

TotalNumberOfLine == Len(lsm6dsox_activity_recognition_for_mobile)

Registers == {CTRL1_XL, CTRL2_G, CTRL3_C, MD1_CFG, PAGE_SEL, EMB_FUNC_EN_A,
              EMB_FUNC_EN_B, PAGE_ADDRESS, PAGE_VALUE, MLC_INT1, PAGE_RW, MLC_ODR}

Bit(n, byte) == (byte \div 2^n) % 2 = 1

\* The sensor reports an event of this source on INT1.
Reports(s) ==
    /\ reg[Main][CTRL1_XL] # 0 /\ Bit(1, reg[Main][MD1_CFG])
    /\ IF s = "mlc" THEN Bit(4, reg[Embedded][EMB_FUNC_EN_B])
                         /\ Bit(0, reg[Embedded][MLC_INT1])
                    ELSE Bit(3, reg[Embedded][EMB_FUNC_EN_A])

\* A status lasts until it is read, instead of ending by itself.
Latched == Bit(7, reg[Embedded][PAGE_RW])

ActivityInit ==
    /\ Init
    /\ LineCounter = -1
    /\ FUNC_CFG = Main /\ stray = FALSE
    /\ reg = [b \in {Main, Embedded} |-> [r \in Registers |-> 0]]

\* AccGyr.begin(), Enable_X() and Enable_G(), written to the bank that happens
\* to be selected.
Begin ==
    /\ pc = "setup" /\ LineCounter = -1
    /\ LineCounter' = 0
    /\ reg' = [reg EXCEPT ![FUNC_CFG][CTRL1_XL] = \h40, ![FUNC_CFG][CTRL2_G] = \h40]
    /\ UNCHANGED <<vars, FUNC_CFG, stray>>

\* The memory of the sensor can be written.
MemoryOpen ==
    /\ FUNC_CFG = Embedded /\ Bit(6, reg[Embedded][PAGE_RW])
    /\ ~Bit(4, reg[Embedded][EMB_FUNC_EN_B])

Write_Reg(address, data) ==
    /\ stray' = (stray \/ (address = PAGE_VALUE /\ ~MemoryOpen))
    /\ IF address = FUNC_CFG_ACCESS
       THEN FUNC_CFG' = data /\ UNCHANGED reg
       ELSE reg' = [reg EXCEPT ![FUNC_CFG][address] = data] /\ UNCHANGED FUNC_CFG

\* The loop over the table.
Program ==
    /\ pc = "setup" /\ LineCounter \in 0..(TotalNumberOfLine - 1)
    /\ LET l == lsm6dsox_activity_recognition_for_mobile[LineCounter + 1]
       IN  Write_Reg(l[1], l[2])
    /\ LineCounter' = LineCounter + 1
    /\ UNCHANGED vars

\* AccGyr.Enable_Pedometer() selects the bank it needs and then the main one.
Enable_Pedometer ==
    /\ pc = "setup" /\ LineCounter = TotalNumberOfLine
    /\ LineCounter' = LineCounter + 1
    /\ reg' = [reg EXCEPT ![Embedded][EMB_FUNC_EN_A] = \h08]
    /\ FUNC_CFG' = Main
    /\ UNCHANGED <<vars, stray>>

Attach ==
    /\ LineCounter = TotalNumberOfLine + 1 /\ attachInterrupt
    /\ UNCHANGED <<LineCounter, chip>>

setup == Begin \/ Program \/ Enable_Pedometer \/ Attach

Pass == loop /\ UNCHANGED <<LineCounter, chip>>

Reset ==
    /\ Restart
    /\ LineCounter' = -1 /\ stray' = FALSE
    /\ UNCHANGED <<FUNC_CFG, reg>>

Begins(s) == Reports(s) /\ Detect(s) /\ UNCHANGED <<LineCounter, chip>>

Ends(s) == (Latched => seen[s]) /\ Expire(s) /\ UNCHANGED <<LineCounter, chip>>

ActivityNext ==
    setup \/ Pass \/ Reset \/ \E s \in Sources : Begins(s) \/ Ends(s)

\* The core calls loop() for ever and the wearer goes on moving.  A status
\* lasts for one sample of the sensor and events are many samples apart, so
\* that the two sources do not keep the line high in turns for ever.
ActivitySpec ==
    /\ ActivityInit /\ [][ActivityNext]_avars
    /\ WF_avars(Pass)
    /\ WF_avars(Begins("mlc"))
    /\ \A s \in Sources : WF_avars(Ends(s)) /\ SF_avars(Ends(s) /\ LineLow')

-----------------------------------------------------------------------------

\* The program is loaded into the sensor's memory while that is open and the
\* classifier off, though the table switches banks in between and a reset may
\* have left the sensor anywhere in it; and when setup() is done the sensor
\* reports both kinds of events, with the main bank selected for loop().
SensorIsSet ==
    /\ ~stray
    /\ pc # "setup" => FUNC_CFG = Main /\ \A s \in Sources : Reports(s)

\* The handler is attached to the rising edge of a sensor that runs already,
\* so an edge can be gone by then and another hide behind a status that
\* lasts; but the program does not latch the statuses, so that a board that
\* is not reset any more goes on to handle events for ever.
NotDeaf == <>[](pc # "setup") => []<>(pc = "clear")
=============================================================================
