--------------------------- MODULE MCModbusSlave ---------------------------
(* Requests to this slave and others, of which some do not fit the buffer  *)
(* bufIn, and a clock that wraps at any point of an exchange.              *)
EXTENDS ModbusSlave

Read(length) == [own |-> TRUE, function |-> "FC_READ_HOLDING_REGISTERS", index |-> 0,
                 register |-> 1, length |-> length]
Configure == [own |-> TRUE, function |-> "FC_WRITE_MULTIPLE_REGISTERS", index |-> 255,
              register |-> 5, length |-> 4]
Identify == [own |-> TRUE, function |-> "FC_WRITE_MULTIPLE_REGISTERS", index |-> 1,
             register |-> 2, length |-> 0]
Coil == [own |-> TRUE, function |-> "FC_WRITE_COIL", index |-> 0, register |-> 0,
         length |-> 65280]
Strange == [own |-> TRUE, function |-> "Unknown", index |-> 0, register |-> 0, length |-> 0]
Other == [own |-> FALSE, function |-> "FC_READ_HOLDING_REGISTERS", index |-> 0,
          register |-> 1, length |-> 1]

\* With MaxIn = 9, Configure is longer than bufIn, and Identify just fits.
OtherWrite == [Configure EXCEPT !.own = FALSE]
MCScripts == {<<Configure, Read(1)>>, <<Configure, Configure>>,
              <<OtherWrite, Identify, Read(1)>>, <<Identify, Identify>>,
              <<Other, Read(40)>>, <<Coil, Read(9)>>}

\* In the header, at the end of Identify, and three bytes in a row that leave eight
\* before them.
MCFaulty == {2, 9, 10, 11}

MCGarbled == {Other, Strange, Read(40), Configure}
============================================================================
