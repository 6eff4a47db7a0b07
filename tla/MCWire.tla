------------------------------- MODULE MCWire -------------------------------
(* Instances of Wire for TLC: texts of different lengths, no word in them  *)
(* that reads the same from both ends, and an image's packet that fills    *)
(* the receive buffer.                                                     *)
EXTENDS Wire

MCTcpMessages ==
    {[kind |-> "FirstData", addr |-> <<49, 50>>, port |-> <<4, 98>>],
     [kind |-> "TestStruct", a |-> <<116>>, b |-> <<0, 0, 0, 1>>,
      c |-> <<63, 232, 0, 0, 0, 0, 0, 0>>, d |-> << <<0, 0, 0, 2>>, <<0, 0, 1, 6>> >>],
     [kind |-> "TestStruct", a |-> << >>, b |-> <<255, 255, 255, 254>>,
      c |-> <<0, 0, 0, 0, 0, 0, 0, 0>>, d |-> << >>]}

MCUdpMessages ==
    {[kind |-> "TestMessage", message |-> <<104, 105>>],
     [kind |-> "TestMessage", message |-> << >>],
     [kind |-> "Image", bytes |-> [i \in 1 .. 12 |-> 200 + i]],
     [kind |-> "Image", bytes |-> <<7>>]}
=============================================================================
