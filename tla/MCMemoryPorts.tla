--------------------------- MODULE MCMemoryPorts ---------------------------
(***************************************************************************)
(* Two tags and two words.  As an index one word selects the first word of *)
(* the RAM, the other, cut to the width of an index, the second.  In a RAM *)
(* of three words five is cut to the second index and three names no word. *)
(***************************************************************************)
EXTENDS MemoryPorts

SmallPackets == [tag : {0, 1}, data : {0, 3}]
SomePackets  == {[tag |-> 0, data |-> 0], [tag |-> 1, data |-> 3]}

OddPackets     == [tag : {0, 1}, data : {3, 5}]
SomeOddPackets == {[tag |-> 0, data |-> 5], [tag |-> 1, data |-> 3]}
=============================================================================
