----------------------------- MODULE MCHostRun -----------------------------
(***************************************************************************)
(* A host program for one element: copying an input word, writing words of  *)
(* its own, or both; and one for a quartet, whose south elements write, one  *)
(* the indices and the other the data.                                      *)
(***************************************************************************)
EXTENDS HostRun

MCInputs == << 101, 102 >>

Copy  == << Ask(1), SendIndex(2), Forwarding, SendIndex(3), SendData(103), Halt >>
Store == << SendIndex(3), SendData(104), SendIndex(2), SendData(105), Halt >>
Swap  == << SendIndex(2), Ask(1), Ask(0), Forwarding, SendIndex(3), Forwarding, Halt >>

\* The same with pauses, in which one channel is ahead of another, or in which the host
\* asks whether the device has halted.
Paused(p, n) == FlattenSeq([k \in DOMAIN p |-> [i \in 1 .. n |-> Idle] \o << p[k] >>])
Paces(p, n)  == {p, Paused(p, 1), Paused(p, n)}

\* Of element 3 the mapper cuts off the last words, which its program leaves unused.
Indices == << SendIndex(6), SendIndex(7), Halt >>
Data    == << SendData(104), SendData(105), Halt >>

MCPrograms == [e \in Elements |->
    IF System = "element" THEN UNION {Paces(p, 3) : p \in {Copy, Store, Swap}}
    ELSE CASE e \in {0, 1} -> {<< Halt >>}
           [] e = 2 -> Paces(Indices, 12)
           [] e = 3 -> Paces(Data, 12)]

\* The programs of the element have an outcome.
ASSUME ProgramsAssumption == System = "element" => \A p \in MCPrograms[0] : WellFormed(p)
=============================================================================
