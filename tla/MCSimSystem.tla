---------------------------- MODULE MCSimSystem ----------------------------
(***************************************************************************)
(* The three test systems with programs that use some of their channels in *)
(* every possible way; the elements around them halt in the first cycle.   *)
(***************************************************************************)
EXTENDS SimSystem

MCPackets == [tag : {0}, data : {0, 1}]
Index     == {[tag |-> 0, data |-> 0]}
Word      == {[tag |-> 0, data |-> 1]}

\* Everything an instruction may do with the inputs of an element and with outputs
\* on which a set of packets is sent: one packet may go to many outputs.
Sendings(sendable) ==
    UNION {{[b \in to |-> p] : p \in {q \in MCPackets : \A b \in to : q \in sendable[b]}} :
             to \in SUBSET DOMAIN sendable}
Using(inputs, sendable) ==
    {Nothing} \cup [dequeues : SUBSET inputs, sends : Sendings(sendable), halts : {FALSE}]
        \cup [dequeues : SUBSET inputs, sends : {<< >>}, halts : {TRUE}]

Halting == {[Nothing EXCEPT !.halts = TRUE]}
On(s, used) ==
    [system   |-> s,
     programs |-> [e \in s.elements |-> IF e \in DOMAIN used THEN used[e] ELSE Halting]]

\* One element reads at one port and writes.
Single ==
    On(build_pets_system,
       [e \in {0} |-> Using({In(0, North)},
                            [b \in {Out(0, North), Out(0, South), Out(0, West)} |->
                                IF b.direction = West THEN Word ELSE Index])])

\* The two elements of the first row send to each other.
Pair ==
    On(build_qts_system,
       [e \in {0, 1} |->
           LET d == IF e = 0 THEN East ELSE West
           IN  Using({In(e, d)}, [b \in {Out(e, d)} |-> MCPackets])])

\* One element sends the addresses of the write port, another the words.
Apart ==
    On(build_qts_system,
       [e \in {2, 3} |-> Using({}, [b \in {Out(e, South)} |->
                                       IF e = 2 THEN Index ELSE MCPackets])])

\* Two elements of different quartets, one below the other, one sending.
Across ==
    On(build_bts_system,
       [e \in {6, 10} |-> IF e = 6 THEN Using({}, [b \in {Out(6, South)} |-> MCPackets])
                          ELSE Using({In(10, North)}, << >>)])

MCScenarios == [single |-> Single, pair |-> Pair, apart |-> Apart, across |-> Across]
=============================================================================
