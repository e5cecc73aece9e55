--------------------------- MODULE MemoryService ---------------------------
(***************************************************************************)
(* What a memory promises the processing elements: each read port answers  *)
(* every request once, in order, with the tag of the request and the word  *)
(* the memory holds when the request is served; each write port pairs the  *)
(* n-th address with the n-th word.  Reads and writes of one step take     *)
(* place on the memory as it was before the step.                          *)
(***************************************************************************)
EXTENDS Naturals, Sequences

CONSTANTS
    ReadPorts, WritePorts,
    Packet,   \* [tag, data] records; the data of an address packet is an index
    Size,     \* number of words
    Reach     \* number of indices, at least Size

VARIABLES
    ram,        \* the words
    requests,   \* packets on their way to each read port
    answers,    \* packets on their way from each read port
    addresses,  \* packets on their way to the address side of each write port
    data        \* and to its data side

vars == << ram, requests, answers, addresses, data >>

Words == {p.data : p \in Packet}

Index(packet) == packet.data % Reach

\* Nobody says what is read where there is no word.
Answers(request) ==
    LET i == Index(request)
    IN  {[tag |-> request.tag, data |-> w] : w \in IF i < Size THEN {ram[i]} ELSE Words}

Grows(new, old) == new = old \/ \E p \in Packet : new = Append(old, p)

Init ==
    /\ ram \in [0 .. Size - 1 -> Words]
    /\ requests = [p \in ReadPorts |-> << >>]
    /\ answers = [p \in ReadPorts |-> << >>]
    /\ addresses = [p \in WritePorts |-> << >>]
    /\ data = [p \in WritePorts |-> << >>]

\* The oldest answer of a port may be taken; a port that serves gives another.
Read(p, serving) ==
    LET rest == IF p \in serving THEN Tail(requests[p]) ELSE requests[p]
    IN  /\ p \in serving => requests[p] # << >>
        /\ Grows(requests'[p], rest)
        /\ \E given \in IF p \in serving THEN {<< a >> : a \in Answers(Head(requests[p]))}
                                         ELSE {<< >>} :
              \/ answers'[p] = answers[p] \o given
              \/ answers[p] # << >> /\ answers'[p] = Tail(answers[p]) \o given

Write(p, writing) ==
    LET rest(q) == IF p \in writing THEN Tail(q[p]) ELSE q[p]
    IN  /\ p \in writing => addresses[p] # << >> /\ data[p] # << >>
        /\ Grows(addresses'[p], rest(addresses))
        /\ Grows(data'[p], rest(data))

\* Of two writes to one address in one step either may remain; one to an index
\* without a word leaves nothing.
Stored(writing) ==
    \A a \in 0 .. Size - 1 :
        LET writers == {p \in writing : Index(Head(addresses[p])) = a}
        IN  IF writers = {} THEN ram'[a] = ram[a]
            ELSE \E p \in writers : ram'[a] = Head(data[p]).data

Next ==
    \E serving \in SUBSET ReadPorts, writing \in SUBSET WritePorts :
        /\ \A p \in ReadPorts : Read(p, serving)
        /\ \A p \in WritePorts : Write(p, writing)
        /\ Stored(writing)

Spec == Init /\ [][Next]_vars
=============================================================================
