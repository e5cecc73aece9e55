---------------------------- MODULE TiaMachine ----------------------------
(***************************************************************************)
(* The machine a programmer of a processing element sees, and the one the  *)
(* functional simulator executes: in each cycle the triggered instruction  *)
(* of highest priority fires and all of its effects happen at once.        *)
(* Packets arrive on the input channels and leave the output channels in   *)
(* any cycle, whether an instruction fires or not.                         *)
(*                                                                         *)
(* The cores are compared with this machine.  Nothing obliges a core to    *)
(* fire in a given cycle.                                                  *)
(***************************************************************************)
EXTENDS TiaIsa

CONSTANTS
    StrictPriority,
        \* TRUE: an instruction fires only when no instruction of higher priority
        \* is triggered.  FALSE: one that waits for a channel may be passed over,
        \* as happens in cores that know the channel status only approximately.
    HaltedDequeues
        \* TRUE: instructions behind a halt may still take packets.

VARIABLES
    prog,   \* the instruction memory, highest priority first
    arch,   \* registers, predicates, scratchpad, input and output queues
    halted  \* a halt has fired

vars == << prog, arch, halted >>

-----------------------------------------------------------------------------
Eligible ==
    LET s     == arch
        empty == {c \in InputChannels : s.inq[c] = << >>}
        full  == {c \in OutputChannels : Len(s.outq[c]) >= ChannelDepth}
        tag   == [c \in InputChannels \ empty |-> Head(s.inq[c]).tag]
    IN  {i \in DOMAIN prog : Triggered(prog[i], s.preds, empty, full, tag)}

WaitsForChannels(ins) == ins.checks # {} \/ ins.oci # {}

\* The instructions that may fire next.
Choices ==
    LET eligible == Eligible
    IN  {i \in eligible : \A j \in eligible :
            j < i => ~StrictPriority /\ WaitsForChannels(prog[j])}

\* What the environment does to the queues of a state s in the same cycle, where
\* out are the output queues before the cycle: at most one packet more at the
\* back of an input queue, one less at the front of an output queue.
Environment(s, out, next) ==
    /\ \A c \in InputChannels :
          \/ next.inq[c] = s.inq[c]
          \/ \E p \in Packet : next.inq[c] = Append(s.inq[c], p)
    /\ \A c \in OutputChannels :
          \/ next.outq[c] = s.outq[c]
          \/ out[c] # << >> /\ next.outq[c] = Tail(s.outq[c])

Init ==
    /\ arch.preds = {}
    /\ \A c \in InputChannels : arch.inq[c] = << >>
    /\ \A c \in OutputChannels : arch.outq[c] = << >>
    /\ ~halted

\* Instruction i fires.
Fire(i) ==
    LET s     == arch
        after == Execute(prog[i], s)
        next  == arch'
    IN  /\ ~halted
        /\ i \in Choices
        /\ next.regs = after.regs
        /\ next.preds = after.preds
        /\ next.spad = after.spad
        /\ Environment(after, s.outq, next)
        /\ halted' = (prog[i].op = "halt")

\* No instruction fires.
Idle ==
    LET s    == arch
        next == arch'
    IN  /\ next.regs = s.regs
        /\ next.preds = s.preds
        /\ next.spad = s.spad
        /\ Environment(s, s.outq, next)
        /\ UNCHANGED halted

\* After a halt the pipelined cores still let the instructions behind it write
\* registers, predicates and the scratchpad, and the deeper ones dequeue, but
\* nothing is sent any more.
HaltShadow ==
    LET s    == arch
        next == arch'
    IN  /\ halted
        /\ \E icd \in SUBSET InputChannels :
              /\ HaltedDequeues \/ icd = {}
              /\ Environment([s EXCEPT !.inq = Dequeued(@, icd)], s.outq, next)
        /\ UNCHANGED halted

Next ==
    /\ UNCHANGED prog
    /\ \/ \E i \in DOMAIN prog : Fire(i)
       \/ Idle
       \/ HaltShadow

Spec == Init /\ [][Next]_vars
=============================================================================
