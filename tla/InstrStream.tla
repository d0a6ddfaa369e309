----------------------------- MODULE InstrStream -----------------------------
(***************************************************************************)
(* What the IF stage is promised by whatever fetches for it, the prefetch  *)
(* buffer or the instruction cache: the instructions that follow one       *)
(* another in memory from the latest branch target on, 16 or 32 bits long, *)
(* each with an error exactly when a half-word it needs came with one.     *)
(* Once an error has been handed over nothing is promised before the next  *)
(* branch.                                                                 *)
(*                                                                         *)
(* A half-word that was fetched is [at, c, bad]: its address, whether it   *)
(* reads as a compressed instruction, and whether the bus reported an      *)
(* error for it.  An address counts half-words.                            *)
(***************************************************************************)
CONSTANTS HalfAddr, NextHalf(_), NoPc, Lost, Nothing

VARIABLES pc,       \* address of the next instruction to hand over
          taken     \* the instruction the IF stage took at the last edge

Init == pc = NoPc /\ taken = Nothing

\* instr is the instruction at address a.
IsInstrAt(instr, a) ==
    /\ instr.lo.at = a
    /\ instr.err = (instr.lo.bad \/ (~instr.lo.c /\ instr.hi.bad))
    /\ instr.err => instr.plus2 = ~instr.lo.bad
    /\ ~instr.lo.bad /\ ~instr.lo.c => instr.hi.at = NextHalf(a)

Take == /\ pc # NoPc /\ taken' # Nothing
        /\ pc # Lost => IsInstrAt(taken', pc)
Idle == taken' = Nothing

PcAfter(instr) ==
    IF pc = Lost \/ instr.err THEN Lost
    ELSE IF instr.lo.c THEN NextHalf(pc) ELSE NextHalf(NextHalf(pc))

\* One clock edge: an instruction may be taken and a branch may redirect the
\* stream; in the same cycle the branch wins.
Next == \/ Take /\ pc' = PcAfter(taken')
        \/ Idle /\ UNCHANGED pc
        \/ (Take \/ Idle) /\ pc' \in HalfAddr

Spec == Init /\ [][Next]_<<pc, taken>>
=============================================================================
