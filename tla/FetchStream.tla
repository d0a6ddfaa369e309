---------------------------- MODULE FetchStream ----------------------------
(***************************************************************************)
(* What the fetch side of the instruction cache promises the IF stage: a   *)
(* stream of words that starts at the latest branch target and then runs   *)
(* through memory without a gap, a repetition or a reordering, each word   *)
(* marked faulty exactly when its data is.                                 *)
(***************************************************************************)
CONSTANTS Addr, NoAddr, Nothing, Versions, NextAddr(_)

VARIABLES pc,       \* address of the next word the consumer is to receive
          fetched   \* the word it received at the last edge, or Nothing

Init == pc = NoAddr /\ fetched = Nothing

\* The word at pc, from a memory whose data names the address it is stored at.
WordAt(a, version, faulty) ==
    [data |-> [line |-> a.line, beat |-> a.beat, ver |-> version, bad |-> faulty],
     err  |-> faulty]

Deliver ==
    /\ pc # NoAddr
    /\ \E version \in Versions, faulty \in BOOLEAN : fetched' = WordAt(pc, version, faulty)
Idle    == fetched' = Nothing

\* One clock edge: a word may be taken, and a branch may redirect the stream;
\* in the same cycle the branch wins.
Next == \/ Deliver /\ pc' = NextAddr(pc)
        \/ Idle /\ UNCHANGED pc
        \/ (Deliver \/ Idle) /\ pc' \in Addr

Spec == Init /\ [][Next]_<<pc, fetched>>
=============================================================================
