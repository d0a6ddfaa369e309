--------------------------- MODULE PrefetchBuffer ---------------------------
(***************************************************************************)
(* ibex_prefetch_buffer.sv and the ibex_fetch_fifo.sv inside it: what      *)
(* fetches instructions when the core is built without the instruction     *)
(* cache.  One step is one rising clock edge; a signal is an operator of   *)
(* the same name, and a packed vector of bits the set of the indices whose *)
(* bit is 1.  Addresses count half-words and wrap.                         *)
(***************************************************************************)
EXTENDS Integers, Sequences, FiniteSets

CONSTANTS
    NUM_REQS,       \* requests that may be outstanding (2 in the RTL)
    NUM_WORDS,      \* words of the modelled address space
    BranchIn,       \* branch targets of a run
    ReqIn, ErrIn    \* values req_i and instr_err_i take in a run

DEPTH    == NUM_REQS + 1
Slot     == 0..(NUM_REQS - 1)
Entry    == 0..(DEPTH - 1)
HalfAddr == 0..(2 * NUM_WORDS - 1)
NoPc     == -1
Lost     == -2
Half     == [at : HalfAddr, c : BOOLEAN, bad : BOOLEAN]
NoHalf   == [at |-> NoPc, c |-> FALSE, bad |-> FALSE]
NoWord   == [lo |-> NoHalf, hi |-> NoHalf]
Nothing  == [lo |-> NoHalf, hi |-> NoHalf, err |-> FALSE, plus2 |-> FALSE]

HalfAfter(h, n) == (h + n) % (2 * NUM_WORDS)
NextHalf(h)     == HalfAfter(h, 1)
WordAligned(h)  == h - (h % 2)
Unaligned(h)    == h % 2 = 1

ASSUME PrefetchAssumption ==
    /\ NUM_REQS \in Nat \ {0} /\ NUM_WORDS \in Nat \ {0}
    /\ BranchIn \subseteq HalfAddr /\ ReqIn \subseteq BOOLEAN /\ ErrIn \subseteq BOOLEAN

VARIABLES
    valid_req_q, discard_req_q, rdata_outstanding_q, branch_discard_q,
    stored_addr_q, fetch_addr_q,
    valid_q, rdata_q, instr_addr_q,     \* of the FIFO
    lost_q,     \* the IF stage took an error since the last branch
    taken,      \* the instruction the IF stage took at the last edge
    bus_q       \* word addresses granted and not answered, oldest first

req_vars  == <<valid_req_q, discard_req_q, rdata_outstanding_q, branch_discard_q,
               stored_addr_q, fetch_addr_q, bus_q>>
fifo_vars == <<valid_q, rdata_q, instr_addr_q>>
vars      == <<req_vars, fifo_vars, lost_q, taken>>

branch_i(in) == in.addr # NoPc

(***************************************************************************)
(* Requests.                                                               *)
(***************************************************************************)
\* The FIFO entries above the first one, overlaid with the outstanding
\* requests from the top, show whether there is room for one more.
\* Mutant: room is not kept for what is outstanding.
fifo_ready_NoOverlay == \E i \in Slot : i + 1 \notin valid_q
\* Mutant: no request while the FIFO holds anything.
fifo_ready_Empty == valid_q = {}
fifo_ready == \E i \in Slot : /\ i + 1 \notin valid_q
                              /\ NUM_REQS - 1 - i \notin rdata_outstanding_q

valid_new_req(in) == /\ in.req
                     /\ fifo_ready \/ branch_i(in)
                     /\ NUM_REQS - 1 \notin rdata_outstanding_q
valid_req(in)     == valid_req_q \/ valid_new_req(in)
granted(in)       == valid_req(in) /\ in.gnt
\* Mutant: a branch does not cancel a request that waits for its grant.
discard_req_d_Keeps(in) == valid_req_q /\ discard_req_q
discard_req_d(in) == valid_req_q /\ (branch_i(in) \/ discard_req_q)

\* Mutant: a branch redirects a request that waits for its grant.
instr_addr_Redirects(in) == CASE branch_i(in) -> in.addr
                              [] ~branch_i(in) /\ valid_req_q -> stored_addr_q
                              [] OTHER -> fetch_addr_q
instr_addr(in) == CASE valid_req_q -> stored_addr_q
                    [] ~valid_req_q /\ branch_i(in) -> in.addr
                    [] OTHER -> fetch_addr_q

\* A granted request takes the lowest free place of the queue.
rdata_outstanding_n(in) ==
    rdata_outstanding_q \cup
    {i \in Slot : granted(in) /\ (i = 0 \/ i - 1 \in rdata_outstanding_q)}
branch_discard_n(in) ==
    branch_discard_q
    \cup {i \in Slot : /\ granted(in) /\ discard_req_d(in)
                       /\ i = 0 \/ i - 1 \in rdata_outstanding_q}
    \cup (IF branch_i(in) THEN rdata_outstanding_q ELSE {})

ShiftedDown(bits) == {i \in Slot : i + 1 \in bits}

(***************************************************************************)
(* The FIFO: its input, its output port and the instruction aligner.       *)
(***************************************************************************)
in_valid(in) == in.rvalid /\ 0 \notin branch_discard_q
in_rdata(in) == [lo |-> [at |-> Head(bus_q), c |-> in.lo_c, bad |-> in.err],
                 hi |-> [at |-> NextHalf(Head(bus_q)), c |-> in.hi_c, bad |-> in.err]]

rdata(in)  == IF 0 \in valid_q THEN rdata_q[0] ELSE IF in_valid(in) THEN in_rdata(in) ELSE NoWord
second(in) == IF 1 \in valid_q THEN rdata_q[1] ELSE IF in_valid(in) THEN in_rdata(in) ELSE NoWord
err(in)    == rdata(in).lo.bad
valid(in)  == 0 \in valid_q \/ in_valid(in)

unaligned_is_compressed(in) == rdata(in).hi.c /\ ~err(in)
aligned_is_compressed(in)   == rdata(in).lo.c /\ ~err(in)
valid_unaligned(in) == 1 \in valid_q \/ (0 \in valid_q /\ in_valid(in))

err_unaligned(in) ==
    IF 1 \in valid_q
    THEN (rdata_q[1].lo.bad /\ ~unaligned_is_compressed(in)) \/ err(in)
    ELSE \/ 0 \in valid_q /\ err(in)
         \/ in.err /\ (0 \notin valid_q \/ ~unaligned_is_compressed(in))
err_plus2(in) == IF 1 \in valid_q THEN rdata_q[1].lo.bad /\ ~err(in)
                 ELSE in.err /\ 0 \in valid_q /\ ~err(in)

out_valid(in) ==
    IF Unaligned(instr_addr_q) /\ ~unaligned_is_compressed(in)
    THEN valid_unaligned(in) ELSE valid(in)
out_instr(in) ==
    IF Unaligned(instr_addr_q)
    THEN [lo |-> rdata(in).hi, hi |-> second(in).lo,
          err |-> err_unaligned(in), plus2 |-> err_plus2(in)]
    ELSE [lo |-> rdata(in).lo, hi |-> rdata(in).hi, err |-> err(in), plus2 |-> FALSE]

addr_incr_two(in) == IF Unaligned(instr_addr_q) THEN unaligned_is_compressed(in)
                                                ELSE aligned_is_compressed(in)
\* in.ready is ready_i in a cycle in which an instruction is on offer.
pop_fifo(in) == in.ready /\ (~aligned_is_compressed(in) \/ Unaligned(instr_addr_q))

lowest_free_entry == {i \in Entry \ valid_q : i = 0 \/ i - 1 \in valid_q}
valid_pushed(in)  == valid_q \cup (IF in_valid(in) THEN lowest_free_entry ELSE {})
valid_popped(in)  == IF pop_fifo(in) THEN {i \in Entry : i + 1 \in valid_pushed(in)}
                                     ELSE valid_pushed(in)
valid_d(in)       == IF branch_i(in) THEN {} ELSE valid_popped(in)
entry_en(in, i)   == \/ pop_fifo(in) /\ i + 1 \in valid_pushed(in)
                     \/ in_valid(in) /\ i \in lowest_free_entry /\ ~pop_fifo(in)
rdata_d(in, i)    == IF i + 1 \in valid_q THEN rdata_q[i + 1] ELSE in_rdata(in)

(***************************************************************************)
(* The registers.  An address before the first branch, and the data of an  *)
(* entry that is not valid, are never read and kept at one value.          *)
(***************************************************************************)
Init ==
    /\ valid_req_q = FALSE /\ discard_req_q = FALSE
    /\ rdata_outstanding_q = {} /\ branch_discard_q = {}
    /\ stored_addr_q = NoPc /\ fetch_addr_q = NoPc
    /\ valid_q = {} /\ rdata_q = [i \in Entry |-> NoWord] /\ instr_addr_q = NoPc
    /\ lost_q = FALSE /\ taken = Nothing /\ bus_q = <<>>

RequestRegs(in) ==
    LET new == valid_new_req(in) /\ ~valid_req_q
    IN  /\ valid_req_q' = (valid_req(in) /\ ~in.gnt)
        /\ discard_req_q' = discard_req_d(in)
        /\ rdata_outstanding_q' = IF in.rvalid THEN ShiftedDown(rdata_outstanding_n(in))
                                               ELSE rdata_outstanding_n(in)
        /\ branch_discard_q' = IF in.rvalid THEN ShiftedDown(branch_discard_n(in))
                                            ELSE branch_discard_n(in)
        /\ stored_addr_q' = IF new /\ ~in.gnt THEN instr_addr(in) ELSE stored_addr_q
        /\ fetch_addr_q' =
              LET base == IF branch_i(in) THEN in.addr ELSE WordAligned(fetch_addr_q)
              IN  IF ~branch_i(in) /\ ~new THEN fetch_addr_q
                  ELSE HalfAfter(base, IF new THEN 2 ELSE 0)

FifoRegs(in) ==
    /\ valid_q' = valid_d(in)
    /\ rdata_q' = [i \in Entry |-> IF i \notin valid_d(in) THEN NoWord
                                   ELSE IF entry_en(in, i) THEN rdata_d(in, i) ELSE rdata_q[i]]
    /\ instr_addr_q' = CASE branch_i(in) -> in.addr
                         [] ~branch_i(in) /\ in.ready ->
                              HalfAfter(instr_addr_q, IF addr_incr_two(in) THEN 1 ELSE 2)
                         [] OTHER -> instr_addr_q

Output(in) ==
    /\ taken' = IF in.ready THEN out_instr(in) ELSE Nothing
    /\ lost_q' = (~branch_i(in) /\ (lost_q \/ (in.ready /\ out_instr(in).err)))

\* The memory side answers granted requests in order.
Bus(in) ==
    LET rest == IF in.rvalid THEN Tail(bus_q) ELSE bus_q
    IN  bus_q' = IF in.gnt THEN Append(rest, WordAligned(instr_addr(in))) ELSE rest

Inputs == [addr : BranchIn \cup {NoPc}, req : ReqIn, gnt : BOOLEAN, rvalid : BOOLEAN,
           err : ErrIn, lo_c : BOOLEAN, hi_c : BOOLEAN, ready : BOOLEAN]

\* The core makes no request before its first branch; an input that nothing
\* reads in this cycle is FALSE.
Env(in) ==
    /\ in.req => branch_i(in) \/ fetch_addr_q # NoPc
    /\ in.gnt => valid_req(in)
    /\ in.rvalid => bus_q # <<>>
    /\ in.err \/ in.lo_c \/ in.hi_c => in.rvalid
    /\ in.ready => instr_addr_q # NoPc /\ out_valid(in)

Step(in) == Env(in) /\ RequestRegs(in) /\ FifoRegs(in) /\ Output(in) /\ Bus(in)
Next == \E in \in Inputs : Step(in)
Spec == Init /\ [][Next]_vars

-----------------------------------------------------------------------------
(***************************************************************************)
(* Properties.                                                             *)
(***************************************************************************)
Word == [lo : Half, hi : Half]

\* The registers keep their widths, and an entry of the FIFO that is marked
\* valid holds a word that was fetched (valid_d and entry_en agree).
TypeOK ==
    /\ valid_req_q \in BOOLEAN /\ discard_req_q \in BOOLEAN
    /\ rdata_outstanding_q \in SUBSET Slot /\ branch_discard_q \in SUBSET Slot
    /\ stored_addr_q \in HalfAddr \cup {NoPc} /\ fetch_addr_q \in HalfAddr \cup {NoPc}
    /\ valid_q \in SUBSET Entry /\ rdata_q \in [Entry -> Word \cup {NoWord}]
    /\ \A i \in valid_q : rdata_q[i] \in Word
    /\ instr_addr_q \in HalfAddr \cup {NoPc} /\ lost_q \in BOOLEAN
    /\ bus_q \in Seq(HalfAddr)

\* The instructions the IF stage takes are those of the abstract stream: no
\* word that was requested before a branch reaches it after the branch, none is
\* skipped or repeated, and an error is reported for the instruction it hits.
Stream == INSTANCE InstrStream
            WITH pc <- IF lost_q THEN Lost ELSE instr_addr_q
InstrsInOrder == Stream!Spec

\* "Must not push to FIFO when full": the next response, unless a branch has
\* cancelled it, finds room, however the pops, branches and grants fall.
RoomForResponses ==
    /\ bus_q # <<>> /\ 0 \notin branch_discard_q => DEPTH - 1 \notin valid_q
    /\ Cardinality(valid_q) + Cardinality(rdata_outstanding_q \ branch_discard_q) <= DEPTH

\* The outstanding queue has one bit per request on the bus, from 0 on, what a
\* branch cancelled is older than what it did not, and all of it is cancelled
\* while a cancelled request still waits for its grant.
QueueMatchesBus ==
    /\ rdata_outstanding_q = 0..(Len(bus_q) - 1)
    /\ branch_discard_q \subseteq rdata_outstanding_q
    /\ \A i \in branch_discard_q : 0..i \subseteq branch_discard_q
    /\ valid_req_q /\ discard_req_q => rdata_outstanding_q = branch_discard_q

\* The queue, the FIFO and what is on the bus fit together.
PrefetchInv == TypeOK /\ QueueMatchesBus /\ RoomForResponses

\* A request stays on the bus with its address until it is granted, also when
\* a branch has made it useless.
RequestHeld ==
    [][valid_req_q => \/ valid_req_q' /\ UNCHANGED stored_addr_q
                      \/ /\ ~valid_req_q' /\ bus_q' # <<>>
                         /\ bus_q'[Len(bus_q')] = WordAligned(stored_addr_q)]_vars

\* The buffer and the IF stage never wait for one another: with nothing on the
\* bus and no whole instruction to take there is room for the next request.
Idle == [addr |-> NoPc, req |-> TRUE, gnt |-> FALSE, rvalid |-> FALSE, err |-> FALSE,
         lo_c |-> FALSE, hi_c |-> FALSE, ready |-> FALSE]
NeverWedged == bus_q = <<>> /\ ~valid_req_q /\ ~out_valid(Idle) => fifo_ready
=============================================================================
