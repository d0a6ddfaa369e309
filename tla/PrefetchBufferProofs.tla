------------------------ MODULE PrefetchBufferProofs ------------------------
(***************************************************************************)
(* The FIFO of the prefetch buffer never overflows, nothing waits for ever *)
(* on the other side, and the IF stage gets the instruction stream, for    *)
(* every NUM_REQS and every size of the address space.                     *)
(*                                                                         *)
(* The three bit vectors are runs of ones from bit 0 on.  The first half   *)
(* of the argument is about their lengths: v entries are valid, n requests *)
(* are outstanding, and a branch has cancelled the first d of them.  The   *)
(* second half is about what the valid entries and the n - d live requests *)
(* are for: words that follow one another from instr_addr_q on.            *)
(***************************************************************************)
EXTENDS PrefetchBuffer, FiniteSetTheorems, TLAPS

Ones(k) == 0..(k - 1)
Less1(k) == IF k = 0 THEN 0 ELSE k - 1

Lengths(v, n, d) ==
    /\ v \in 0..DEPTH /\ n \in 0..NUM_REQS /\ d \in 0..n
    /\ valid_q = Ones(v) /\ rdata_outstanding_q = Ones(n) /\ branch_discard_q = Ones(d)
    /\ Len(bus_q) = n

\* Room for the responses to come, and for the one of a request that waits for
\* its grant and has not been cancelled.
Room(v, n, d) ==
    /\ v + n - d <= DEPTH
    /\ valid_req_q => n < NUM_REQS
    /\ valid_req_q /\ discard_req_q => d = n
    /\ valid_req_q /\ ~discard_req_q => v + n - d < DEPTH

PrefetchIInv ==
    /\ TypeOK
    /\ valid_req_q => stored_addr_q # NoPc
    /\ \E v, n, d \in Nat : Lengths(v, n, d) /\ Room(v, n, d)

-----------------------------------------------------------------------------
(* Runs of ones.                                                           *)
LEMMA GrowOnes ==
  ASSUME NEW k \in Nat
  PROVE  Ones(k) \cup {k} = Ones(k + 1)
<1>1. ASSUME NEW i PROVE i \in Ones(k) \/ i = k <=> i \in Ones(k + 1)
  BY DEF Ones
<1>. QED
  BY <1>1

LEMMA NextOne ==
  ASSUME NEW k \in Nat, NEW m \in Nat, k < m
  PROVE  {i \in 0..(m - 1) : i = 0 \/ i - 1 \in Ones(k)} \cup Ones(k) = Ones(k + 1)
<1>1. ASSUME NEW i
      PROVE  (i \in 0..(m - 1) /\ (i = 0 \/ i - 1 \in Ones(k))) \/ i \in Ones(k)
               <=> i \in Ones(k + 1)
  BY DEF Ones
<1>. QED
  BY <1>1

LEMMA FirstFree ==
  ASSUME NEW k \in Nat, NEW m \in Nat, k < m
  PROVE  {i \in (0..(m - 1)) \ Ones(k) : i = 0 \/ i - 1 \in Ones(k)} = {k}
<1>1. ASSUME NEW i
      PROVE  i \in (0..(m - 1)) \ Ones(k) /\ (i = 0 \/ i - 1 \in Ones(k)) <=> i = k
  BY DEF Ones
<1>. QED
  BY <1>1

LEMMA ShiftOnes ==
  ASSUME NEW k \in Nat, NEW m \in Nat, k <= m
  PROVE  {i \in 0..(m - 1) : i + 1 \in Ones(k)} = Ones(Less1(k))
<1>1. ASSUME NEW i
      PROVE  i \in 0..(m - 1) /\ i + 1 \in Ones(k) <=> i \in Ones(Less1(k))
  BY DEF Ones, Less1
<1>. QED
  BY <1>1

LEMMA LargerOnes ==
  ASSUME NEW k \in Nat, NEW m \in Nat
  PROVE  Ones(k) \cup Ones(m) = IF k <= m THEN Ones(m) ELSE Ones(k)
<1>1. ASSUME NEW i PROVE i \in Ones(k) \/ i \in Ones(m) <=> i \in (IF k <= m THEN Ones(m) ELSE Ones(k))
  BY DEF Ones
<1>. QED
  BY <1>1

LEMMA CountOnes ==
  ASSUME NEW k \in Nat, NEW m \in Nat, m <= k
  PROVE  Cardinality(Ones(k)) = k /\ Cardinality(Ones(k) \ Ones(m)) = k - m
<1>1. Cardinality(Ones(k)) = k
  BY FS_Interval DEF Ones
<1>2. \A i : i \in Ones(k) \ Ones(m) <=> i \in m..(k - 1)
  BY DEF Ones
<1>3. Ones(k) \ Ones(m) = m..(k - 1)
  BY <1>2
<1>4. Cardinality(m..(k - 1)) = IF m > k - 1 THEN 0 ELSE (k - 1) - m + 1
  <2>1. m \in Int /\ k - 1 \in Int
    OBVIOUS
  <2>. QED
    BY <2>1, FS_Interval
<1>5. (IF m > k - 1 THEN 0 ELSE (k - 1) - m + 1) = k - m
  OBVIOUS
<1>. QED
  BY <1>1, <1>3, <1>4, <1>5, Zenon

-----------------------------------------------------------------------------
(* The parts of a clock edge, as facts about the lengths.                  *)
LEMMA AtMostOne ==
  ASSUME NEW in \in Inputs, NEW v, NEW n, NEW d, Lengths(v, n, d), Room(v, n, d),
         valid_new_req(in)
  PROVE  n < NUM_REQS /\ (branch_i(in) \/ v + n < DEPTH)
<1>1. v \in Nat /\ n \in 0..NUM_REQS /\ NUM_REQS \in Nat \ {0} /\ v <= DEPTH
  BY PrefetchAssumption DEF Lengths, DEPTH
<1>2. n < NUM_REQS
  BY <1>1 DEF valid_new_req, Lengths, Ones
<1>3. CASE fifo_ready
  <2>1. PICK i \in Slot : i + 1 \notin Ones(v) /\ NUM_REQS - 1 - i \notin Ones(n)
    BY <1>3 DEF fifo_ready, Lengths
  <2>2. i + 1 >= v /\ NUM_REQS - 1 - i >= n
    BY <1>1, <2>1 DEF Ones, Slot
  <2>. QED
    BY <1>1, <1>2, <2>2 DEF DEPTH, Slot
<1>. QED
  BY <1>2, <1>3 DEF valid_new_req

\* What is outstanding after the edge.
LEMMA Outstanding ==
  ASSUME NEW in \in Inputs, NEW v, NEW n, NEW d, Lengths(v, n, d), Room(v, n, d)
  PROVE  /\ granted(in) => n < NUM_REQS
         /\ rdata_outstanding_n(in) = Ones(IF granted(in) THEN n + 1 ELSE n)
<1>1. n \in Nat /\ NUM_REQS \in Nat
  BY PrefetchAssumption DEF Lengths
<1>2. granted(in) => n < NUM_REQS
  BY AtMostOne DEF granted, valid_req, Room
<1>3. CASE granted(in)
  BY <1>1, <1>2, <1>3, NextOne DEF rdata_outstanding_n, Lengths, Slot
<1>4. CASE ~granted(in)
  BY <1>4 DEF rdata_outstanding_n, Lengths
<1>. QED
  BY <1>2, <1>3, <1>4

Cancelled(in, n, d) == IF branch_i(in) THEN n ELSE d

\* A request that is granted in the cycle of a cancellation is cancelled with all
\* the older ones, so that the cancelled ones are still the oldest.
LEMMA Discarded ==
  ASSUME NEW in \in Inputs, NEW v, NEW n, NEW d, Lengths(v, n, d), Room(v, n, d)
  PROVE  /\ discard_req_d(in) => Cancelled(in, n, d) = n
         /\ branch_discard_n(in) =
              Ones(IF granted(in) /\ discard_req_d(in) THEN n + 1 ELSE Cancelled(in, n, d))
<1>1. n \in Nat /\ d \in Nat /\ d <= n /\ NUM_REQS \in Nat
  BY PrefetchAssumption DEF Lengths
<1>2. discard_req_d(in) => Cancelled(in, n, d) = n
  BY DEF discard_req_d, Cancelled, Room
<1>3. Ones(d) \cup (IF branch_i(in) THEN Ones(n) ELSE {}) = Ones(Cancelled(in, n, d))
  BY <1>1, LargerOnes DEF Cancelled
<1>4. CASE granted(in) /\ discard_req_d(in)
  <2>1. n < NUM_REQS
    BY <1>4, Outstanding
  <2>2. branch_discard_n(in) = {i \in Slot : i = 0 \/ i - 1 \in Ones(n)} \cup Ones(n)
    BY <1>2, <1>3, <1>4 DEF branch_discard_n, Lengths
  <2>. QED
    BY <1>1, <1>2, <1>4, <2>1, <2>2, NextOne DEF Slot
<1>5. CASE ~(granted(in) /\ discard_req_d(in))
  BY <1>2, <1>3, <1>5 DEF branch_discard_n, Lengths
<1>. QED
  BY <1>2, <1>4, <1>5

\* A response that is not discarded is the answer of the oldest request.
LEMMA Response ==
  ASSUME NEW in \in Inputs, NEW v, NEW n, NEW d, Lengths(v, n, d), TypeOK, Env(in)
  PROVE  /\ in.rvalid => n > 0
         /\ in_valid(in) <=> in.rvalid /\ d = 0
         /\ 0 \in branch_discard_q <=> d > 0
<1>1. n \in Nat /\ d \in Nat
  BY PrefetchAssumption DEF Lengths
<1>2. in.rvalid => n > 0
  BY <1>1 DEF Env, Lengths, TypeOK
<1>3. 0 \in branch_discard_q <=> d > 0
  BY <1>1 DEF Lengths, Ones
<1>. QED
  BY <1>1, <1>2, <1>3 DEF in_valid

Pushed(in, v) == IF in_valid(in) THEN v + 1 ELSE v
Kept(in, v)   == IF branch_i(in) THEN 0
                 ELSE IF pop_fifo(in) THEN Less1(Pushed(in, v)) ELSE Pushed(in, v)

\* A word that arrives finds a free entry.
LEMMA FifoLength ==
  ASSUME NEW in \in Inputs, NEW v, NEW n, NEW d, Lengths(v, n, d), Room(v, n, d), TypeOK, Env(in)
  PROVE  /\ in_valid(in) => v < DEPTH
         /\ Pushed(in, v) \in 0..DEPTH
         /\ valid_pushed(in) = Ones(Pushed(in, v))
         /\ valid_d(in) = Ones(Kept(in, v))
<1>1. v \in Nat /\ n \in Nat /\ d \in Nat /\ d <= n /\ DEPTH \in Nat /\ v <= DEPTH
        /\ v + n - d <= DEPTH
  BY PrefetchAssumption DEF Lengths, DEPTH, Room
<1>2. in_valid(in) => v < DEPTH
  BY <1>1, Response
<1>3. Pushed(in, v) \in 0..DEPTH
  BY <1>1, <1>2 DEF Pushed
<1>4. in_valid(in) => lowest_free_entry = {v}
  BY <1>1, <1>2, FirstFree DEF lowest_free_entry, Entry, Lengths
<1>5. valid_pushed(in) = Ones(Pushed(in, v))
  <2>1. CASE in_valid(in)
    BY <1>1, <1>4, <2>1, GrowOnes DEF valid_pushed, Pushed, Lengths
  <2>2. CASE ~in_valid(in)
    BY <2>2 DEF valid_pushed, Pushed, Lengths
  <2>. QED
    BY <2>1, <2>2
<1>6. valid_d(in) = Ones(Kept(in, v))
  <2>1. CASE branch_i(in)
    <3>1. Ones(0) = {}
      BY DEF Ones
    <3>. QED
      BY <2>1, <3>1 DEF valid_d, Kept
  <2>2. CASE ~branch_i(in) /\ pop_fifo(in)
    <3>1. {i \in Entry : i + 1 \in Ones(Pushed(in, v))} = Ones(Less1(Pushed(in, v)))
      BY <1>1, <1>3, ShiftOnes DEF Entry
    <3>. QED
      BY <1>5, <2>2, <3>1 DEF valid_d, valid_popped, Kept
  <2>3. CASE ~branch_i(in) /\ ~pop_fifo(in)
    BY <1>5, <2>3 DEF valid_d, valid_popped, Kept
  <2>. QED
    BY <2>1, <2>2, <2>3
<1>. QED
  BY <1>2, <1>3, <1>5, <1>6

-----------------------------------------------------------------------------
(* Types.                                                                  *)
LEMMA InputTypes ==
  ASSUME NEW in \in Inputs
  PROVE  /\ branch_i(in) => in.addr \in HalfAddr
         /\ in.req \in BOOLEAN /\ in.gnt \in BOOLEAN /\ in.rvalid \in BOOLEAN
         /\ in.err \in BOOLEAN /\ in.lo_c \in BOOLEAN /\ in.hi_c \in BOOLEAN
         /\ in.ready \in BOOLEAN
  BY PrefetchAssumption DEF Inputs, branch_i

LEMMA Addresses ==
  ASSUME NEW h \in HalfAddr
  PROVE  /\ WordAligned(h) \in HalfAddr
         /\ \A k \in 0..2 : HalfAfter(h, k) \in HalfAddr /\ HalfAfter(WordAligned(h), k) \in HalfAddr
         /\ NextHalf(h) \in HalfAddr
<1>1. NUM_WORDS \in Nat \ {0} /\ h \in Nat /\ h < 2 * NUM_WORDS
  BY PrefetchAssumption DEF HalfAddr
<1>2. h % 2 \in 0..1 /\ h % 2 <= h
  BY <1>1
<1>3. WordAligned(h) \in HalfAddr
  BY <1>1, <1>2 DEF WordAligned, HalfAddr
<1>4. \A a, k \in Nat : HalfAfter(a, k) \in HalfAddr
  <2>1. 2 * NUM_WORDS \in Nat \ {0}
    BY <1>1
  <2>2. \A a, k \in Nat : (a + k) % (2 * NUM_WORDS) \in 0..(2 * NUM_WORDS - 1)
    BY <2>1
  <2>. QED
    BY <2>2 DEF HalfAfter, HalfAddr
<1>5. WordAligned(h) \in Nat
  BY <1>3 DEF HalfAddr
<1>6. \A k \in 0..2 : HalfAfter(h, k) \in HalfAddr
  BY <1>1, <1>4
<1>7. \A k \in 0..2 : HalfAfter(WordAligned(h), k) \in HalfAddr
  BY <1>4, <1>5
<1>8. NextHalf(h) \in HalfAddr
  BY <1>1, <1>4 DEF NextHalf
<1>. QED
  BY <1>3, <1>6, <1>7, <1>8

LEMMA Received ==
  ASSUME NEW in \in Inputs, TypeOK, Env(in), in.rvalid
  PROVE  in_rdata(in) \in Word
<1>1. Head(bus_q) \in HalfAddr
  BY DEF Env, TypeOK
<1>. QED
  BY <1>1, Addresses, InputTypes DEF in_rdata, Word, Half

\* valid_d and entry_en agree: what an entry that is valid after the edge holds is a word.
LEMMA FifoTypes ==
  ASSUME NEW in \in Inputs, TypeOK, Env(in), FifoRegs(in)
  PROVE  /\ rdata_q' \in [Entry -> Word \cup {NoWord}]
         /\ \A i \in valid_q' : i \in Entry => rdata_q'[i] \in Word
         /\ instr_addr_q' \in HalfAddr \cup {NoPc}
<1>1. \A i \in valid_q : rdata_q[i] \in Word
  BY DEF TypeOK
<1>2. in_valid(in) => in_rdata(in) \in Word
  BY Received DEF in_valid
<1>3. ASSUME NEW i \in Entry, i \in valid_d(in)
      PROVE  (IF entry_en(in, i) THEN rdata_d(in, i) ELSE rdata_q[i]) \in Word
  <2>1. CASE pop_fifo(in)
    <3>1. i + 1 \in valid_pushed(in)
      BY <1>3, <2>1 DEF valid_d, valid_popped
    <3>2. i + 1 \in valid_q \/ in_valid(in)
      BY <3>1 DEF valid_pushed
    <3>. QED
      BY <1>1, <1>2, <2>1, <3>1, <3>2 DEF entry_en, rdata_d
  <2>2. CASE ~pop_fifo(in)
    <3>1. i \in valid_q \/ (in_valid(in) /\ i \in lowest_free_entry)
      BY <1>3, <2>2 DEF valid_d, valid_popped, valid_pushed
    <3>2. entry_en(in, i) => in_valid(in)
      BY <2>2 DEF entry_en
    <3>3. rdata_d(in, i) \in Word \/ ~in_valid(in)
      BY <1>1, <1>2 DEF rdata_d
    <3>. QED
      BY <1>1, <2>2, <3>1, <3>2, <3>3 DEF entry_en
  <2>. QED
    BY <2>1, <2>2
<1>4. instr_addr_q' \in HalfAddr \cup {NoPc}
  <2>1. CASE branch_i(in)
    BY <2>1, InputTypes DEF FifoRegs
  <2>2. CASE ~branch_i(in) /\ in.ready
    <3>1. instr_addr_q \in HalfAddr
      BY <2>2 DEF Env, TypeOK
    <3>2. instr_addr_q' = HalfAfter(instr_addr_q, IF addr_incr_two(in) THEN 1 ELSE 2)
      BY <2>2 DEF FifoRegs
    <3>3. (IF addr_incr_two(in) THEN 1 ELSE 2) \in 0..2
      OBVIOUS
    <3>. QED
      BY <3>1, <3>2, <3>3, Addresses, Zenon
  <2>3. CASE ~branch_i(in) /\ ~in.ready
    BY <2>3 DEF FifoRegs, TypeOK
  <2>. QED
    BY <2>1, <2>2, <2>3
<1>5. rdata_q' = [i \in Entry |-> IF i \notin valid_d(in) THEN NoWord
                                 ELSE IF entry_en(in, i) THEN rdata_d(in, i) ELSE rdata_q[i]]
        /\ valid_q' = valid_d(in)
  BY DEF FifoRegs
<1>6. rdata_q' \in [Entry -> Word \cup {NoWord}]
  BY <1>3, <1>5
<1>7. \A i \in valid_q' : i \in Entry => rdata_q'[i] \in Word
  BY <1>3, <1>5
<1>. QED
  BY <1>4, <1>6, <1>7

LEMMA RequestTypes ==
  ASSUME NEW in \in Inputs, PrefetchIInv, Env(in), RequestRegs(in), Bus(in)
  PROVE  /\ valid_req_q' \in BOOLEAN /\ discard_req_q' \in BOOLEAN
         /\ stored_addr_q' \in HalfAddr \cup {NoPc} /\ fetch_addr_q' \in HalfAddr \cup {NoPc}
         /\ valid_req_q' => stored_addr_q' # NoPc
         /\ bus_q' \in Seq(HalfAddr)
         /\ Len(bus_q') = Len(bus_q) + (IF in.gnt THEN 1 ELSE 0) - (IF in.rvalid THEN 1 ELSE 0)
<1> DEFINE new == valid_new_req(in) /\ ~valid_req_q
<1>1. TypeOK /\ (valid_req_q => stored_addr_q # NoPc)
  BY DEF PrefetchIInv
<1>2. valid_req_q' \in BOOLEAN /\ discard_req_q' \in BOOLEAN
  <2>1. valid_req_q' = (valid_req(in) /\ ~in.gnt) /\ discard_req_q' = discard_req_d(in)
    BY DEF RequestRegs
  <2>2. (valid_req(in) /\ ~in.gnt) \in BOOLEAN /\ discard_req_d(in) \in BOOLEAN
    BY Zenon DEF discard_req_d
  <2>. QED
    BY <2>1, <2>2, Zenon
<1>3. valid_req(in) => instr_addr(in) \in HalfAddr
  <2>1. CASE valid_req_q
    BY <1>1, <2>1 DEF instr_addr, TypeOK
  <2>2. CASE ~valid_req_q /\ branch_i(in)
    BY <2>2, InputTypes DEF instr_addr
  <2>3. CASE ~valid_req_q /\ ~branch_i(in) /\ valid_req(in)
    <3>1. fetch_addr_q # NoPc
      BY <2>3 DEF valid_req, valid_new_req, Env
    <3>. QED
      BY <1>1, <2>3, <3>1 DEF instr_addr, TypeOK
  <2>. QED
    BY <2>1, <2>2, <2>3
<1>4. stored_addr_q' \in HalfAddr \cup {NoPc} /\ (valid_req_q' => stored_addr_q' # NoPc)
  <2>1. NoPc \notin HalfAddr
    BY DEF HalfAddr, NoPc
  <2>2. stored_addr_q' = (IF new /\ ~in.gnt THEN instr_addr(in) ELSE stored_addr_q)
          /\ (valid_req_q' <=> valid_req(in) /\ ~in.gnt)
    BY DEF RequestRegs
  <2>3. new => valid_req(in)
    BY DEF valid_req
  <2>4. valid_req(in) => new \/ valid_req_q
    BY DEF valid_req
  <2>. QED
    BY <1>1, <1>3, <2>1, <2>2, <2>3, <2>4 DEF TypeOK
<1>5. fetch_addr_q' \in HalfAddr \cup {NoPc}
  <2> DEFINE base == IF branch_i(in) THEN in.addr ELSE WordAligned(fetch_addr_q)
  <2>1. fetch_addr_q' = IF ~branch_i(in) /\ ~new THEN fetch_addr_q
                        ELSE HalfAfter(base, IF new THEN 2 ELSE 0)
    BY DEF RequestRegs
  <2>5. (IF new THEN 2 ELSE 0) \in 0..2
    OBVIOUS
  <2>2. CASE branch_i(in)
    <3>1. base \in HalfAddr
      BY <2>2, InputTypes
    <3>2. fetch_addr_q' = HalfAfter(base, IF new THEN 2 ELSE 0)
      BY <2>1, <2>2
    <3>. QED
      BY <2>5, <3>1, <3>2, Addresses, Zenon
  <2>3. CASE ~branch_i(in) /\ new
    <3>1. fetch_addr_q \in HalfAddr
      BY <1>1, <2>3 DEF valid_new_req, Env, TypeOK
    <3>2. fetch_addr_q' = HalfAfter(WordAligned(fetch_addr_q), IF new THEN 2 ELSE 0)
      BY <2>1, <2>3
    <3>. QED
      BY <2>5, <3>1, <3>2, Addresses, Zenon
  <2>4. CASE ~branch_i(in) /\ ~new
    BY <1>1, <2>1, <2>4 DEF TypeOK
  <2>. QED
    BY <2>2, <2>3, <2>4
<1>6. in.gnt => WordAligned(instr_addr(in)) \in HalfAddr
  BY <1>3, Addresses DEF Env
<1>7. bus_q' \in Seq(HalfAddr)
        /\ Len(bus_q') = Len(bus_q) + (IF in.gnt THEN 1 ELSE 0) - (IF in.rvalid THEN 1 ELSE 0)
  <2> DEFINE rest == IF in.rvalid THEN Tail(bus_q) ELSE bus_q
  <2>1. rest \in Seq(HalfAddr) /\ Len(rest) = Len(bus_q) - (IF in.rvalid THEN 1 ELSE 0)
    BY <1>1 DEF TypeOK, Env
  <2>2. bus_q' = IF in.gnt THEN Append(rest, WordAligned(instr_addr(in))) ELSE rest
    BY DEF Bus
  <2>3. Len(bus_q) \in Nat
    BY <1>1 DEF TypeOK
  <2> HIDE DEF rest
  <2>4. CASE in.gnt
    BY <1>6, <2>1, <2>2, <2>3, <2>4
  <2>5. CASE ~in.gnt
    BY <2>1, <2>2, <2>3, <2>5
  <2>. QED
    BY <2>4, <2>5
<1>. QED
  BY <1>2, <1>4, <1>5, <1>7

-----------------------------------------------------------------------------
(* The invariant.                                                          *)
NewOutstanding(in, n) ==
    LET granted_n == IF in.gnt THEN n + 1 ELSE n IN
    IF in.rvalid THEN Less1(granted_n) ELSE granted_n
NewDiscarded(in, n, d) ==
    LET marked == IF in.gnt /\ discard_req_d(in) THEN n + 1 ELSE Cancelled(in, n, d) IN
    IF in.rvalid THEN Less1(marked) ELSE marked

\* One clock edge, on the lengths.
LEMMA NextLengths ==
  ASSUME PrefetchIInv, NEW in \in Inputs, Step(in),
         NEW v \in Nat, NEW n \in Nat, NEW d \in Nat, Lengths(v, n, d), Room(v, n, d),
         NEW v2, v2 = Kept(in, v), NEW n2, n2 = NewOutstanding(in, n),
         NEW d2, d2 = NewDiscarded(in, n, d)
  PROVE  Lengths(v2, n2, d2)'
<1>1. TypeOK /\ Env(in) /\ RequestRegs(in) /\ FifoRegs(in) /\ Bus(in)
  BY DEF PrefetchIInv, Step
<1>2. NUM_REQS \in Nat \ {0} /\ d <= n /\ n <= NUM_REQS /\ DEPTH \in Nat
  BY PrefetchAssumption DEF Lengths, DEPTH
<1>3. (granted(in) <=> in.gnt) /\ (in.gnt => n < NUM_REQS) /\ (in.rvalid => n > 0)
  BY <1>1, Outstanding, Response DEF granted, Env
<1>4. n2 \in 0..NUM_REQS /\ rdata_outstanding_q' = Ones(n2)
  <2> DEFINE k == IF in.gnt THEN n + 1 ELSE n
  <2>1. rdata_outstanding_n(in) = Ones(k) /\ k \in Nat /\ k <= NUM_REQS
    BY <1>2, <1>3, Outstanding
  <2>2. ShiftedDown(Ones(k)) = Ones(Less1(k))
    BY <1>2, <2>1, ShiftOnes DEF ShiftedDown, Slot
  <2>3. n2 = IF in.rvalid THEN Less1(k) ELSE k
    BY DEF NewOutstanding
  <2>4. rdata_outstanding_q' = IF in.rvalid THEN Ones(Less1(k)) ELSE Ones(k)
    BY <1>1, <2>1, <2>2 DEF RequestRegs
  <2> HIDE DEF k
  <2>. QED
    BY <1>2, <2>1, <2>3, <2>4 DEF Less1
<1>5. d2 \in 0..n2 /\ branch_discard_q' = Ones(d2)
  <2> DEFINE k == IF in.gnt THEN n + 1 ELSE n
             m == IF in.gnt /\ discard_req_d(in) THEN n + 1 ELSE Cancelled(in, n, d)
  <2>1. branch_discard_n(in) = Ones(m)
    BY <1>3, Discarded
  <2>2. m \in Nat /\ m <= k /\ k \in Nat /\ k <= NUM_REQS
    BY <1>2, <1>3 DEF Cancelled
  <2>3. ShiftedDown(Ones(m)) = Ones(Less1(m))
    BY <1>2, <2>2, ShiftOnes DEF ShiftedDown, Slot
  <2>4. n2 = (IF in.rvalid THEN Less1(k) ELSE k) /\ d2 = (IF in.rvalid THEN Less1(m) ELSE m)
    BY DEF NewOutstanding, NewDiscarded
  <2>5. branch_discard_q' = IF in.rvalid THEN Ones(Less1(m)) ELSE Ones(m)
    BY <1>1, <2>1, <2>3 DEF RequestRegs
  <2> HIDE DEF k, m
  <2>. QED
    BY <1>2, <2>2, <2>4, <2>5 DEF Less1
<1>6. v2 \in 0..DEPTH /\ valid_q' = Ones(v2)
  <2>1. valid_q' = Ones(v2) /\ Pushed(in, v) \in 0..DEPTH
    BY <1>1, FifoLength DEF FifoRegs
  <2>. QED
    BY <1>2, <2>1 DEF Kept, Less1
<1>7. Len(bus_q') = n2
  <2>1. Len(bus_q) = n
    BY DEF Lengths
  <2>2. Len(bus_q') = n + (IF in.gnt THEN 1 ELSE 0) - (IF in.rvalid THEN 1 ELSE 0)
    BY <1>1, <2>1, RequestTypes
  <2>. QED
    BY <1>3, <2>2 DEF NewOutstanding, Less1
<1>. QED
  BY <1>2, <1>4, <1>5, <1>6, <1>7 DEF Lengths, DEPTH

LEMMA NextRoom ==
  ASSUME PrefetchIInv, NEW in \in Inputs, Step(in),
         NEW v \in Nat, NEW n \in Nat, NEW d \in Nat, Lengths(v, n, d), Room(v, n, d),
         NEW v2, v2 = Kept(in, v), NEW n2, n2 = NewOutstanding(in, n),
         NEW d2, d2 = NewDiscarded(in, n, d)
  PROVE  Room(v2, n2, d2)'
<1>1. TypeOK /\ Env(in) /\ RequestRegs(in)
  BY DEF PrefetchIInv, Step
<1>2. NUM_REQS \in Nat \ {0} /\ d <= n /\ n <= NUM_REQS /\ v <= DEPTH /\ DEPTH \in Nat \ {0}
        /\ v + n - d <= DEPTH
  BY PrefetchAssumption DEF Lengths, DEPTH, Room
<1>3. (in.gnt => n < NUM_REQS /\ valid_req(in)) /\ (in.rvalid => n > 0)
  BY <1>1, Outstanding, Response DEF granted, Env
<1>4. in_valid(in) <=> in.rvalid /\ d = 0
  BY <1>1, Response
<1>5. discard_req_d(in) => Cancelled(in, n, d) = n
  BY Discarded
<1>6. valid_req(in) /\ ~valid_req_q => n < NUM_REQS /\ (branch_i(in) \/ v + n < DEPTH)
  BY AtMostOne DEF valid_req
<1>7. (valid_req_q' <=> valid_req(in) /\ ~in.gnt) /\ (discard_req_q' <=> discard_req_d(in))
  BY <1>1 DEF RequestRegs
<1>8. discard_req_d(in) <=> valid_req_q /\ (branch_i(in) \/ discard_req_q)
  BY DEF discard_req_d
<1>9. v2 \in Nat /\ v2 <= Pushed(in, v) /\ (branch_i(in) => v2 = 0)
  BY DEF Kept, Less1, Pushed
<1> DEFINE live == IF branch_i(in) THEN 0 ELSE v + n - d
           more == IF in.gnt /\ ~discard_req_d(in) THEN 1 ELSE 0
\* What is live grows by a request that is granted and not cancelled.
<1>10. v2 + n2 - d2 <= live + more /\ n2 \in Nat /\ d2 \in Nat
  <2>1. CASE branch_i(in)
    BY <1>2, <1>3, <1>5, <1>9, <2>1 DEF NewOutstanding, NewDiscarded, Cancelled, Less1
  <2>2. CASE ~branch_i(in) /\ in.rvalid /\ d = 0
    <3>1. ~discard_req_d(in)
      BY <1>3, <1>5, <2>2 DEF Cancelled
    <3>. QED
      BY <1>2, <1>3, <1>4, <1>9, <2>2, <3>1
         DEF NewOutstanding, NewDiscarded, Cancelled, Less1, Pushed
  <2>3. CASE ~branch_i(in) /\ ~(in.rvalid /\ d = 0)
    <3>1. v2 <= v
      BY <1>4, <1>9, <2>3 DEF Pushed
    <3>. QED
      BY <1>2, <1>3, <1>5, <1>9, <2>3, <3>1 DEF NewOutstanding, NewDiscarded, Cancelled, Less1
  <2>. QED
    BY <2>1, <2>2, <2>3
<1>11. valid_req(in) /\ ~discard_req_d(in) => live < DEPTH
  <2>1. CASE valid_req_q
    BY <1>2, <1>8, <2>1 DEF Room
  <2>2. CASE ~valid_req_q
    BY <1>2, <1>6, <2>2
  <2>. QED
    BY <2>1, <2>2
<1>12. v2 + n2 - d2 <= DEPTH
  BY <1>2, <1>3, <1>9, <1>10, <1>11
<1>13. valid_req_q' => n2 < NUM_REQS
  <2>1. valid_req(in) => n < NUM_REQS
    BY <1>6 DEF Room
  <2>. QED
    BY <1>2, <1>7, <2>1 DEF NewOutstanding, Less1
<1>14. valid_req_q' /\ discard_req_q' => d2 = n2
  BY <1>2, <1>5, <1>7 DEF NewOutstanding, NewDiscarded
<1>15. valid_req_q' /\ ~discard_req_q' => v2 + n2 - d2 < DEPTH
  BY <1>2, <1>7, <1>9, <1>10, <1>11
<1>. QED
  BY <1>12, <1>13, <1>14, <1>15 DEF Room, DEPTH

LEMMA InitPrefetch == Init => PrefetchIInv
<1> SUFFICES ASSUME Init PROVE PrefetchIInv
  OBVIOUS
<1>1. NUM_REQS \in Nat /\ DEPTH \in Nat
  BY PrefetchAssumption DEF DEPTH
<1>2. Ones(0) = {}
  BY DEF Ones
<1>3. Lengths(0, 0, 0) /\ Room(0, 0, 0)
  BY <1>1, <1>2 DEF Init, Lengths, Room
<1>4. TypeOK
  <2>1. rdata_q \in [Entry -> Word \cup {NoWord}]
    BY DEF Init
  <2>2. bus_q \in Seq(HalfAddr)
    BY DEF Init
  <2>. QED
    BY <2>1, <2>2 DEF Init, TypeOK
<1>5. valid_req_q => stored_addr_q # NoPc
  BY DEF Init
<1>. QED
  BY <1>3, <1>4, <1>5 DEF PrefetchIInv

LEMMA StepPrefetch == PrefetchIInv /\ [Next]_vars => PrefetchIInv'
<1> SUFFICES ASSUME PrefetchIInv, [Next]_vars PROVE PrefetchIInv'
  OBVIOUS
<1>1. ASSUME NEW in \in Inputs, Step(in) PROVE PrefetchIInv'
  <2>1. TypeOK /\ Env(in) /\ RequestRegs(in) /\ FifoRegs(in) /\ Output(in) /\ Bus(in)
    BY <1>1 DEF PrefetchIInv, Step
  <2>2. PICK v, n, d \in Nat : Lengths(v, n, d) /\ Room(v, n, d)
    BY DEF PrefetchIInv
  <2>3. PICK v2, n2, d2 : /\ v2 = Kept(in, v)
                          /\ n2 = NewOutstanding(in, n) /\ d2 = NewDiscarded(in, n, d)
    OBVIOUS
  <2>4. Lengths(v2, n2, d2)' /\ Room(v2, n2, d2)'
    BY <1>1, <2>2, <2>3, NextLengths, NextRoom
  <2>5. NUM_REQS \in Nat /\ DEPTH \in Nat /\ DEPTH = NUM_REQS + 1
    BY PrefetchAssumption DEF DEPTH
  <2>6. v2 \in 0..DEPTH /\ n2 \in 0..NUM_REQS /\ d2 \in 0..n2
          /\ valid_q' = Ones(v2) /\ rdata_outstanding_q' = Ones(n2) /\ branch_discard_q' = Ones(d2)
    BY <2>4 DEF Lengths
  <2>7. v2 \in Nat /\ n2 \in Nat /\ d2 \in Nat
    BY <2>5, <2>6
  <2>8. valid_q' \in SUBSET Entry /\ rdata_outstanding_q' \in SUBSET Slot
          /\ branch_discard_q' \in SUBSET Slot
    BY <2>5, <2>6, <2>7 DEF Ones, Entry, Slot
  <2>9. lost_q' \in BOOLEAN
    <3>1. lost_q' = (~branch_i(in) /\ (lost_q \/ (in.ready /\ out_instr(in).err)))
      BY <2>1 DEF Output
    <3>2. (~branch_i(in) /\ (lost_q \/ (in.ready /\ out_instr(in).err))) \in BOOLEAN
      BY Zenon
    <3>. QED
      BY <3>1, <3>2, Zenon
  <2>10. /\ rdata_q' \in [Entry -> Word \cup {NoWord}]
         /\ \A i \in valid_q' : rdata_q'[i] \in Word
         /\ instr_addr_q' \in HalfAddr \cup {NoPc}
    BY <2>1, <2>8, FifoTypes
  <2>11. /\ valid_req_q' \in BOOLEAN /\ discard_req_q' \in BOOLEAN
         /\ stored_addr_q' \in HalfAddr \cup {NoPc} /\ fetch_addr_q' \in HalfAddr \cup {NoPc}
         /\ valid_req_q' => stored_addr_q' # NoPc
         /\ bus_q' \in Seq(HalfAddr)
    BY <2>1, RequestTypes
  <2>12. TypeOK'
    BY <2>8, <2>9, <2>10, <2>11 DEF TypeOK
  <2>. QED
    BY <2>4, <2>7, <2>11, <2>12 DEF PrefetchIInv
<1>2. CASE UNCHANGED vars
  BY <1>2 DEF vars, req_vars, fifo_vars, PrefetchIInv, TypeOK, Lengths, Room
<1>. QED
  BY <1>1, <1>2 DEF Next

\* The lengths say what the invariant of the runs says.
LEMMA FromLengths == PrefetchIInv => PrefetchInv
<1> SUFFICES ASSUME PrefetchIInv PROVE PrefetchInv
  OBVIOUS
<1>1. PICK v, n, d \in Nat : Lengths(v, n, d) /\ Room(v, n, d)
  BY DEF PrefetchIInv
<1>2. NUM_REQS \in Nat \ {0} /\ DEPTH = NUM_REQS + 1 /\ v <= DEPTH /\ d <= n /\ Len(bus_q) = n
        /\ v + n - d <= DEPTH
  BY <1>1, PrefetchAssumption DEF Lengths, DEPTH, Room
<1>3. TypeOK
  BY DEF PrefetchIInv
<1>4. QueueMatchesBus
  <2>1. rdata_outstanding_q = 0..(Len(bus_q) - 1)
    BY <1>1, <1>2 DEF Lengths, Ones
  <2>2. branch_discard_q \subseteq rdata_outstanding_q
    BY <1>1, <1>2 DEF Lengths, Ones
  <2>3. \A i \in branch_discard_q : 0..i \subseteq branch_discard_q
    BY <1>1, <1>2 DEF Lengths, Ones
  <2>4. valid_req_q /\ discard_req_q => rdata_outstanding_q = branch_discard_q
    BY <1>1 DEF Lengths, Room
  <2>. QED
    BY <2>1, <2>2, <2>3, <2>4 DEF QueueMatchesBus
<1>5. RoomForResponses
  <2>1. Cardinality(valid_q) = v /\ Cardinality(rdata_outstanding_q \ branch_discard_q) = n - d
    <3>1. Cardinality(Ones(v)) = v
      <4>1. v <= v
        OBVIOUS
      <4>. QED
        BY <4>1, CountOnes
    <3>2. Cardinality(Ones(n) \ Ones(d)) = n - d
      BY <1>2, CountOnes
    <3>. QED
      BY <1>1, <3>1, <3>2 DEF Lengths
  <2>2. bus_q # <<>> /\ 0 \notin branch_discard_q => DEPTH - 1 \notin valid_q
    <3>1. bus_q # <<>> => n > 0
      BY <1>2, <1>3 DEF TypeOK
    <3>2. 0 \notin branch_discard_q => d = 0
      BY <1>1 DEF Lengths, Ones
    <3>3. v < DEPTH => DEPTH - 1 \notin valid_q
      BY <1>1, <1>2 DEF Lengths, Ones
    <3>. QED
      BY <1>2, <3>1, <3>2, <3>3
  <2>. QED
    BY <1>2, <2>1, <2>2 DEF RoomForResponses
<1>. QED
  BY <1>3, <1>4, <1>5 DEF PrefetchInv

\* For every number of outstanding requests and every address space: each response
\* that is not discarded finds room, and the queue registers match the bus.
THEOREM FifoNeverOverflows == Spec => []PrefetchInv
<1>. QED
  BY InitPrefetch, StepPrefetch, FromLengths, PTL DEF Spec

\* A request on the bus keeps its address until it is granted, whatever branches come.
THEOREM RequestsHeld == Spec => RequestHeld
<1>1. PrefetchIInv /\ [Next]_vars =>
        [valid_req_q => \/ valid_req_q' /\ UNCHANGED stored_addr_q
                        \/ /\ ~valid_req_q' /\ bus_q' # <<>>
                           /\ bus_q'[Len(bus_q')] = WordAligned(stored_addr_q)]_vars
  <2> SUFFICES ASSUME PrefetchIInv, NEW in \in Inputs, Step(in), valid_req_q
               PROVE  \/ valid_req_q' /\ UNCHANGED stored_addr_q
                      \/ /\ ~valid_req_q' /\ bus_q' # <<>>
                         /\ bus_q'[Len(bus_q')] = WordAligned(stored_addr_q)
    BY DEF Next
  <2>1. TypeOK /\ Env(in) /\ RequestRegs(in) /\ Bus(in) /\ valid_req(in)
    BY DEF PrefetchIInv, Step, valid_req
  <2>2. CASE ~in.gnt
    BY <2>1, <2>2 DEF RequestRegs
  <2>3. CASE in.gnt
    <3> DEFINE rest == IF in.rvalid THEN Tail(bus_q) ELSE bus_q
    <3>1. rest \in Seq(HalfAddr)
      BY <2>1 DEF TypeOK, Env
    <3>2. bus_q' = Append(rest, WordAligned(stored_addr_q)) /\ stored_addr_q \in HalfAddr
      BY <2>1, <2>3 DEF Bus, instr_addr, PrefetchIInv, TypeOK
    <3>3. ~valid_req_q'
      BY <2>1, <2>3 DEF RequestRegs
    <3>4. WordAligned(stored_addr_q) \in HalfAddr
      BY <3>2, Addresses
    <3> HIDE DEF rest
    <3>. QED
      BY <3>1, <3>2, <3>3, <3>4
  <2>. QED
    BY <2>2, <2>3
<1>. QED
  BY <1>1, InitPrefetch, StepPrefetch, PTL DEF Spec, RequestHeld

-----------------------------------------------------------------------------
(* Addresses that wrap.                                                    *)
LEMMA OneMultiple ==
  ASSUME NEW m \in Nat \ {0}, NEW q \in Int
  PROVE  (q >= 1 => m * q >= m) /\ (q <= -1 => m * q <= -m)
  OBVIOUS

LEMMA RemainderUnique ==
  ASSUME NEW m \in Nat \ {0}, NEW p \in Int, NEW q \in Int,
         NEW r \in 0..(m - 1), NEW s \in 0..(m - 1), m * p + r = m * q + s
  PROVE  r = s
<1>1. m * (p - q) = s - r
  OBVIOUS
<1>2. p - q < 1 /\ p - q > -1
  <2>1. p - q >= 1 => m * (p - q) >= m
    BY OneMultiple
  <2>2. p - q <= -1 => m * (p - q) <= -m
    BY OneMultiple
  <2>. QED
    BY <1>1, <2>1, <2>2
<1>. QED
  BY <1>2

LEMMA AddMod ==
  ASSUME NEW m \in Nat \ {0}, NEW a \in Nat, NEW b \in Nat
  PROVE  ((a % m) + b) % m = (a + b) % m
<1> DEFINE c == (a % m) + b
<1>1. a = m * (a \div m) + (a % m) /\ a \div m \in Int /\ a % m \in 0..(m - 1)
  OBVIOUS
<1>2. c = m * (c \div m) + (c % m) /\ c \div m \in Int /\ c % m \in 0..(m - 1)
  BY <1>1
<1>3. a + b = m * ((a + b) \div m) + ((a + b) % m) /\ (a + b) \div m \in Int
        /\ (a + b) % m \in 0..(m - 1)
  OBVIOUS
<1>4. m * (a \div m) + m * (c \div m) + (c % m) = a + b
  BY <1>1, <1>2
<1>5. m * (a \div m + c \div m) = m * (a \div m) + m * (c \div m)
  BY <1>1, <1>2
<1> HIDE DEF c
<1>6. m * (a \div m + c \div m) + (c % m) = m * ((a + b) \div m) + ((a + b) % m)
  BY <1>1, <1>2, <1>3, <1>4, <1>5
<1>7. (a \div m) + (c \div m) \in Int
  BY <1>1, <1>2
<1>8. \A p, q \in Int, r, s \in 0..(m - 1) : m * p + r = m * q + s => r = s
  BY RemainderUnique
<1>. QED
  BY <1>2, <1>3, <1>6, <1>7, <1>8, Zenon DEF c

LEMMA HalfAfterTwice ==
  ASSUME NEW h \in Nat, NEW j \in Nat, NEW k \in Nat
  PROVE  HalfAfter(HalfAfter(h, j), k) = HalfAfter(h, j + k)
<1>1. 2 * NUM_WORDS \in Nat \ {0}
  BY PrefetchAssumption
<1>2. \A m \in Nat \ {0}, a, b \in Nat : ((a % m) + b) % m = (a + b) % m
  BY AddMod
<1>3. h + j \in Nat /\ (h + j) + k = h + (j + k)
  OBVIOUS
<1>4. (((h + j) % (2 * NUM_WORDS)) + k) % (2 * NUM_WORDS) = ((h + j) + k) % (2 * NUM_WORDS)
  BY <1>1, <1>2, <1>3, Zenon
<1>. QED
  BY <1>3, <1>4 DEF HalfAfter

LEMMA HalfAfterNear ==
  ASSUME NEW h \in HalfAddr, NEW k \in 0..2
  PROVE  /\ NUM_WORDS \in Nat \ {0}
         /\ HalfAfter(h, k) = IF h + k < 2 * NUM_WORDS THEN h + k ELSE h + k - 2 * NUM_WORDS
<1>1. NUM_WORDS \in Nat \ {0} /\ h \in Nat /\ h < 2 * NUM_WORDS
  BY PrefetchAssumption DEF HalfAddr
<1>2. \A m \in Nat \ {0}, n \in Nat : n < m => n % m = n
  OBVIOUS
<1>3. \A m \in Nat \ {0}, n \in Nat : m <= n /\ n < 2 * m => n % m = n - m
  OBVIOUS
<1>4. 2 * NUM_WORDS \in Nat \ {0} /\ h + k \in Nat /\ h + k < 2 * (2 * NUM_WORDS)
  BY <1>1
<1> DEFINE m == 2 * NUM_WORDS
           n == h + k
<1> HIDE DEF m, n
<1>5. n % m = IF n < m THEN n ELSE n - m
  <2>1. m \in Nat \ {0} /\ n \in Nat /\ n < 2 * m
    BY <1>4 DEF m, n
  <2>2. ~(n < m) => m <= n
    BY <2>1
  <2>. QED
    BY <1>2, <1>3, <2>1, <2>2, Zenon
<1>. QED
  BY <1>1, <1>5 DEF HalfAfter, m, n

\* The next word boundary, and the boundary an instruction leaves behind.
LEMMA NextBoundary ==
  ASSUME NEW h \in HalfAddr
  PROVE  /\ WordAligned(HalfAfter(h, 2)) = HalfAfter(WordAligned(h), 2)
         /\ WordAligned(WordAligned(h)) = WordAligned(h)
         /\ HalfAfter(h, 0) = h
         /\ Unaligned(h) => /\ WordAligned(HalfAfter(h, 1)) = HalfAfter(WordAligned(h), 2)
                            /\ NextHalf(WordAligned(h)) = h
                            /\ NextHalf(h) = HalfAfter(WordAligned(h), 2)
         /\ ~Unaligned(h) => /\ WordAligned(HalfAfter(h, 1)) = WordAligned(h)
                             /\ WordAligned(h) = h
<1>1. NUM_WORDS \in Nat \ {0} /\ h \in Nat /\ h < 2 * NUM_WORDS /\ WordAligned(h) \in HalfAddr
  BY Addresses, PrefetchAssumption DEF HalfAddr
<1>2. PICK q \in Nat : h = 2 * q \/ h = 2 * q + 1
  <2>1. h \div 2 \in Nat /\ (h = 2 * (h \div 2) \/ h = 2 * (h \div 2) + 1)
    BY <1>1
  <2>. QED
    BY <2>1
<1>3. \A n \in Nat : WordAligned(2 * n) = 2 * n /\ WordAligned(2 * n + 1) = 2 * n
                       /\ ~Unaligned(2 * n) /\ Unaligned(2 * n + 1)
  BY DEF WordAligned, Unaligned
<1>4. HalfAfter(h, 0) = h
  BY <1>1, HalfAfterNear
<1>5. q < NUM_WORDS
  BY <1>1, <1>2
<1>6. WordAligned(h) = 2 * q
  BY <1>2, <1>3
<1> DEFINE r == IF q + 1 < NUM_WORDS THEN q + 1 ELSE 0
<1>7. HalfAfter(WordAligned(h), 2) = 2 * r /\ r \in Nat
  BY <1>1, <1>2, <1>5, <1>6, HalfAfterNear
<1>8. HalfAfter(h, 2) = (IF h = 2 * q THEN 2 * r ELSE 2 * r + 1)
  BY <1>1, <1>2, <1>5, HalfAfterNear
<1>9. HalfAfter(h, 1) = (IF h = 2 * q THEN 2 * q + 1 ELSE 2 * r)
  BY <1>1, <1>2, <1>5, HalfAfterNear
<1>10. HalfAfter(2 * q, 1) = 2 * q + 1
  BY <1>1, <1>2, <1>5, <1>6, HalfAfterNear
<1> HIDE DEF r
<1>11. CASE h = 2 * q
  BY <1>2, <1>3, <1>4, <1>6, <1>7, <1>8, <1>9, <1>11
<1>12. CASE h = 2 * q + 1
  <2>1. h # 2 * q
    BY <1>2, <1>12
  <2>. QED
    BY <1>2, <1>3, <1>4, <1>6, <1>7, <1>8, <1>9, <1>10, <1>12, <2>1 DEF NextHalf
<1>. QED
  BY <1>2, <1>11, <1>12

-----------------------------------------------------------------------------
(* What the FIFO and the bus hold.                                         *)

\* The address of the k-th word from the one the IF stage is at.
Expected(k) == HalfAfter(WordAligned(instr_addr_q), 2 * k)

Holds(w, a) == w.lo.at = a /\ w.hi.at = NextHalf(a) /\ w.hi.bad = w.lo.bad

\* The words in the FIFO, those on the bus that no branch has cancelled, the one whose
\* request waits for its grant and the one to be requested next follow one another.
Contents(v, n, d) ==
    /\ \A k \in Ones(v) : Holds(rdata_q[k], Expected(k))
    /\ \A j \in (d + 1)..n : bus_q[j] = Expected(v + j - d - 1)
    /\ valid_req_q /\ ~discard_req_q =>
          /\ WordAligned(stored_addr_q) = Expected(v + n - d)
          /\ WordAligned(fetch_addr_q) = Expected(v + n - d + 1)
    /\ ~(valid_req_q /\ ~discard_req_q) => WordAligned(fetch_addr_q) = Expected(v + n - d)

Unstarted(v, n) == v = 0 /\ n = 0 /\ ~valid_req_q /\ fetch_addr_q = NoPc /\ ~lost_q

Follows(v, n, d) ==
    /\ instr_addr_q = NoPc => Unstarted(v, n)
    /\ instr_addr_q # NoPc => fetch_addr_q # NoPc /\ Contents(v, n, d)

StreamIInv ==
    /\ TypeOK
    /\ valid_req_q => stored_addr_q # NoPc
    /\ \E v, n, d \in Nat : Lengths(v, n, d) /\ Room(v, n, d) /\ Follows(v, n, d)

LEMMA ExpectedWords ==
  ASSUME instr_addr_q \in HalfAddr, NEW k \in Nat
  PROVE  /\ Expected(k) \in HalfAddr
         /\ HalfAfter(Expected(k), 2) = Expected(k + 1)
         /\ Expected(0) = WordAligned(instr_addr_q)
         /\ Expected(1) = HalfAfter(WordAligned(instr_addr_q), 2)
<1>1. WordAligned(instr_addr_q) \in HalfAddr /\ WordAligned(instr_addr_q) \in Nat
  BY Addresses, PrefetchAssumption DEF HalfAddr
<1>2. 2 * k \in Nat /\ 2 * k + 2 = 2 * (k + 1) /\ 2 * 0 = 0 /\ 2 * 1 = 2
  OBVIOUS
<1>3. HalfAfter(Expected(k), 2) = Expected(k + 1)
  BY <1>1, <1>2, HalfAfterTwice DEF Expected
<1>4. Expected(0) = WordAligned(instr_addr_q)
  BY <1>1, <1>2, NextBoundary DEF Expected
<1>5. Expected(1) = HalfAfter(WordAligned(instr_addr_q), 2)
  BY <1>2 DEF Expected
<1>6. Expected(k) \in HalfAddr
  <2>1. \A m \in Nat \ {0}, a \in Nat : a % m \in 0..(m - 1)
    OBVIOUS
  <2>2. 2 * NUM_WORDS \in Nat \ {0} /\ WordAligned(instr_addr_q) + 2 * k \in Nat
    BY <1>1, PrefetchAssumption
  <2>3. (WordAligned(instr_addr_q) + 2 * k) % (2 * NUM_WORDS) \in 0..(2 * NUM_WORDS - 1)
    BY <2>1, <2>2, Zenon
  <2>. QED
    BY <2>3 DEF Expected, HalfAfter, HalfAddr
<1>. QED
  BY <1>3, <1>4, <1>5, <1>6

\* The words the aligner looks at.
LEMMA WordsOnOffer ==
  ASSUME NEW in \in Inputs, NEW v \in Nat, NEW n \in Nat, NEW d \in Nat, Lengths(v, n, d),
         TypeOK, Env(in), instr_addr_q \in HalfAddr, Contents(v, n, d)
  PROVE  /\ 0 \in valid_q <=> v > 0
         /\ 1 \in valid_q <=> v > 1
         /\ in_valid(in) => Holds(in_rdata(in), Expected(v))
         /\ valid(in) => Holds(rdata(in), Expected(0))
         /\ valid_unaligned(in) => Holds(second(in), Expected(1))
<1>1. (0 \in valid_q <=> v > 0) /\ (1 \in valid_q <=> v > 1)
  BY DEF Lengths, Ones
<1>2. ASSUME in_valid(in) PROVE Holds(in_rdata(in), Expected(v))
  <2>1. n > 0 /\ d = 0
    BY <1>2, Response
  <2>2. bus_q[1] = Expected(v)
    <3>1. 1 \in (d + 1)..n /\ v + 1 - d - 1 = v
      BY <2>1
    <3>. QED
      BY <3>1 DEF Contents
  <2>3. Head(bus_q) = Expected(v)
    BY <2>1, <2>2 DEF TypeOK, Lengths
  <2>. QED
    BY <2>3 DEF in_rdata, Holds
<1>3. ASSUME valid(in) PROVE Holds(rdata(in), Expected(0))
  <2>1. CASE 0 \in valid_q
    BY <1>1, <2>1 DEF rdata, Contents, Ones
  <2>2. CASE 0 \notin valid_q
    <3>1. v = 0 /\ in_valid(in)
      BY <1>1, <1>3, <2>2 DEF valid
    <3>. QED
      BY <1>2, <2>2, <3>1 DEF rdata
  <2>. QED
    BY <2>1, <2>2
<1>4. ASSUME valid_unaligned(in) PROVE Holds(second(in), Expected(1))
  <2>1. CASE 1 \in valid_q
    BY <1>1, <2>1 DEF second, Contents, Ones
  <2>2. CASE 1 \notin valid_q
    <3>1. v = 1 /\ in_valid(in)
      BY <1>1, <1>4, <2>2 DEF valid_unaligned
    <3>. QED
      BY <1>2, <2>2, <3>1 DEF second
  <2>. QED
    BY <2>1, <2>2
<1>. QED
  BY <1>1, <1>2, <1>3, <1>4

\* An instruction that is taken has its first word; so what is popped is there.
LEMMA TakenIsValid ==
  ASSUME NEW in \in Inputs, NEW v \in Nat, NEW n, NEW d, Lengths(v, n, d), Env(in), in.ready
  PROVE  valid(in) /\ instr_addr_q # NoPc
<1>1. 1 \in valid_q => 0 \in valid_q
  BY DEF Lengths, Ones
<1>. QED
  BY <1>1 DEF Env, out_valid, valid, valid_unaligned

\* The next instruction starts in the word after a pop, and in the same word without.
LEMMA PopMoves ==
  ASSUME NEW in \in Inputs, TypeOK, Env(in), FifoRegs(in), ~branch_i(in),
         instr_addr_q \in HalfAddr, NEW k \in Nat
  PROVE  /\ instr_addr_q' \in HalfAddr
         /\ Expected(k)' = Expected(IF pop_fifo(in) THEN k + 1 ELSE k)
<1>1. CASE ~in.ready
  BY <1>1 DEF FifoRegs, pop_fifo, Expected
<1>2. CASE in.ready
  <2>1. instr_addr_q' = HalfAfter(instr_addr_q, IF addr_incr_two(in) THEN 1 ELSE 2)
    BY <1>2 DEF FifoRegs
  <2>2. instr_addr_q' \in HalfAddr
    BY <2>1, Addresses
  <2>3. WordAligned(instr_addr_q') = IF pop_fifo(in) THEN HalfAfter(WordAligned(instr_addr_q), 2)
                                                    ELSE WordAligned(instr_addr_q)
    BY <1>2, <2>1, NextBoundary DEF pop_fifo, addr_incr_two
  <2>4. WordAligned(instr_addr_q) \in Nat /\ WordAligned(instr_addr_q) \in HalfAddr
    BY Addresses, PrefetchAssumption DEF HalfAddr
  <2>5. HalfAfter(HalfAfter(WordAligned(instr_addr_q), 2), 2 * k) =
          HalfAfter(WordAligned(instr_addr_q), 2 * (k + 1))
    <3>1. 2 \in Nat /\ 2 * k \in Nat /\ 2 + 2 * k = 2 * (k + 1)
      OBVIOUS
    <3>. QED
      BY <2>4, <3>1, HalfAfterTwice
  <2>. QED
    BY <2>2, <2>3, <2>5 DEF Expected
<1>. QED
  BY <1>1, <1>2

\* The FIFO after an edge without a branch.
LEMMA EntriesFollow ==
  ASSUME NEW in \in Inputs, NEW v \in Nat, NEW n \in Nat, NEW d \in Nat,
         Lengths(v, n, d), Room(v, n, d), TypeOK, Env(in), FifoRegs(in), ~branch_i(in),
         instr_addr_q \in HalfAddr, Contents(v, n, d), NEW k \in Ones(Kept(in, v))
  PROVE  Holds(rdata_q[k], Expected(k))'
<1> DEFINE e == IF pop_fifo(in) THEN 1 ELSE 0
<1>1. k \in Nat /\ k + e < Pushed(in, v) /\ Pushed(in, v) \in 0..DEPTH /\ DEPTH \in Nat
  <2>1. Pushed(in, v) \in 0..DEPTH /\ DEPTH \in Nat
    BY FifoLength, PrefetchAssumption DEF DEPTH
  <2>. QED
    BY <2>1 DEF Ones, Kept, Less1
<1>2. k \in Entry /\ k \in valid_d(in)
  <2>1. k \in Entry
    BY <1>1 DEF Entry
  <2>. QED
    BY <2>1, FifoLength
<1>3. rdata_q'[k] = IF entry_en(in, k) THEN rdata_d(in, k) ELSE rdata_q[k]
  BY <1>2 DEF FifoRegs
<1>4. \A i \in Nat : i \in valid_q <=> i < v
  BY DEF Lengths, Ones
<1>5. \A i \in Nat : i \in valid_pushed(in) <=> i < Pushed(in, v)
  BY <1>1, FifoLength DEF Ones
<1>6. in_valid(in) => v < DEPTH /\ lowest_free_entry = {v}
  <2>1. in_valid(in) => v < DEPTH
    BY FifoLength
  <2>2. v < DEPTH => lowest_free_entry = {v}
    BY <1>1, FirstFree DEF lowest_free_entry, Entry, Lengths
  <2>. QED
    BY <2>1, <2>2
<1>7. Holds(rdata_q'[k], Expected(k + e))
  <2>1. CASE pop_fifo(in)
    <3>1. entry_en(in, k) /\ k + 1 < Pushed(in, v)
      BY <1>1, <1>5, <2>1 DEF entry_en
    <3>2. CASE k + 1 < v
      BY <1>1, <1>3, <1>4, <2>1, <3>1, <3>2 DEF rdata_d, Contents, Ones
    <3>3. CASE ~(k + 1 < v)
      <4>1. in_valid(in) /\ k + 1 = v
        BY <1>1, <3>1, <3>3 DEF Pushed
      <4>2. rdata_q'[k] = in_rdata(in)
        BY <1>1, <1>3, <1>4, <3>1, <3>3 DEF rdata_d
      <4>. QED
        BY <2>1, <4>1, <4>2, WordsOnOffer
    <3>. QED
      BY <3>2, <3>3
  <2>2. CASE ~pop_fifo(in)
    <3>1. CASE k < v
      <4>1. ~entry_en(in, k)
        BY <1>1, <1>6, <2>2, <3>1 DEF entry_en
      <4>. QED
        BY <1>1, <1>3, <2>2, <3>1, <4>1 DEF Contents, Ones
    <3>2. CASE ~(k < v)
      <4>1. in_valid(in) /\ k = v
        BY <1>1, <2>2, <3>2 DEF Pushed
      <4>2. rdata_q'[k] = in_rdata(in)
        BY <1>1, <1>3, <1>4, <1>6, <2>2, <4>1 DEF rdata_d, entry_en
      <4>. QED
        BY <2>2, <4>1, <4>2, WordsOnOffer
    <3>. QED
      BY <3>1, <3>2
  <2>. QED
    BY <2>1, <2>2
<1>8. Expected(k)' = Expected(k + e)
  BY <1>1, PopMoves
<1>. QED
  BY <1>7, <1>8 DEF Holds

LEMMA BusAfter ==
  ASSUME NEW in \in Inputs, TypeOK, Env(in), Bus(in),
         in.gnt => WordAligned(instr_addr(in)) \in HalfAddr,
         NEW r, r = IF in.rvalid THEN 1 ELSE 0,
         NEW j \in Nat \ {0}, j <= Len(bus_q) - r + (IF in.gnt THEN 1 ELSE 0)
  PROVE  bus_q'[j] = IF j <= Len(bus_q) - r THEN bus_q[j + r] ELSE WordAligned(instr_addr(in))
<1> DEFINE rest == IF in.rvalid THEN Tail(bus_q) ELSE bus_q
<1>1. bus_q \in Seq(HalfAddr) /\ Len(bus_q) \in Nat
  BY DEF TypeOK
<1>2. rest \in Seq(HalfAddr) /\ Len(rest) = Len(bus_q) - r
  BY <1>1 DEF Env
<1>3. j <= Len(rest) => rest[j] = bus_q[j + r]
  BY <1>1, <1>2 DEF Env
<1>4. bus_q' = IF in.gnt THEN Append(rest, WordAligned(instr_addr(in))) ELSE rest
  BY DEF Bus
<1> HIDE DEF rest
<1>5. CASE j <= Len(rest)
  BY <1>2, <1>3, <1>4, <1>5
<1>6. CASE ~(j <= Len(rest))
  <2>1. in.gnt /\ j = Len(rest) + 1
    BY <1>1, <1>2, <1>6
  <2>2. Append(rest, WordAligned(instr_addr(in)))[j] = WordAligned(instr_addr(in))
    BY <1>2, <2>1
  <2>. QED
    BY <1>2, <1>4, <1>6, <2>1, <2>2
<1>. QED
  BY <1>5, <1>6

\* What a request that is granted or starts to wait is for.
LEMMA RequestedAddr ==
  ASSUME NEW in \in Inputs, StreamIInv, Env(in), valid_req(in)
  PROVE  /\ instr_addr(in) \in HalfAddr
         /\ valid_req_q => instr_addr(in) = stored_addr_q
         /\ ~valid_req_q /\ branch_i(in) => instr_addr(in) = in.addr
         /\ ~valid_req_q /\ ~branch_i(in) => instr_addr(in) = fetch_addr_q
<1>1. TypeOK /\ (valid_req_q => stored_addr_q # NoPc)
  BY DEF StreamIInv
<1>2. ~valid_req_q => in.req
  BY DEF valid_req, valid_new_req
<1>3. stored_addr_q \in HalfAddr \cup {NoPc} /\ fetch_addr_q \in HalfAddr \cup {NoPc}
  BY <1>1 DEF TypeOK
<1>4. CASE valid_req_q
  BY <1>1, <1>3, <1>4 DEF instr_addr
<1>5. CASE ~valid_req_q /\ branch_i(in)
  BY <1>5, InputTypes DEF instr_addr
<1>6. CASE ~valid_req_q /\ ~branch_i(in)
  BY <1>2, <1>3, <1>6 DEF instr_addr, Env
<1>. QED
  BY <1>4, <1>5, <1>6

\* fetch_addr_q moves on by a word for each new request.
LEMMA FetchAddrMoves ==
  ASSUME NEW in \in Inputs, TypeOK, Env(in), RequestRegs(in),
         branch_i(in) \/ fetch_addr_q # NoPc,
         NEW a \in HalfAddr, a = IF branch_i(in) THEN in.addr ELSE fetch_addr_q
  PROVE  /\ fetch_addr_q' \in HalfAddr
         /\ WordAligned(fetch_addr_q') =
              IF valid_new_req(in) /\ ~valid_req_q THEN HalfAfter(WordAligned(a), 2)
                                                   ELSE WordAligned(a)
<1> DEFINE new == valid_new_req(in) /\ ~valid_req_q
<1>1. fetch_addr_q' =
        LET base == IF branch_i(in) THEN in.addr ELSE WordAligned(fetch_addr_q)
        IN  IF ~branch_i(in) /\ ~new THEN fetch_addr_q ELSE HalfAfter(base, IF new THEN 2 ELSE 0)
  BY DEF RequestRegs
<1>2. WordAligned(a) \in HalfAddr
  BY Addresses
<1> HIDE DEF new
<1>3. CASE branch_i(in)
  <2>1. fetch_addr_q' = HalfAfter(a, IF new THEN 2 ELSE 0)
    BY <1>1, <1>3
  <2>2. HalfAfter(a, 2) \in HalfAddr /\ HalfAfter(a, 0) = a
    <3>1. 2 \in 0..2
      OBVIOUS
    <3>. QED
      BY <3>1, Addresses, NextBoundary
  <2>3. WordAligned(HalfAfter(a, 2)) = HalfAfter(WordAligned(a), 2)
    BY NextBoundary
  <2>4. fetch_addr_q' = IF new THEN HalfAfter(a, 2) ELSE a
    BY <2>1, <2>2
  <2>. QED
    BY <2>2, <2>3, <2>4 DEF new
<1>4. CASE ~branch_i(in) /\ new
  <2>1. fetch_addr_q' = HalfAfter(WordAligned(a), 2)
    BY <1>1, <1>4
  <2>. QED
    BY <1>2, <1>4, <2>1, Addresses, NextBoundary DEF new
<1>5. CASE ~branch_i(in) /\ ~new
  BY <1>1, <1>5 DEF new
<1>. QED
  BY <1>3, <1>4, <1>5

\* The bus and the requests after an edge without a branch.
LEMMA RequestsFollow ==
  ASSUME StreamIInv, NEW in \in Inputs, Step(in), ~branch_i(in),
         NEW v \in Nat, NEW n \in Nat, NEW d \in Nat, Lengths(v, n, d), Room(v, n, d),
         Follows(v, n, d), instr_addr_q # NoPc,
         NEW v2, v2 = Kept(in, v), NEW n2, n2 = NewOutstanding(in, n),
         NEW d2, d2 = NewDiscarded(in, n, d)
  PROVE  Contents(v2, n2, d2)' /\ fetch_addr_q' # NoPc /\ instr_addr_q' # NoPc
<1>1. /\ TypeOK /\ Env(in) /\ RequestRegs(in) /\ FifoRegs(in) /\ Bus(in)
      /\ Contents(v, n, d) /\ fetch_addr_q \in HalfAddr /\ instr_addr_q \in HalfAddr
  BY DEF StreamIInv, Step, Follows, TypeOK
<1>2. /\ NUM_REQS \in Nat \ {0} /\ d <= n /\ n <= NUM_REQS /\ v <= DEPTH /\ Len(bus_q) = n
      /\ valid_req_q /\ discard_req_q => d = n
  BY PrefetchAssumption DEF Lengths, Room
<1>3. /\ granted(in) <=> in.gnt
      /\ in.gnt => valid_req(in)
      /\ in.rvalid => n > 0
      /\ in_valid(in) <=> in.rvalid /\ d = 0
  BY <1>1, Response DEF granted, Env
<1> DEFINE e == IF pop_fifo(in) THEN 1 ELSE 0
           r == IF in.rvalid THEN 1 ELSE 0
           next == WordAligned(instr_addr(in))
<1>4. v2 = Pushed(in, v) - e /\ v2 \in Nat /\ Pushed(in, v) \in Nat
  <2>1. pop_fifo(in) => Pushed(in, v) > 0
    <3>1. pop_fifo(in) => valid(in)
      BY <1>1, TakenIsValid DEF pop_fifo
    <3>2. valid(in) => v > 0 \/ in_valid(in)
      BY DEF valid, Lengths, Ones
    <3>. QED
      BY <3>1, <3>2 DEF Pushed
  <2>. QED
    BY <2>1 DEF Kept, Less1, Pushed
<1>5. \A k \in Nat : Expected(k)' = Expected(k + e)
  BY <1>1, PopMoves
<1>6. instr_addr_q' \in HalfAddr /\ NoPc \notin HalfAddr
  BY <1>1, PopMoves DEF HalfAddr, NoPc
<1>7. discard_req_d(in) <=> valid_req_q /\ discard_req_q
  BY DEF discard_req_d
<1>8. valid_req(in) /\ ~discard_req_d(in) => next = Expected(v + n - d)
  BY <1>1, <1>7, RequestedAddr DEF Contents
<1>9. next \in HalfAddr \/ ~valid_req(in)
  BY <1>1, RequestedAddr, Addresses
<1>10. /\ valid_req_q' <=> valid_req(in) /\ ~in.gnt
       /\ discard_req_q' <=> discard_req_d(in)
       /\ stored_addr_q' = IF valid_req(in) /\ ~valid_req_q /\ ~in.gnt THEN instr_addr(in)
                                                                     ELSE stored_addr_q
       /\ WordAligned(fetch_addr_q') =
             IF valid_req(in) /\ ~valid_req_q THEN HalfAfter(WordAligned(fetch_addr_q), 2)
                                              ELSE WordAligned(fetch_addr_q)
       /\ fetch_addr_q' \in HalfAddr
  <2>1. valid_new_req(in) /\ ~valid_req_q <=> valid_req(in) /\ ~valid_req_q
    BY DEF valid_req
  <2>. QED
    BY <1>1, <1>6, <2>1, FetchAddrMoves DEF RequestRegs
\* How many words are live after the edge.
<1>11. /\ in.gnt /\ discard_req_d(in) => d2 = n2 /\ v2 + e = v
       /\ ~(in.gnt /\ discard_req_d(in)) =>
             /\ v2 - d2 + e = v - d + r
             /\ n2 = n - r + (IF in.gnt THEN 1 ELSE 0)
       /\ n2 \in Nat /\ d2 \in Nat
  <2>1. CASE in.gnt /\ discard_req_d(in)
    <3>1. ~in_valid(in)
      BY <1>2, <1>3, <1>7, <2>1
    <3>. QED
      BY <1>2, <1>4, <2>1, <3>1 DEF NewOutstanding, NewDiscarded, Pushed, Less1
  <2>2. CASE ~(in.gnt /\ discard_req_d(in))
    BY <1>2, <1>3, <1>4, <2>2 DEF NewOutstanding, NewDiscarded, Cancelled, Pushed, Less1
  <2>. QED
    BY <2>1, <2>2
<1> HIDE DEF e, r, next
<1>12. e \in 0..1 /\ r \in 0..1 /\ r = (IF in.rvalid THEN 1 ELSE 0)
  BY DEF e, r
<1>13. ASSUME NEW k \in Ones(v2) PROVE Holds(rdata_q[k], Expected(k))'
  BY <1>1, <1>13, EntriesFollow
<1>14. ASSUME NEW j \in (d2 + 1)..n2 PROVE bus_q'[j] = Expected(v2 + j - d2 - 1)'
  <2>1. ~(in.gnt /\ discard_req_d(in)) /\ j \in Nat \ {0} /\ j <= n2 /\ d2 < j
    BY <1>11
  <2>2. bus_q'[j] = IF j <= n - r THEN bus_q[j + r] ELSE next
    BY <1>1, <1>2, <1>3, <1>9, <1>11, <1>12, <2>1, BusAfter DEF next
  <2>3. v2 + j - d2 - 1 \in Nat /\ v2 + j - d2 - 1 + e = v - d + r + j - 1
    <3>1. v2 - d2 + e = v - d + r /\ v2 \in Nat /\ d2 \in Nat /\ e \in Nat /\ r \in Nat
      BY <1>4, <1>11, <1>12, <2>1
    <3>. QED
      BY <2>1, <3>1
  <2>4. Expected(v2 + j - d2 - 1)' = Expected(v - d + r + j - 1)
    BY <1>5, <2>3
  <2>5. CASE j <= n - r
    <3>1. j + r \in (d + 1)..n /\ v + (j + r) - d - 1 = v - d + r + j - 1
      BY <1>2, <1>4, <1>11, <1>12, <2>1, <2>5 DEF Cancelled, NewDiscarded, Less1
    <3>. QED
      BY <1>1, <2>2, <2>4, <2>5, <3>1 DEF Contents
  <2>6. CASE ~(j <= n - r)
    <3>1. in.gnt /\ j = n - r + 1 /\ v - d + r + j - 1 = v + n - d
      BY <1>2, <1>11, <1>12, <2>1, <2>6
    <3>. QED
      BY <1>3, <1>8, <2>1, <2>2, <2>4, <2>6, <3>1
  <2>. QED
    BY <2>5, <2>6
<1>15. HalfAfter(Expected(v + n - d), 2) = Expected(v + n - d + 1)
  <2>1. v + n - d \in Nat
    BY <1>2
  <2>. QED
    BY <1>1, <2>1, ExpectedWords
<1>16. v2 + n2 - d2 \in Nat
         /\ Expected(v2 + n2 - d2)' = Expected(v2 + n2 - d2 + e)
         /\ Expected(v2 + n2 - d2 + 1)' = Expected(v2 + n2 - d2 + e + 1)
  <2>1. v2 + n2 - d2 \in Nat
    BY <1>2, <1>3, <1>4, <1>11 DEF NewOutstanding, NewDiscarded, Cancelled, Less1
  <2>2. v2 + n2 - d2 + 1 \in Nat /\ v2 + n2 - d2 + 1 + e = v2 + n2 - d2 + e + 1
    BY <1>12, <2>1
  <2>3. Expected(v2 + n2 - d2 + 1)' = Expected(v2 + n2 - d2 + 1 + e)
    BY <1>5, <2>2
  <2>. QED
    BY <1>5, <2>1, <2>2, <2>3
<1>17. v2 + n2 - d2 + e = IF in.gnt /\ ~discard_req_d(in) THEN v + n - d + 1 ELSE v + n - d
  <2>1. v2 \in Nat /\ e \in Nat /\ r \in Nat
    BY <1>4, <1>12
  <2>2. CASE in.gnt /\ discard_req_d(in)
    <3>1. d = n /\ d2 = n2 /\ v2 + e = v
      BY <1>2, <1>7, <1>11, <2>2
    <3>. QED
      BY <1>11, <2>1, <2>2, <3>1
  <2>3. CASE ~(in.gnt /\ discard_req_d(in))
    <3>1. v2 - d2 + e = v - d + r /\ n2 = n - r + (IF in.gnt THEN 1 ELSE 0)
      BY <1>11, <2>3
    <3>. QED
      BY <1>11, <2>1, <2>3, <3>1
  <2>. QED
    BY <2>2, <2>3
<1>18. valid_req_q' /\ ~discard_req_q' =>
          /\ WordAligned(stored_addr_q') = Expected(v2 + n2 - d2)'
          /\ WordAligned(fetch_addr_q') = Expected(v2 + n2 - d2 + 1)'
  <2> SUFFICES ASSUME valid_req_q', ~discard_req_q'
               PROVE  /\ WordAligned(stored_addr_q') = Expected(v2 + n2 - d2)'
                      /\ WordAligned(fetch_addr_q') = Expected(v2 + n2 - d2 + 1)'
    OBVIOUS
  <2>1. valid_req(in) /\ ~in.gnt /\ ~discard_req_d(in)
    BY <1>10
  <2>2. WordAligned(stored_addr_q') = Expected(v + n - d)
    BY <1>8, <1>10, <2>1, RequestedAddr, <1>1 DEF next
  <2>3. WordAligned(fetch_addr_q') = Expected(v + n - d + 1)
    BY <1>1, <1>7, <1>10, <1>15, <2>1 DEF Contents
  <2>4. v2 + n2 - d2 + e = v + n - d
    BY <1>17, <2>1
  <2>. QED
    BY <1>16, <2>2, <2>3, <2>4
<1>19. ~(valid_req_q' /\ ~discard_req_q') =>
          WordAligned(fetch_addr_q') = Expected(v2 + n2 - d2)'
  <2> SUFFICES ASSUME ~(valid_req_q' /\ ~discard_req_q')
               PROVE  WordAligned(fetch_addr_q') = Expected(v2 + n2 - d2 + e)
    BY <1>16
  <2>1. CASE valid_req_q /\ ~discard_req_q
    BY <1>1, <1>7, <1>10, <1>17, <2>1 DEF Contents, valid_req
  <2>2. CASE valid_req_q /\ discard_req_q
    BY <1>1, <1>7, <1>10, <1>17, <2>2 DEF Contents
  <2>3. CASE ~valid_req_q
    BY <1>1, <1>3, <1>7, <1>10, <1>15, <1>17, <2>3 DEF Contents
  <2>. QED
    BY <2>1, <2>2, <2>3
<1>. QED
  BY <1>6, <1>10, <1>13, <1>14, <1>18, <1>19 DEF Contents

\* After a branch nothing that was fetched before is live.
LEMMA RequestsRestart ==
  ASSUME StreamIInv, NEW in \in Inputs, Step(in), branch_i(in),
         NEW v \in Nat, NEW n \in Nat, NEW d \in Nat, Lengths(v, n, d), Room(v, n, d),
         NEW v2, v2 = Kept(in, v), NEW n2, n2 = NewOutstanding(in, n),
         NEW d2, d2 = NewDiscarded(in, n, d)
  PROVE  Contents(v2, n2, d2)' /\ fetch_addr_q' # NoPc /\ instr_addr_q' # NoPc
<1>1. /\ TypeOK /\ Env(in) /\ RequestRegs(in) /\ FifoRegs(in) /\ Bus(in)
      /\ in.addr \in HalfAddr
  BY InputTypes DEF StreamIInv, Step
<1>2. d <= n /\ n <= NUM_REQS /\ Len(bus_q) = n
  BY DEF Lengths
<1>3. (in.gnt => valid_req(in)) /\ (in.rvalid => n > 0)
  BY <1>1, Response DEF Env
<1>4. v2 = 0 /\ Ones(v2) = {}
  BY DEF Kept, Ones
<1>5. instr_addr_q' = in.addr /\ instr_addr_q' \in HalfAddr /\ NoPc \notin HalfAddr
  BY <1>1 DEF FifoRegs, HalfAddr, NoPc
<1>6. discard_req_d(in) <=> valid_req_q
  BY DEF discard_req_d
<1>7. Expected(0)' = WordAligned(in.addr) /\ Expected(1)' = HalfAfter(WordAligned(in.addr), 2)
  <2>1. WordAligned(in.addr) \in HalfAddr /\ 2 * 0 = 0 /\ 2 * 1 = 2
    BY <1>1, Addresses
  <2>. QED
    BY <1>5, <2>1, NextBoundary DEF Expected
<1>8. /\ valid_req_q' <=> valid_req(in) /\ ~in.gnt
      /\ discard_req_q' <=> valid_req_q
      /\ valid_req(in) /\ ~valid_req_q /\ ~in.gnt => stored_addr_q' = in.addr
      /\ WordAligned(fetch_addr_q') =
            IF valid_req(in) /\ ~valid_req_q THEN HalfAfter(WordAligned(in.addr), 2)
                                             ELSE WordAligned(in.addr)
      /\ fetch_addr_q' \in HalfAddr
  <2>1. valid_new_req(in) /\ ~valid_req_q <=> valid_req(in) /\ ~valid_req_q
    BY DEF valid_req
  <2>. QED
    BY <1>1, <1>6, <2>1, FetchAddrMoves, RequestedAddr DEF RequestRegs
<1>9. /\ in.gnt /\ ~valid_req_q => n2 = d2 + 1
      /\ ~(in.gnt /\ ~valid_req_q) => n2 = d2
      /\ n2 \in Nat /\ d2 \in Nat
      /\ in.gnt => n2 = n - (IF in.rvalid THEN 1 ELSE 0) + 1
  BY <1>2, <1>3, <1>6 DEF NewOutstanding, NewDiscarded, Cancelled, Less1
<1>10. ASSUME NEW j \in (d2 + 1)..n2 PROVE bus_q'[j] = Expected(v2 + j - d2 - 1)'
  <2>1. in.gnt /\ ~valid_req_q /\ j = n2 /\ v2 + j - d2 - 1 = 0
    BY <1>4, <1>9
  <2>2. instr_addr(in) = in.addr
    BY <1>1, <1>3, <2>1, RequestedAddr
  <2>3. WordAligned(instr_addr(in)) \in HalfAddr
    BY <1>1, <2>2, Addresses
  <2> DEFINE r == IF in.rvalid THEN 1 ELSE 0
  <2>4. j \in Nat \ {0} /\ j = Len(bus_q) - r + 1 /\ Len(bus_q) \in Nat /\ r \in 0..1
    BY <1>2, <1>3, <1>9, <2>1
  <2> HIDE DEF r
  <2>5. r = IF in.rvalid THEN 1 ELSE 0
    BY DEF r
  <2>6. bus_q'[j] = IF j <= Len(bus_q) - r THEN bus_q[j + r] ELSE WordAligned(instr_addr(in))
    BY <1>1, <2>1, <2>3, <2>4, <2>5, BusAfter
  <2>. QED
    BY <1>7, <2>1, <2>2, <2>4, <2>6
<1>11. valid_req_q' /\ ~discard_req_q' =>
          /\ WordAligned(stored_addr_q') = Expected(v2 + n2 - d2)'
          /\ WordAligned(fetch_addr_q') = Expected(v2 + n2 - d2 + 1)'
  <2> SUFFICES ASSUME valid_req_q', ~discard_req_q'
               PROVE  /\ WordAligned(stored_addr_q') = Expected(v2 + n2 - d2)'
                      /\ WordAligned(fetch_addr_q') = Expected(v2 + n2 - d2 + 1)'
    OBVIOUS
  <2>1. v2 + n2 - d2 = 0 /\ v2 + n2 - d2 + 1 = 1
    BY <1>4, <1>8, <1>9
  <2>. QED
    BY <1>7, <1>8, <2>1
<1>12. ~(valid_req_q' /\ ~discard_req_q') =>
          WordAligned(fetch_addr_q') = Expected(v2 + n2 - d2)'
  <2> SUFFICES ASSUME ~(valid_req_q' /\ ~discard_req_q')
               PROVE  WordAligned(fetch_addr_q') = Expected(v2 + n2 - d2)'
    OBVIOUS
  <2>1. CASE valid_req_q \/ ~valid_req(in)
    <3>1. v2 + n2 - d2 = 0
      BY <1>3, <1>4, <1>9, <2>1
    <3>. QED
      BY <1>7, <1>8, <2>1, <3>1
  <2>2. CASE ~valid_req_q /\ valid_req(in)
    <3>1. v2 + n2 - d2 = 1
      BY <1>4, <1>8, <1>9, <2>2
    <3>. QED
      BY <1>7, <1>8, <2>2, <3>1
  <2>. QED
    BY <2>1, <2>2
<1>. QED
  BY <1>4, <1>5, <1>8, <1>10, <1>11, <1>12 DEF Contents

LEMMA ToPrefetch == StreamIInv => PrefetchIInv
  BY DEF StreamIInv, PrefetchIInv

LEMMA NextFollows ==
  ASSUME StreamIInv, NEW in \in Inputs, Step(in),
         NEW v \in Nat, NEW n \in Nat, NEW d \in Nat, Lengths(v, n, d), Room(v, n, d),
         Follows(v, n, d),
         NEW v2, v2 = Kept(in, v), NEW n2, n2 = NewOutstanding(in, n),
         NEW d2, d2 = NewDiscarded(in, n, d)
  PROVE  Follows(v2, n2, d2)'
<1>1. CASE branch_i(in)
  BY <1>1, RequestsRestart DEF Follows
<1>2. CASE ~branch_i(in) /\ instr_addr_q # NoPc
  BY <1>2, RequestsFollow DEF Follows
<1>3. CASE ~branch_i(in) /\ instr_addr_q = NoPc
  <2>1. Unstarted(v, n) /\ TypeOK /\ Env(in) /\ RequestRegs(in) /\ FifoRegs(in) /\ Output(in)
    BY <1>3 DEF Follows, StreamIInv, Step
  <2>2. ~in.req /\ ~valid_req(in) /\ ~in.gnt /\ ~in.ready
    BY <1>3, <2>1 DEF Env, Unstarted, valid_req, valid_new_req
  <2>3. ~in.rvalid
    BY <2>1, Response DEF Unstarted
  <2>4. v2 = 0 /\ n2 = 0
    BY <1>3, <2>1, <2>2, <2>3
       DEF Unstarted, Kept, Pushed, in_valid, pop_fifo, NewOutstanding
  <2>5. ~valid_req_q' /\ fetch_addr_q' = NoPc /\ ~lost_q' /\ instr_addr_q' = NoPc
    <3>1. ~valid_new_req(in)
      BY <2>2 DEF valid_req
    <3>. QED
      BY <1>3, <2>1, <2>2, <3>1 DEF RequestRegs, FifoRegs, Output, Unstarted
  <2>. QED
    BY <2>4, <2>5 DEF Follows, Unstarted
<1>. QED
  BY <1>1, <1>2, <1>3

LEMMA InitStream == Init => StreamIInv
<1> SUFFICES ASSUME Init PROVE StreamIInv
  OBVIOUS
<1>1. Ones(0) = {} /\ NUM_REQS \in Nat /\ DEPTH \in Nat
  BY PrefetchAssumption DEF Ones, DEPTH
<1>2. Lengths(0, 0, 0) /\ Room(0, 0, 0)
  BY <1>1 DEF Init, Lengths, Room
<1>3. Follows(0, 0, 0)
  BY DEF Init, Follows, Unstarted
<1>. QED
  BY <1>2, <1>3, InitPrefetch DEF PrefetchIInv, StreamIInv

LEMMA StepStream == StreamIInv /\ [Next]_vars => StreamIInv'
<1> SUFFICES ASSUME StreamIInv, [Next]_vars PROVE StreamIInv'
  OBVIOUS
<1>1. PrefetchIInv /\ PrefetchIInv'
  BY ToPrefetch, StepPrefetch
<1>2. PICK v, n, d \in Nat : Lengths(v, n, d) /\ Room(v, n, d) /\ Follows(v, n, d)
  BY DEF StreamIInv
<1>3. ASSUME NEW in \in Inputs, Step(in) PROVE StreamIInv'
  <2>1. PICK v2, n2, d2 : /\ v2 = Kept(in, v)
                          /\ n2 = NewOutstanding(in, n) /\ d2 = NewDiscarded(in, n, d)
    OBVIOUS
  <2>2. Lengths(v2, n2, d2)' /\ Room(v2, n2, d2)' /\ Follows(v2, n2, d2)'
    BY <1>1, <1>2, <1>3, <2>1, NextLengths, NextRoom, NextFollows
  <2>3. v2 \in Nat /\ n2 \in Nat /\ d2 \in Nat
    BY <2>2, PrefetchAssumption DEF Lengths, DEPTH
  <2>. QED
    BY <1>1, <2>2, <2>3 DEF StreamIInv, PrefetchIInv
<1>4. CASE UNCHANGED vars
  BY <1>4 DEF vars, req_vars, fifo_vars, StreamIInv, TypeOK, Lengths, Room, Follows, Unstarted,
              Contents, Expected
<1>. QED
  BY <1>3, <1>4 DEF Next

-----------------------------------------------------------------------------
(* The instructions that are taken.                                        *)

\* The aligner puts together the instruction at instr_addr_q, with the error bits that
\* belong to it.
LEMMA Aligned ==
  ASSUME StreamIInv, NEW in \in Inputs, Env(in), in.ready
  PROVE  /\ out_instr(in) # Nothing
         /\ Stream!IsInstrAt(out_instr(in), instr_addr_q)
         /\ ~out_instr(in).err => (out_instr(in).lo.c <=> addr_incr_two(in))
<1>1. PICK v, n, d \in Nat : Lengths(v, n, d) /\ Room(v, n, d) /\ Follows(v, n, d)
  BY DEF StreamIInv
<1>2. TypeOK /\ valid(in) /\ instr_addr_q \in HalfAddr /\ Contents(v, n, d)
  BY <1>1, TakenIsValid DEF StreamIInv, TypeOK, Follows
<1>3. /\ 0 \in valid_q <=> v > 0
      /\ 1 \in valid_q <=> v > 1
      /\ Holds(rdata(in), WordAligned(instr_addr_q))
      /\ valid_unaligned(in) => Holds(second(in), HalfAfter(WordAligned(instr_addr_q), 2))
  <2>1. 0 \in Nat
    OBVIOUS
  <2>. QED
    BY <1>1, <1>2, <2>1, WordsOnOffer, ExpectedWords
<1>4. out_instr(in).lo.at = instr_addr_q
  BY <1>2, <1>3, NextBoundary DEF out_instr, Holds
<1>5. out_instr(in) # Nothing
  <2>1. NoPc \notin HalfAddr
    BY DEF HalfAddr, NoPc
  <2>. QED
    BY <1>2, <1>4, <2>1 DEF Nothing, NoHalf
<1>6. out_valid(in)
  BY DEF Env
<1>7. rdata(in) \in Word /\ (valid_unaligned(in) => second(in) \in Word)
  <2>1. in_valid(in) => in_rdata(in) \in Word
    BY <1>2, Received DEF in_valid
  <2>2. \A i \in valid_q : rdata_q[i] \in Word
    BY <1>2 DEF TypeOK
  <2>. QED
    BY <1>2, <2>1, <2>2 DEF rdata, second, valid, valid_unaligned
<1>8. /\ rdata(in).lo.bad \in BOOLEAN /\ rdata(in).hi.bad \in BOOLEAN
      /\ rdata(in).hi.bad = rdata(in).lo.bad
  BY <1>3, <1>7 DEF Word, Half, Holds
<1>9. CASE ~Unaligned(instr_addr_q)
  <2>1. out_instr(in) = [lo |-> rdata(in).lo, hi |-> rdata(in).hi, err |-> rdata(in).lo.bad,
                         plus2 |-> FALSE]
    BY <1>9 DEF out_instr, err
  <2>2. rdata(in).hi.at = NextHalf(instr_addr_q)
    BY <1>2, <1>3, <1>9, NextBoundary DEF Holds
  <2>3. addr_incr_two(in) <=> rdata(in).lo.c /\ ~rdata(in).lo.bad
    BY <1>9 DEF addr_incr_two, aligned_is_compressed, err
  <2>4. rdata(in).lo.bad = (rdata(in).lo.bad \/ (~rdata(in).lo.c /\ rdata(in).hi.bad))
    BY <1>8, Zenon
  <2>5. rdata(in).lo.bad => FALSE = ~rdata(in).lo.bad
    OBVIOUS
  <2>6. /\ out_instr(in).lo = rdata(in).lo /\ out_instr(in).hi = rdata(in).hi
        /\ out_instr(in).err = rdata(in).lo.bad /\ out_instr(in).plus2 = FALSE
    BY <2>1
  <2>7. Stream!IsInstrAt(out_instr(in), instr_addr_q)
    BY <1>4, <2>2, <2>4, <2>5, <2>6, Zenon DEF Stream!IsInstrAt
  <2>. QED
    BY <1>5, <2>3, <2>6, <2>7
<1>10. CASE Unaligned(instr_addr_q)
  <2>1. /\ out_instr(in).lo = rdata(in).hi /\ out_instr(in).hi = second(in).lo
        /\ out_instr(in).err = err_unaligned(in) /\ out_instr(in).plus2 = err_plus2(in)
    BY <1>10 DEF out_instr
  <2>2. unaligned_is_compressed(in) <=> rdata(in).hi.c /\ ~rdata(in).lo.bad
    BY DEF unaligned_is_compressed, err
  <2>3. ~unaligned_is_compressed(in) => valid_unaligned(in)
    BY <1>6, <1>10 DEF out_valid
  <2>4. ~rdata(in).lo.bad /\ ~rdata(in).hi.c => second(in).lo.at = NextHalf(instr_addr_q)
    BY <1>2, <1>3, <1>10, <2>2, <2>3, NextBoundary DEF Holds
  <2>5. 1 \in valid_q => 0 \in valid_q /\ second(in) = rdata_q[1]
    BY <1>3 DEF second
  <2>6. 1 \notin valid_q /\ 0 \in valid_q /\ ~unaligned_is_compressed(in) =>
          second(in).lo.bad = in.err
    BY <2>3 DEF second, valid_unaligned, in_rdata
  <2>7. 0 \notin valid_q => in.err = rdata(in).lo.bad /\ ~valid_unaligned(in)
    BY <1>2, <1>3 DEF rdata, valid, in_rdata, valid_unaligned
  <2>8. err_unaligned(in) <=> rdata(in).lo.bad \/ (~rdata(in).hi.c /\ second(in).lo.bad)
    <3>1. CASE 1 \in valid_q
      BY <2>2, <2>5, <3>1 DEF err_unaligned, err
    <3>2. CASE 1 \notin valid_q /\ 0 \in valid_q
      <4>1. err_unaligned(in) <=> rdata(in).lo.bad \/ (in.err /\ ~unaligned_is_compressed(in))
        BY <3>2 DEF err_unaligned, err
      <4>2. CASE unaligned_is_compressed(in)
        BY <2>2, <4>1, <4>2
      <4>3. CASE ~unaligned_is_compressed(in)
        BY <2>2, <2>6, <3>2, <4>1, <4>3
      <4>. QED
        BY <4>2, <4>3
    <3>3. CASE 0 \notin valid_q
      <4>1. err_unaligned(in) <=> in.err
        BY <2>5, <3>3 DEF err_unaligned
      <4>. QED
        BY <2>2, <2>3, <2>7, <3>3, <4>1
    <3>. QED
      BY <2>5, <3>1, <3>2, <3>3
  <2>9. err_unaligned(in) => (err_plus2(in) <=> ~rdata(in).lo.bad)
    BY <2>5, <2>7 DEF err_unaligned, err_plus2, err
  <2>10. err_unaligned(in) \in BOOLEAN /\ err_plus2(in) \in BOOLEAN
    BY Zenon DEF err_unaligned, err_plus2
  <2>11. err_unaligned(in) = (rdata(in).hi.bad \/ (~rdata(in).hi.c /\ second(in).lo.bad))
    BY <1>8, <2>8, <2>10, Zenon
  <2>12. err_unaligned(in) => err_plus2(in) = ~rdata(in).hi.bad
    BY <1>8, <2>9, <2>10, Zenon
  <2>13. Stream!IsInstrAt(out_instr(in), instr_addr_q)
    BY <1>4, <1>8, <2>1, <2>4, <2>11, <2>12, Zenon DEF Stream!IsInstrAt
  <2>14. addr_incr_two(in) <=> rdata(in).hi.c /\ ~rdata(in).lo.bad
    BY <1>10, <2>2 DEF addr_incr_two
  <2>. QED
    BY <1>5, <2>1, <2>8, <2>13, <2>14
<1>. QED
  BY <1>9, <1>10

\* One edge is one step of the abstract stream.
LEMMA StreamStep ==
  ASSUME StreamIInv, NEW in \in Inputs, Step(in)
  PROVE  Stream!Next
<1>1. TypeOK /\ Env(in) /\ FifoRegs(in) /\ Output(in)
  BY DEF StreamIInv, Step
<1> DEFINE pc == IF lost_q THEN Lost ELSE instr_addr_q
<1>2. NoPc \notin HalfAddr /\ Lost \notin HalfAddr /\ NoPc # Lost
  BY DEF HalfAddr, NoPc, Lost
<1>3. ~in.ready => Stream!Idle
  BY <1>1 DEF Output, Stream!Idle
<1>4. ASSUME in.ready PROVE Stream!Take /\ taken' = out_instr(in) /\ instr_addr_q \in HalfAddr
  <2>1. taken' = out_instr(in) /\ out_instr(in) # Nothing
    BY <1>1, <1>4, Aligned DEF Output
  <2>2. instr_addr_q \in HalfAddr
    BY <1>1, <1>4 DEF Env, TypeOK
  <2>3. pc # NoPc
    BY <1>2, <2>2
  <2>4. pc # Lost => Stream!IsInstrAt(taken', pc)
    BY <1>1, <1>4, <2>1, Aligned
  <2>. QED
    BY <2>1, <2>2, <2>3, <2>4 DEF Stream!Take
<1>5. CASE branch_i(in)
  <2>1. lost_q' = FALSE /\ instr_addr_q' \in HalfAddr
    BY <1>1, <1>5, InputTypes DEF Output, FifoRegs
  <2>2. pc' \in HalfAddr
    BY <2>1
  <2>. QED
    BY <1>3, <1>4, <2>2 DEF Stream!Next
<1>6. CASE ~branch_i(in) /\ ~in.ready
  <2>1. pc' = pc
    BY <1>1, <1>6 DEF Output, FifoRegs
  <2>. QED
    BY <1>3, <1>6, <2>1 DEF Stream!Next
<1>7. CASE ~branch_i(in) /\ in.ready
  <2>1. lost_q' <=> lost_q \/ out_instr(in).err
    BY <1>1, <1>7 DEF Output
  <2>2. instr_addr_q' = HalfAfter(instr_addr_q, IF addr_incr_two(in) THEN 1 ELSE 2)
    BY <1>1, <1>7 DEF FifoRegs
  <2>3. NextHalf(NextHalf(instr_addr_q)) = HalfAfter(instr_addr_q, 2)
    <3>1. instr_addr_q \in Nat /\ 1 \in Nat /\ 1 + 1 = 2
      BY <1>4, <1>7, PrefetchAssumption DEF HalfAddr
    <3>. QED
      BY <3>1, HalfAfterTwice DEF NextHalf
  <2>4. ~out_instr(in).err => (out_instr(in).lo.c <=> addr_incr_two(in))
    BY <1>1, <1>7, Aligned
  <2>5. pc' = Stream!PcAfter(taken')
    <3>1. CASE lost_q \/ out_instr(in).err
      BY <1>4, <1>7, <2>1, <3>1 DEF Stream!PcAfter
    <3>2. CASE ~lost_q /\ ~out_instr(in).err
      <4>1. pc' = instr_addr_q' /\ pc = instr_addr_q /\ pc # Lost
        BY <1>2, <1>4, <1>7, <2>1, <3>2
      <4>2. Stream!PcAfter(taken') = IF out_instr(in).lo.c THEN NextHalf(instr_addr_q)
                                     ELSE NextHalf(NextHalf(instr_addr_q))
        BY <1>4, <1>7, <3>2, <4>1 DEF Stream!PcAfter
      <4>. QED
        BY <2>2, <2>3, <2>4, <3>2, <4>1, <4>2 DEF NextHalf
    <3>. QED
      BY <3>1, <3>2
  <2>. QED
    BY <1>4, <1>7, <2>5 DEF Stream!Next
<1>. QED
  BY <1>5, <1>6, <1>7

\* For every number of outstanding requests and every address space, the IF stage gets
\* the instructions that follow one another from the latest branch target on, each with
\* its error: the prefetch buffer implements the abstract stream.
THEOREM StreamRefinement == Spec => InstrsInOrder
<1>1. Init => Stream!Init
  BY DEF Init, Stream!Init
<1>2. StreamIInv /\ [Next]_vars => [Stream!Next]_<<IF lost_q THEN Lost ELSE instr_addr_q, taken>>
  <2>1. CASE UNCHANGED vars
    BY <2>1 DEF vars, fifo_vars
  <2>. QED
    BY <2>1, StreamStep DEF Next
<1>. QED
  BY <1>1, <1>2, InitStream, StepStream, PTL DEF Spec, InstrsInOrder, Stream!Spec

\* Whatever the sizes, the buffer never waits for the IF stage while the IF stage waits
\* for it: with nothing on the bus and no whole instruction on offer, entry 1 is free.
THEOREM NoDeadlock == Spec => []NeverWedged
<1>1. PrefetchIInv => NeverWedged
  <2> SUFFICES ASSUME PrefetchIInv, bus_q = <<>>, ~out_valid(Idle) PROVE fifo_ready
    BY DEF NeverWedged
  <2>1. PICK v, n, d \in Nat : Lengths(v, n, d) /\ Room(v, n, d)
    BY DEF PrefetchIInv
  <2>2. rdata_outstanding_q = {}
    BY <2>1 DEF Lengths, Ones
  <2>3. 1 \notin valid_q
    <3>1. 1 \in valid_q => 0 \in valid_q
      BY <2>1 DEF Lengths, Ones
    <3>. QED
      BY <3>1 DEF out_valid, valid, valid_unaligned
  <2>. QED
    BY <2>2, <2>3, PrefetchAssumption DEF fifo_ready, Slot
<1>. QED
  BY <1>1, InitPrefetch, StepPrefetch, PTL DEF Spec
=============================================================================
