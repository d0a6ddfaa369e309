--------------------------- MODULE MemPipelineProofs ---------------------------
(***************************************************************************)
(* Theorems about MemPipeline, for every address space of more than one    *)
(* word, every set of accesses and denied words, with and without the      *)
(* writeback stage.                                                        *)
(*                                                                         *)
(* An access goes through phases: it asks for its first word, then, if it  *)
(* is split, for its second while the first is outstanding (AtBoth) or     *)
(* after its answer (AtSecond), and at last waits for one answer (AtLast). *)
(* A predicate per phase says what the registers and the bus hold then;    *)
(* the invariant is that one of them holds, for the access in the stage    *)
(* the phase belongs to.  One lemma per phase gives the next phase.        *)
(***************************************************************************)
EXTENDS MemPipeline, TLAPS

-----------------------------------------------------------------------------
(* The words and bytes of an access.                                       *)
SecondAddr(a) == (a.addr + 4) % NumBytes
FirstWord(a)  == WordOf(a.addr)
SecondWord(a) == WordOf(SecondAddr(a))

LEMMA DivFour ==
  ASSUME NEW w \in Nat, NEW j \in Lane
  PROVE  /\ WordOf(4 * w + j) = w /\ Offset(4 * w + j) = j /\ Aligned(4 * w + j) = 4 * w
         /\ 4 * w + j \in Nat
  BY DEF WordOf, Offset, Aligned, Lane

LEMMA AddrParts ==
  ASSUME NEW x \in Addr
  PROVE  /\ WordOf(x) \in Word /\ Offset(x) \in Lane /\ x = 4 * WordOf(x) + Offset(x)
         /\ x \in Nat /\ WordOf(x) \in Nat
<1>1. x \in Nat /\ x < 4 * NUM_WORDS /\ NUM_WORDS \in Nat
  BY LsuAssumption DEF Addr
<1>. QED
  BY <1>1 DEF WordOf, Offset, Word, Lane

LEMMA InAddr ==
  ASSUME NEW w \in Word, NEW j \in Lane
  PROVE  4 * w + j \in Addr /\ w \in Nat
  BY LsuAssumption DEF Word, Lane, Addr

LEMMA ModNear ==
  ASSUME NEW m \in Nat \ {0}, NEW x \in Nat, x < m
  PROVE  x % m = x
  OBVIOUS

LEMMA ModPast ==
  ASSUME NEW m \in Nat \ {0}, NEW x \in Nat, m <= x, x < 2 * m
  PROVE  x % m = x - m
  OBVIOUS

LEMMA SecondAddrParts ==
  ASSUME NEW a \in Access
  PROVE  /\ SecondAddr(a) \in Addr
         /\ SecondWord(a) = IF FirstWord(a) + 1 < NUM_WORDS THEN FirstWord(a) + 1 ELSE 0
         /\ Offset(SecondAddr(a)) = Offset(a.addr)
         /\ FirstWord(a) \in Word /\ SecondWord(a) \in Word /\ FirstWord(a) # SecondWord(a)
<1>1. a.addr \in Addr /\ NumBytes \in Nat \ {0} /\ NUM_WORDS \in Nat /\ NUM_WORDS > 1
  BY LsuAssumption DEF Access, NumBytes
<1>2. /\ FirstWord(a) \in Word /\ Offset(a.addr) \in Lane /\ FirstWord(a) \in Nat
      /\ a.addr = 4 * FirstWord(a) + Offset(a.addr)
  BY <1>1, AddrParts DEF FirstWord
<1> DEFINE w == FirstWord(a)
           u == IF w + 1 < NUM_WORDS THEN w + 1 ELSE 0
           j == Offset(a.addr)
<1>3. w < NUM_WORDS /\ u \in Word /\ u \in Nat /\ u # w /\ j \in 0..3
  BY <1>1, <1>2 DEF Word, Lane
<1> HIDE DEF w, j, u
<1>4. SecondAddr(a) = 4 * u + j
  <2>1. a.addr + 4 = 4 * (w + 1) + j /\ NumBytes = 4 * NUM_WORDS
    BY <1>1, <1>2 DEF w, j, NumBytes, Lane
  <2>2. CASE w + 1 < NUM_WORDS
    <3>1. a.addr + 4 < NumBytes /\ a.addr + 4 \in Nat /\ u = w + 1 /\ w \in Nat
      BY <1>1, <1>2, <1>3, <2>1, <2>2 DEF u, w
    <3>2. (a.addr + 4) % NumBytes = a.addr + 4
      BY <1>1, <3>1, ModNear
    <3>. QED
      BY <2>1, <3>1, <3>2 DEF SecondAddr
  <2>3. CASE ~(w + 1 < NUM_WORDS)
    <3>1. NumBytes <= a.addr + 4 /\ a.addr + 4 < 2 * NumBytes /\ a.addr + 4 \in Nat /\ u = 0
            /\ w + 1 = NUM_WORDS
      BY <1>1, <1>2, <1>3, <2>1, <2>3 DEF u, w
    <3>2. (a.addr + 4) % NumBytes = (a.addr + 4) - NumBytes
      BY <1>1, <3>1, ModPast, Zenon
    <3>. QED
      BY <1>1, <1>3, <2>1, <3>1, <3>2 DEF SecondAddr
  <2>. QED
    BY <2>2, <2>3
<1>5. SecondAddr(a) \in Addr /\ SecondWord(a) = u /\ Offset(SecondAddr(a)) = j
  BY <1>3, <1>4, DivFour, InAddr DEF SecondWord, Lane
<1>. QED
  BY <1>2, <1>3, <1>5 DEF u, w, j

\* Where byte k of an access is: in lane Offset + k of its first word, or 4 lanes less
\* of the second.
LEMMA BytePlace ==
  ASSUME NEW a \in Access, NEW k \in BytesOf(a)
  PROVE  /\ Offset(a.addr) + k <= 3 =>
               /\ ByteAt(a, k) = 4 * FirstWord(a) + (Offset(a.addr) + k)
               /\ WordOf(ByteAt(a, k)) = FirstWord(a)
         /\ Offset(a.addr) + k > 3 =>
               /\ ByteAt(a, k) = 4 * SecondWord(a) + (Offset(a.addr) + k - 4)
               /\ WordOf(ByteAt(a, k)) = SecondWord(a)
<1>1. /\ a.addr \in Addr /\ NumBytes \in Nat \ {0} /\ NUM_WORDS \in Nat /\ NUM_WORDS > 1
      /\ k \in 0..3 /\ NumBytes = 4 * NUM_WORDS
  BY LsuAssumption DEF Access, NumBytes, BytesOf
<1> DEFINE w == FirstWord(a)
           j == Offset(a.addr)
           u == SecondWord(a)
<1>2. w \in Nat /\ w < NUM_WORDS /\ j \in 0..3 /\ a.addr = 4 * w + j /\ a.addr \in Nat
        /\ u = (IF w + 1 < NUM_WORDS THEN w + 1 ELSE 0)
  <2>1. w \in Word /\ u = (IF w + 1 < NUM_WORDS THEN w + 1 ELSE 0)
    BY SecondAddrParts
  <2>. QED
    BY <1>1, <2>1, AddrParts DEF FirstWord, Word, Lane
<1>3. ByteAt(a, k) = (a.addr + k) % NumBytes
  BY DEF ByteAt
<1> HIDE DEF w, j, u
<1>4. CASE j + k <= 3
  <2>1. a.addr + k < NumBytes /\ a.addr + k \in Nat /\ a.addr + k = 4 * w + (j + k)
          /\ j + k \in Lane
    BY <1>1, <1>2, <1>4 DEF Lane
  <2>2. ByteAt(a, k) = 4 * w + (j + k)
    BY <1>1, <1>3, <2>1, ModNear
  <2>. QED
    BY <1>1, <1>2, <1>4, <2>1, <2>2, DivFour DEF w, j, u
<1>5. CASE j + k > 3
  <2>1. j + k - 4 \in Lane /\ a.addr + k = 4 * (w + 1) + (j + k - 4) /\ a.addr + k \in Nat
          /\ u \in Nat
    BY <1>1, <1>2, <1>5 DEF Lane
  <2>2. ByteAt(a, k) = 4 * u + (j + k - 4)
    <3>1. CASE w + 1 < NUM_WORDS
      <4>1. a.addr + k < NumBytes /\ u = w + 1
        BY <1>1, <1>2, <2>1, <3>1 DEF Lane
      <4>. QED
        BY <1>1, <1>3, <2>1, <4>1, ModNear
    <3>2. CASE ~(w + 1 < NUM_WORDS)
      <4>1. NumBytes <= a.addr + k /\ a.addr + k < 2 * NumBytes /\ u = 0 /\ w + 1 = NUM_WORDS
        BY <1>1, <1>2, <2>1, <3>2 DEF Lane
      <4>2. (a.addr + k) % NumBytes = (a.addr + k) - NumBytes
        BY <1>1, <2>1, <4>1, ModPast, Zenon
      <4>. QED
        BY <1>1, <1>2, <1>3, <2>1, <4>1, <4>2
    <3>. QED
      BY <3>1, <3>2
  <2>. QED
    BY <1>1, <1>2, <1>5, <2>1, <2>2, DivFour DEF w, j, u
<1>. QED
  BY <1>1, <1>2, <1>4, <1>5 DEF j

\* The lanes of the first word and of the second are the bytes of the access.
LEMMA LanesAreBytes ==
  ASSUME NEW a \in Access, NEW j \in Lane
  PROVE  /\ j \in FirstLanes(a) =>
               /\ WdataByte(a, j) \in BytesOf(a) /\ WdataByte(a, j) = j - Offset(a.addr)
               /\ Offset(a.addr) + WdataByte(a, j) = j
         /\ j \in SecondLanes(a) =>
               /\ WdataByte(a, j) \in BytesOf(a) /\ Split(a)
               /\ Offset(a.addr) + WdataByte(a, j) - 4 = j
<1>1. a.size \in {1, 2, 4} /\ Offset(a.addr) \in 0..3 /\ j \in 0..3
  BY AddrParts DEF Access, Lane
<1> DEFINE o == Offset(a.addr)
<1> HIDE DEF o
<1>2. \A i \in 0..3 : i % 4 = i
  OBVIOUS
<1>3. \A i \in -3..-1 : i % 4 = i + 4
  OBVIOUS
<1>4. ASSUME j \in FirstLanes(a)
      PROVE  WdataByte(a, j) = j - o /\ j - o \in BytesOf(a)
  <2>1. o <= j /\ j < o + a.size /\ j - o \in 0..3
    BY <1>1, <1>4 DEF FirstLanes, o
  <2>. QED
    BY <1>1, <1>2, <2>1 DEF WdataByte, BytesOf, o
<1>5. ASSUME j \in SecondLanes(a)
      PROVE  WdataByte(a, j) = j - o + 4 /\ j - o + 4 \in BytesOf(a) /\ Split(a)
  <2>1. j < o + a.size - 4 /\ o + a.size > 4
    BY <1>1, <1>5 DEF SecondLanes, o
  <2>2. j - o \in -3..-1
    BY <1>1, <2>1 DEF o
  <2>. QED
    BY <1>1, <1>3, <2>1, <2>2 DEF WdataByte, BytesOf, Split, o
<1>. QED
  BY <1>1, <1>4, <1>5 DEF o

LEMMA BytesAreLanes ==
  ASSUME NEW a \in Access, NEW k \in BytesOf(a)
  PROVE  /\ Offset(a.addr) + k <= 3 =>
               /\ Offset(a.addr) + k \in FirstLanes(a) /\ Offset(a.addr) + k \in Lane
               /\ WdataByte(a, Offset(a.addr) + k) = k
         /\ Offset(a.addr) + k > 3 =>
               /\ Offset(a.addr) + k - 4 \in SecondLanes(a) /\ Offset(a.addr) + k - 4 \in Lane
               /\ WdataByte(a, Offset(a.addr) + k - 4) = k /\ Split(a)
<1>1. a.size \in {1, 2, 4} /\ Offset(a.addr) \in 0..3 /\ k \in 0..3 /\ k < a.size
  BY AddrParts DEF Access, Lane, BytesOf
<1> DEFINE o == Offset(a.addr)
<1> HIDE DEF o
<1>2. CASE o + k <= 3
  <2>1. o + k \in Lane /\ o + k \in FirstLanes(a)
    BY <1>1, <1>2 DEF FirstLanes, Lane, o
  <2>2. WdataByte(a, o + k) = (o + k) - o
    BY <2>1, LanesAreBytes DEF o
  <2>. QED
    BY <1>1, <1>2, <2>1, <2>2 DEF o
<1>3. CASE o + k > 3
  <2>1. o + k - 4 \in Lane /\ o + k - 4 \in SecondLanes(a)
    BY <1>1, <1>3 DEF SecondLanes, Lane, o
  <2>2. o + WdataByte(a, o + k - 4) - 4 = o + k - 4 /\ WdataByte(a, o + k - 4) \in BytesOf(a)
          /\ Split(a)
    BY <2>1, LanesAreBytes DEF o
  <2>3. WdataByte(a, o + k - 4) = k
    <3>1. WdataByte(a, o + k - 4) \in Int
      BY <1>1, <2>2 DEF BytesOf
    <3>. QED
      BY <1>1, <2>2, <3>1 DEF o
  <2>. QED
    BY <1>1, <1>3, <2>1, <2>2, <2>3 DEF o
<1>. QED
  BY <1>1, <1>2, <1>3 DEF o

LEMMA TwoWords ==
  ASSUME NEW a \in Access
  PROVE  WordsOf(a) = {FirstWord(a)} \cup (IF Split(a) THEN {SecondWord(a)} ELSE {})
<1>1. a.size \in {1, 2, 4} /\ Offset(a.addr) \in 0..3
  BY AddrParts DEF Access, Lane
<1>2. 0 \in BytesOf(a) /\ a.size - 1 \in BytesOf(a)
  BY <1>1 DEF BytesOf
<1>3. FirstWord(a) \in WordsOf(a)
  <2>1. Offset(a.addr) + 0 <= 3
    BY <1>1
  <2>2. WordOf(ByteAt(a, 0)) = FirstWord(a)
    BY <1>2, <2>1, BytePlace
  <2>. QED
    BY <1>2, <2>2 DEF WordsOf
<1>4. Split(a) => SecondWord(a) \in WordsOf(a)
  <2> SUFFICES ASSUME Split(a) PROVE SecondWord(a) \in WordsOf(a)
    OBVIOUS
  <2>1. Offset(a.addr) + (a.size - 1) > 3
    BY <1>1 DEF Split
  <2>2. WordOf(ByteAt(a, a.size - 1)) = SecondWord(a)
    BY <1>2, <2>1, BytePlace
  <2>. QED
    BY <1>2, <2>2 DEF WordsOf
<1>5. ASSUME NEW k \in BytesOf(a)
      PROVE  WordOf(ByteAt(a, k)) = FirstWord(a) \/ (Split(a) /\ WordOf(ByteAt(a, k)) = SecondWord(a))
  <2>1. k \in Nat
    BY <1>1 DEF BytesOf
  <2>2. Offset(a.addr) + k <= 3 \/ Offset(a.addr) + k > 3
    BY <1>1, <2>1
  <2>. QED
    BY <2>2, BytePlace, BytesAreLanes
<1>. QED
  BY <1>3, <1>4, <1>5 DEF WordsOf

\* Sequences of two elements.
LEMMA TwoLong ==
  ASSUME NEW S, NEW s \in Seq(S), NEW t \in Seq(S), Len(s) = 2, Len(t) = 2, s[1] = t[1], s[2] = t[2]
  PROVE  s = t
  OBVIOUS

LEMMA Element ==
  ASSUME NEW S, NEW s \in Seq(S), NEW i \in 1..Len(s)
  PROVE  s[i] \in S
  OBVIOUS

LEMMA AppendToOne ==
  ASSUME NEW S, NEW s \in Seq(S), NEW f \in S, Len(s) = 1
  PROVE  Append(s, f) = <<s[1], f>>
<1>0. 1 \in 1..Len(s)
  OBVIOUS
<1>1. /\ Append(s, f) \in Seq(S) /\ Len(Append(s, f)) = Len(s) + 1
      /\ Append(s, f)[Len(s) + 1] = f /\ \A i \in 1..Len(s) : Append(s, f)[i] = s[i]
  OBVIOUS
<1>2. \A e \in S : <<e, f>> \in Seq(S) /\ Len(<<e, f>>) = 2 /\ <<e, f>>[1] = e /\ <<e, f>>[2] = f
  OBVIOUS
<1>3. s[1] \in S
  BY <1>0, Element, Zenon
<1>4. Append(s, f)[1] = s[1] /\ Len(Append(s, f)) = 2 /\ Append(s, f)[2] = f
  BY <1>0, <1>1
<1>. QED
  BY <1>1, <1>2, <1>3, <1>4, TwoLong

LEMMA AppendTwo ==
  ASSUME NEW S, NEW e \in S, NEW f \in S
  PROVE  Append(<<>>, e) = <<e>> /\ Append(<<e>>, f) = <<e, f>>
<1>1. Append(<<>>, e) = <<e>>
  OBVIOUS
<1>2. \A s \in Seq(S) : Len(s) = 1 => Append(s, f) = <<s[1], f>>
  BY AppendToOne
<1>3. <<e>> \in Seq(S) /\ Len(<<e>>) = 1 /\ <<e>>[1] = e
  OBVIOUS
<1>. QED
  BY <1>1, <1>2, <1>3
-----------------------------------------------------------------------------
(* The phases of an access.  a is the access that the load/store unit is   *)
(* busy with: the one in ID until all of it is granted or denied, then the *)
(* one that waits for its last answer.                                     *)

FirstEntry(a)  == [word |-> FirstWord(a), be |-> FirstLanes(a), acc |-> a]
SecondEntry(a) == [word |-> SecondWord(a), be |-> SecondLanes(a), acc |-> a]

\* The bytes that its two requests write.
FirstBytes(a) ==
    IF a.we /\ FirstWord(a) \notin denied
    THEN {<<4 * FirstWord(a) + j, WdataByte(a, j)>> : j \in FirstLanes(a)} ELSE {}
SecondBytes(a) ==
    IF a.we /\ SecondWord(a) \notin denied
    THEN {<<4 * SecondWord(a) + j, WdataByte(a, j)>> : j \in SecondLanes(a)} ELSE {}

\* The registers that form the response are those of a.
Ctrl(a) == data_we_q = a.we /\ data_type_q = a.size /\ rdata_offset_q = Offset(a.addr)

\* The first word of a split access was answered: its failure is kept, or its bytes.
FirstDone(a) ==
    /\ Ctrl(a) /\ errs \subseteq {FirstWord(a)}
    /\ lsu_err_q <=> FirstWord(a) \in denied \cup errs
    /\ ~a.we /\ ~lsu_err_q => \A j \in FirstLanes(a) : rdata_q[j] = 4 * FirstWord(a) + j

AtFree ==
    /\ ls_fsm_cs = "IDLE" /\ ~handle_misaligned_q /\ ~pmp_err_q
    /\ bus_q = <<>> /\ errs = {} /\ written = {}

\* The first or only request is not granted yet.
AtFirst(a) ==
    /\ ls_fsm_cs = (IF Split(a) THEN "WAIT_GNT_MIS" ELSE "WAIT_GNT")
    /\ ~handle_misaligned_q /\ ~lsu_err_q
    /\ pmp_err_q <=> FirstWord(a) \in denied
    /\ bus_q = <<>> /\ errs = {} /\ written = {}

\* The first word waits for its answer, the second for its grant.
AtBoth(a) ==
    /\ ls_fsm_cs = "WAIT_RVALID_MIS" /\ Split(a) /\ handle_misaligned_q
    /\ Ctrl(a) /\ addr_last_q = a.addr
    /\ pmp_err_q <=> FirstWord(a) \in denied
    /\ bus_q = IF pmp_err_q THEN <<>> ELSE <<FirstEntry(a)>>
    /\ errs = {} /\ written = FirstBytes(a)

AtSecond(a) ==
    /\ ls_fsm_cs = "WAIT_GNT" /\ Split(a) /\ handle_misaligned_q
    /\ FirstDone(a) /\ addr_last_q = a.addr
    /\ pmp_err_q <=> SecondWord(a) \in denied
    /\ bus_q = <<>> /\ written = FirstBytes(a)

\* Both words wait for their answers.
AtAnswers(a) ==
    /\ ls_fsm_cs = "WAIT_RVALID_MIS_GNTS_DONE" /\ Split(a) /\ ~handle_misaligned_q
    /\ Ctrl(a) /\ addr_last_q = a.addr
    /\ ~pmp_err_q /\ FirstWord(a) \notin denied /\ SecondWord(a) \notin denied
    /\ bus_q = <<FirstEntry(a), SecondEntry(a)>>
    /\ errs = {} /\ written = FirstBytes(a) \cup SecondBytes(a)

\* The last word waits for its answer, or was denied.
AtLastOfTwo(a) ==
    /\ Split(a) /\ FirstDone(a)
    /\ addr_last_q = IF lsu_err_q THEN a.addr ELSE Aligned(SecondAddr(a))
    /\ pmp_err_q <=> SecondWord(a) \in denied
    /\ bus_q = IF pmp_err_q THEN <<>> ELSE <<SecondEntry(a)>>
    /\ written = FirstBytes(a) \cup SecondBytes(a)
AtOnly(a) ==
    /\ ~Split(a) /\ Ctrl(a) /\ ~lsu_err_q /\ addr_last_q = a.addr
    /\ pmp_err_q <=> FirstWord(a) \in denied
    /\ bus_q = IF pmp_err_q THEN <<>> ELSE <<FirstEntry(a)>>
    /\ errs = {} /\ written = FirstBytes(a)
AtLast(a) == ls_fsm_cs = "IDLE" /\ ~handle_misaligned_q /\ (AtLastOfTwo(a) \/ AtOnly(a))

Asking(a) == AtFirst(a) \/ AtBoth(a) \/ AtSecond(a) \/ AtAnswers(a)

\* Which access is in which phase.
Phase ==
    \/ AtFree /\ wb = None /\ (WritebackStage \/ first_q)
    \/ AtLast(responding) /\ responding # None /\ (WritebackStage \/ ~first_q)
    \/ Asking(id) /\ wb = None /\ id # None /\ (WritebackStage \/ ~first_q)

\* Between accesses nothing is outstanding; without a writeback stage the next one
\* has its first cycle.
NextAccess == ~WritebackStage => wb = None /\ (id = None => first_q)

\* The phase of the access, and what the last step promised.
PhaseInv == Phase /\ ResponseRight /\ RequestHeld

MemIInv == TypeOK /\ NextAccess /\ PhaseInv

-----------------------------------------------------------------------------
(* One clock edge, with the inputs of the cycle in one record.             *)
Cycle(in) ==
    /\ in.acc = id
    /\ in.gnt \in BOOLEAN /\ in.rvalid \in BOOLEAN /\ in.err \in BOOLEAN /\ in.lsu_req \in BOOLEAN
    /\ in.lsu_req <=> lsu_req(in)
    /\ LsuEnv(in) /\ LsuRegs(in) /\ Bus(in) /\ IdStage(in) /\ WbStage(in) /\ Observe(in)
    /\ denied' = denied

LEMMA EdgeIsCycle ==
  ASSUME NEW gnt \in BOOLEAN, NEW rvalid \in BOOLEAN, NEW err \in BOOLEAN, Edge(gnt, rvalid, err)
  PROVE  \E in : Cycle(in)
<1> DEFINE bus == [acc |-> id, gnt |-> gnt, rvalid |-> rvalid, err |-> err]
           in == [acc |-> id, gnt |-> gnt, rvalid |-> rvalid, err |-> err,
                  lsu_req |-> lsu_req(bus)]
<1>1. /\ LsuEnv(in) /\ LsuRegs(in) /\ Bus(in) /\ IdStage(in) /\ WbStage(in) /\ Observe(in)
      /\ denied' = denied
  BY DEF Edge
<1>2. /\ in.acc = id /\ in.gnt = gnt /\ in.rvalid = rvalid /\ in.err = err
      /\ in.lsu_req = lsu_req(bus)
  OBVIOUS
<1>3. lsu_req(bus) \in BOOLEAN
  BY Zenon DEF lsu_req
<1>4. lsu_req(bus) <=> lsu_req(in)
  BY DEF lsu_req, data_req_allowed, outstanding_memory_access, lsu_resp_valid_o,
         wb_exception, load_err_o, store_err_o, data_or_pmp_err
<1> HIDE DEF in, bus
<1>5. Cycle(in)
  BY <1>1, <1>2, <1>3, <1>4 DEF Cycle
<1>. QED
  BY <1>5

\* The bus after the edge.
LEMMA BusGrows ==
  ASSUME NEW in, Cycle(in)
  PROVE  /\ in.gnt => bus_q' = Append(IF in.rvalid THEN Tail(bus_q) ELSE bus_q,
                                      [word |-> WordOf(data_addr(in)), be |-> data_be(in),
                                       acc |-> id])
         /\ ~in.gnt => bus_q' = IF in.rvalid THEN Tail(bus_q) ELSE bus_q
         /\ in.gnt => bus_req(in)
         /\ in.rvalid => bus_q # <<>>
         /\ in.err => in.rvalid
  BY DEF Cycle, Bus, LsuEnv

\* A request from the idle state, with nothing left of the access before it.
LEMMA Requested ==
  ASSUME NEW in, Cycle(in), NEW a \in Access, a = id,
         ls_fsm_cs = "IDLE", ~handle_misaligned_q, in.lsu_req,
         (IF in.rvalid THEN Tail(bus_q) ELSE bus_q) = <<>>,
         errs' = {}, written' = StoredBytes(in)
  PROVE  /\ in.gnt /\ Split(a) => AtBoth(a)'
         /\ in.gnt /\ ~Split(a) => AtLast(a)'
         /\ ~in.gnt => AtFirst(a)'
<1>1. /\ data_addr(in) = a.addr /\ data_be(in) = FirstLanes(a)
      /\ data_pmp_err(in) <=> FirstWord(a) \in denied
  BY DEF Cycle, data_addr, addr_incr_req_o, data_be, data_pmp_err, FirstWord
<1>2. in.gnt => FirstWord(a) \notin denied
  BY <1>1, BusGrows DEF bus_req
<1>3. /\ pmp_err_q' <=> FirstWord(a) \in denied
      /\ ~lsu_err_q'
      /\ in.gnt => (handle_misaligned_q' <=> Split(a))
      /\ ~in.gnt => ~handle_misaligned_q'
  BY <1>1 DEF Cycle, LsuRegs, Idle, WaitGntMis, WaitRvalidMis, WaitGnt, WaitRvalidMisGntsDone
<1>4. ls_fsm_cs' = IF in.gnt THEN (IF Split(a) THEN "WAIT_RVALID_MIS" ELSE "IDLE")
                            ELSE (IF Split(a) THEN "WAIT_GNT_MIS" ELSE "WAIT_GNT")
  BY DEF Cycle, LsuRegs, ls_fsm_ns
<1>5. in.gnt => addr_last_q' = a.addr /\ Ctrl(a)'
  BY <1>1 DEF Cycle, LsuRegs, addr_update, ctrl_update, addr_incr_req_o, Ctrl
<1>6. /\ in.gnt => bus_q' = <<FirstEntry(a)>>
      /\ ~in.gnt => bus_q' = <<>>
  <2> DEFINE rest == IF in.rvalid THEN Tail(bus_q) ELSE bus_q
  <2>1. rest = <<>>
    OBVIOUS
  <2>2. in.gnt => bus_q' = Append(rest, FirstEntry(a))
    BY <1>1, BusGrows DEF FirstEntry, FirstWord
  <2>3. ~in.gnt => bus_q' = rest
    BY BusGrows
  <2> HIDE DEF rest
  <2>4. Append(<<>>, FirstEntry(a)) = <<FirstEntry(a)>>
    OBVIOUS
  <2>. QED
    BY <2>1, <2>2, <2>3, <2>4
<1>7. /\ in.gnt => written' = FirstBytes(a)'
      /\ ~in.gnt => written' = {}
  BY <1>1, <1>2 DEF Cycle, StoredBytes, FirstBytes, FirstWord
<1>8. denied' = denied
  BY DEF Cycle
<1>. QED
  BY <1>2, <1>3, <1>4, <1>5, <1>6, <1>7, <1>8 DEF AtBoth, AtLast, AtOnly, AtFirst

LEMMA EntryTypes ==
  ASSUME NEW a \in Access
  PROVE  FirstEntry(a) \in BusEntry /\ SecondEntry(a) \in BusEntry
  BY SecondAddrParts DEF FirstEntry, SecondEntry, BusEntry, FirstLanes, SecondLanes

\* What the bus holds in each phase, as a sequence.
LEMMA OneOnBus ==
  ASSUME NEW in, NEW e \in BusEntry, bus_q = <<e>>
  PROVE  /\ Head(bus_q) = e /\ Tail(bus_q) = <<>> /\ bus_q # <<>>
         /\ AnsweredErrs(in) = (IF in.err THEN {e.word} ELSE {})
  BY DEF AnsweredErrs

\* An edge outside the idle state gives no response, and the access stays.
LEMMA NoResponse ==
  ASSUME NEW in, Cycle(in), ls_fsm_cs # "IDLE", id # None
  PROVE  /\ ~lsu_resp_valid_o(in) /\ resp' = NoResp
         /\ errs' = errs \cup AnsweredErrs(in)
         /\ written' = written \cup StoredBytes(in)
         /\ ls_fsm_cs' # "IDLE" =>
               id' = id /\ (wb = None => wb' = None) /\ (~first_q => ~first_q')
         /\ ls_fsm_cs' = "IDLE" =>
               IF WritebackStage THEN wb = None => wb' = id
                                 ELSE wb' = wb /\ id' = id /\ ~first_q'
<1>1. ~lsu_resp_valid_o(in)
  BY DEF lsu_resp_valid_o
<1>2. ls_fsm_cs' = ls_fsm_ns(in)
  BY DEF Cycle, LsuRegs
<1>3. lsu_req_done_o(in) <=> ls_fsm_cs' = "IDLE"
  BY <1>2 DEF lsu_req_done_o
<1>4. wb = None => ~outstanding_memory_access(in)
  BY DEF outstanding_memory_access
<1>5. ~wb_exception(in)
  BY <1>1 DEF wb_exception, load_err_o, store_err_o
<1>6. instr_id_done(in) => WritebackStage /\ ls_fsm_cs' = "IDLE"
  BY <1>1, <1>3 DEF instr_id_done
<1>7. WritebackStage /\ ls_fsm_cs' = "IDLE" /\ wb = None => instr_id_done(in)
  BY <1>3, <1>4, <1>5 DEF instr_id_done
<1>8. /\ errs' = errs \cup AnsweredErrs(in) /\ written' = written \cup StoredBytes(in)
      /\ resp' = NoResp
  BY <1>1 DEF Cycle, Observe
<1>9. ~instr_id_done(in) => id' = id /\ wb' = wb /\ ~first_q'
  BY <1>1 DEF Cycle, IdStage, WbStage
<1>10. instr_id_done(in) => wb' = id
  BY <1>6 DEF Cycle, WbStage
<1>. QED
  BY <1>1, <1>6, <1>7, <1>8, <1>9, <1>10

\* What the request for the first word, and the one for the second, ask for.
LEMMA FirstRequest ==
  ASSUME NEW in, Cycle(in), NEW a \in Access, a = id, ~handle_misaligned_q, ~addr_incr_req_o
  PROVE  /\ data_addr(in) = a.addr /\ data_be(in) = FirstLanes(a)
         /\ data_pmp_err(in) <=> FirstWord(a) \in denied
         /\ in.gnt => FirstWord(a) \notin denied /\ StoredBytes(in) = FirstBytes(a)
         /\ ~in.gnt => StoredBytes(in) = {}
         /\ in.gnt => bus_q' = Append(IF in.rvalid THEN Tail(bus_q) ELSE bus_q, FirstEntry(a))
<1>1. /\ data_addr(in) = a.addr /\ data_be(in) = FirstLanes(a)
      /\ data_pmp_err(in) <=> FirstWord(a) \in denied
  BY DEF Cycle, data_addr, data_be, data_pmp_err, FirstWord
<1>2. in.gnt => FirstWord(a) \notin denied
  BY <1>1, BusGrows DEF bus_req
<1>3. /\ in.gnt => StoredBytes(in) = FirstBytes(a)
      /\ ~in.gnt => StoredBytes(in) = {}
  BY <1>1, <1>2 DEF Cycle, StoredBytes, FirstBytes, FirstWord
<1>4. in.gnt => bus_q' = Append(IF in.rvalid THEN Tail(bus_q) ELSE bus_q, FirstEntry(a))
  BY <1>1, BusGrows DEF FirstEntry, FirstWord
<1>. QED
  BY <1>1, <1>2, <1>3, <1>4

LEMMA SecondRequest ==
  ASSUME NEW in, Cycle(in), NEW a \in Access, a = id, Split(a), addr_last_q = a.addr,
         handle_misaligned_q, addr_incr_req_o
  PROVE  /\ data_addr(in) = SecondAddr(a) /\ data_be(in) = SecondLanes(a)
         /\ data_pmp_err(in) <=> SecondWord(a) \in denied
         /\ in.gnt => SecondWord(a) \notin denied /\ StoredBytes(in) = SecondBytes(a)
         /\ ~in.gnt => StoredBytes(in) = {}
         /\ in.gnt => bus_q' = Append(IF in.rvalid THEN Tail(bus_q) ELSE bus_q, SecondEntry(a))
<1>1. a.size > 1
  <2>1. a.size \in {1, 2, 4} /\ Offset(a.addr) \in 0..3
    BY AddrParts DEF Access, Lane
  <2>. QED
    BY <2>1 DEF Split
<1>2. /\ data_addr(in) = SecondAddr(a) /\ data_be(in) = SecondLanes(a)
      /\ data_pmp_err(in) <=> SecondWord(a) \in denied
  BY <1>1 DEF Cycle, data_addr, data_be, data_pmp_err, SecondWord, SecondAddr, NumBytes
<1>3. in.gnt => SecondWord(a) \notin denied
  BY <1>2, BusGrows DEF bus_req
<1>4. /\ in.gnt => StoredBytes(in) = SecondBytes(a)
      /\ ~in.gnt => StoredBytes(in) = {}
  BY <1>2, <1>3 DEF Cycle, StoredBytes, SecondBytes, SecondWord
<1>5. in.gnt => bus_q' = Append(IF in.rvalid THEN Tail(bus_q) ELSE bus_q, SecondEntry(a))
  BY <1>2, BusGrows DEF SecondEntry, SecondWord
<1>. QED
  BY <1>2, <1>3, <1>4, <1>5

LEMMA NothingAnswered ==
  ASSUME NEW in, Cycle(in), bus_q = <<>>
  PROVE  /\ ~in.rvalid /\ ~in.err /\ AnsweredErrs(in) = {}
         /\ ~in.gnt => bus_q' = <<>>
         /\ \A e : bus_q' = Append(IF in.rvalid THEN Tail(bus_q) ELSE bus_q, e) => bus_q' = <<e>>
<1>1. ~in.rvalid /\ ~in.err
  BY BusGrows
<1>. QED
  BY <1>1, BusGrows DEF AnsweredErrs

\* The request for the first or only word is granted, or its denial noticed.
LEMMA FirstStep ==
  ASSUME NEW in, Cycle(in), NEW a \in Access, a = id, AtFirst(a)
  PROVE  IF granted_or_denied(in) THEN IF Split(a) THEN AtBoth(a)' ELSE AtLast(a)'
                                  ELSE AtFirst(a)'
<1>1. /\ ls_fsm_cs = IF Split(a) THEN "WAIT_GNT_MIS" ELSE "WAIT_GNT"
      /\ ~handle_misaligned_q /\ ~lsu_err_q /\ (pmp_err_q <=> FirstWord(a) \in denied)
      /\ bus_q = <<>> /\ errs = {} /\ written = {}
  BY DEF AtFirst
<1>2. ~addr_incr_req_o /\ ls_fsm_cs # "IDLE" /\ id # None
  BY <1>1 DEF addr_incr_req_o, Access, None, Addr
<1>3. granted_or_denied(in) <=> in.gnt \/ FirstWord(a) \in denied
  BY <1>1 DEF granted_or_denied
<1>4. ls_fsm_cs' = IF granted_or_denied(in)
                   THEN IF Split(a) THEN "WAIT_RVALID_MIS" ELSE "IDLE" ELSE ls_fsm_cs
  BY <1>1 DEF Cycle, LsuRegs, ls_fsm_ns
<1>5. /\ pmp_err_q' = pmp_err_q /\ lsu_err_q' = lsu_err_q
      /\ handle_misaligned_q' <=> Split(a) /\ granted_or_denied(in)
  BY <1>1 DEF Cycle, LsuRegs, Idle, WaitGntMis, WaitRvalidMis, WaitGnt, WaitRvalidMisGntsDone
<1>6. granted_or_denied(in) => addr_last_q' = a.addr /\ Ctrl(a)'
  BY <1>1, <1>2, FirstRequest DEF Cycle, LsuRegs, addr_update, ctrl_update, Ctrl
<1>7. errs' = {} /\ denied' = denied
  BY <1>1, <1>2, NoResponse, NothingAnswered DEF Cycle
<1>8. written' = IF in.gnt THEN FirstBytes(a) ELSE {}
  BY <1>1, <1>2, NoResponse, FirstRequest
<1>9. bus_q' = IF in.gnt THEN <<FirstEntry(a)>> ELSE <<>>
  BY <1>1, <1>2, FirstRequest, NothingAnswered
<1>10. in.gnt => FirstWord(a) \notin denied
  BY <1>1, <1>2, FirstRequest
<1>11. FirstBytes(a)' = FirstBytes(a) /\ (FirstWord(a) \in denied => FirstBytes(a) = {})
  BY <1>7 DEF FirstBytes
<1>. QED
  BY <1>1, <1>3, <1>4, <1>5, <1>6, <1>7, <1>8, <1>9, <1>10, <1>11
     DEF AtBoth, AtLast, AtOnly, AtFirst

\* The registers after an answer for the first word.
LEMMA BothStep ==
  ASSUME TypeOK, NEW in, Cycle(in), NEW a \in Access, a = id, AtBoth(a)
  PROVE  IF first_answered(in) THEN IF in.gnt THEN AtLast(a)' ELSE AtSecond(a)'
                               ELSE IF in.gnt THEN AtAnswers(a)' ELSE AtBoth(a)'
<1>1. /\ ls_fsm_cs = "WAIT_RVALID_MIS" /\ Split(a) /\ handle_misaligned_q
      /\ Ctrl(a) /\ addr_last_q = a.addr /\ (pmp_err_q <=> FirstWord(a) \in denied)
      /\ bus_q = IF pmp_err_q THEN <<>> ELSE <<FirstEntry(a)>>
      /\ errs = {} /\ written = FirstBytes(a)
  BY DEF AtBoth
<1>2. addr_incr_req_o /\ ls_fsm_cs # "IDLE" /\ id # None
  BY <1>1 DEF addr_incr_req_o, Access, None, Addr
<1>3. /\ first_answered(in) <=> in.rvalid \/ pmp_err_q
      /\ in.err => in.rvalid
      /\ in.rvalid => ~pmp_err_q
  BY <1>1, BusGrows DEF first_answered
<1>4. ls_fsm_cs' = IF first_answered(in) THEN IF in.gnt THEN "IDLE" ELSE "WAIT_GNT"
                   ELSE IF in.gnt THEN "WAIT_RVALID_MIS_GNTS_DONE" ELSE "WAIT_RVALID_MIS"
  BY <1>1 DEF Cycle, LsuRegs, ls_fsm_ns
<1>5. /\ data_addr(in) = SecondAddr(a)
      /\ data_pmp_err(in) <=> SecondWord(a) \in denied
      /\ in.gnt => SecondWord(a) \notin denied
  BY <1>1, <1>2, SecondRequest
<1>6. /\ first_answered(in) => /\ pmp_err_q' <=> SecondWord(a) \in denied
                               /\ lsu_err_q' <=> in.err \/ pmp_err_q
                               /\ handle_misaligned_q' <=> ~in.gnt
      /\ ~first_answered(in) => /\ pmp_err_q' = pmp_err_q
                                /\ handle_misaligned_q' <=> ~in.gnt
  BY <1>1, <1>5 DEF Cycle, LsuRegs, Idle, WaitGntMis, WaitRvalidMis, WaitGnt,
                    WaitRvalidMisGntsDone
<1>7. Ctrl(a)' /\ denied' = denied
  BY <1>1 DEF Cycle, LsuRegs, ctrl_update, Ctrl
<1>8. addr_last_q' = IF first_answered(in) /\ in.gnt /\ ~(in.err \/ pmp_err_q)
                     THEN Aligned(SecondAddr(a)) ELSE a.addr
  BY <1>1, <1>2, <1>5 DEF Cycle, LsuRegs, addr_update
<1>9. AnsweredErrs(in) = IF in.err THEN {FirstWord(a)} ELSE {}
  <2>1. FirstEntry(a) \in BusEntry /\ FirstEntry(a).word = FirstWord(a)
    BY EntryTypes DEF FirstEntry
  <2>. QED
    BY <1>1, <1>3, <2>1, OneOnBus DEF AnsweredErrs
<1>10. errs' = IF in.err THEN {FirstWord(a)} ELSE {}
  BY <1>1, <1>2, <1>9, NoResponse
<1>11. written' = IF in.gnt THEN FirstBytes(a) \cup SecondBytes(a) ELSE FirstBytes(a)
  BY <1>1, <1>2, NoResponse, SecondRequest
<1>12. /\ in.rvalid \/ pmp_err_q =>
             bus_q' = IF in.gnt THEN <<SecondEntry(a)>> ELSE <<>>
       /\ ~in.rvalid /\ ~pmp_err_q =>
             bus_q' = IF in.gnt THEN <<FirstEntry(a), SecondEntry(a)>> ELSE <<FirstEntry(a)>>
  <2> DEFINE rest == IF in.rvalid THEN Tail(bus_q) ELSE bus_q
  <2>1. bus_q' = IF in.gnt THEN Append(rest, SecondEntry(a)) ELSE rest
    BY <1>1, <1>2, SecondRequest, BusGrows
  <2>2. rest = IF in.rvalid \/ pmp_err_q THEN <<>> ELSE <<FirstEntry(a)>>
    BY <1>1, <1>3, EntryTypes, OneOnBus
  <2> HIDE DEF rest
  <2>3. /\ Append(<<>>, SecondEntry(a)) = <<SecondEntry(a)>>
        /\ Append(<<FirstEntry(a)>>, SecondEntry(a)) = <<FirstEntry(a), SecondEntry(a)>>
    BY EntryTypes, AppendTwo
  <2>. QED
    BY <2>1, <2>2, <2>3
<1>13. FirstBytes(a)' = FirstBytes(a) /\ SecondBytes(a)' = SecondBytes(a)
  BY <1>7 DEF FirstBytes, SecondBytes
\* The bytes of the first word are kept for the load.
<1>14. first_answered(in) /\ ~a.we /\ ~lsu_err_q' =>
          \A j \in FirstLanes(a) : rdata_q'[j] = 4 * FirstWord(a) + j
  <2> SUFFICES ASSUME first_answered(in), ~a.we, ~lsu_err_q', NEW j \in FirstLanes(a)
               PROVE  rdata_q'[j] = 4 * FirstWord(a) + j
    OBVIOUS
  <2>1. in.rvalid /\ ~pmp_err_q
    BY <1>3, <1>6
  <2>2. Head(bus_q) = FirstEntry(a)
    BY <1>1, <2>1, EntryTypes, OneOnBus
  <2>3. rdata_update(in)
    BY <1>1 DEF rdata_update, Ctrl
  <2>4. rdata_q' = data_rdata(in)
    BY <2>3 DEF Cycle, LsuRegs
  <2>. QED
    BY <2>1, <2>2, <2>4 DEF data_rdata, FirstEntry, FirstLanes
<1>15. first_answered(in) => FirstDone(a)'
  BY <1>1, <1>3, <1>6, <1>7, <1>10, <1>14 DEF FirstDone
<1>16. CASE first_answered(in) /\ in.gnt
  <2>1. AtLastOfTwo(a)'
    BY <1>1, <1>3, <1>5, <1>6, <1>8, <1>11, <1>12, <1>13, <1>15, <1>16, <1>7 DEF AtLastOfTwo
  <2>. QED
    BY <1>4, <1>6, <1>16, <2>1 DEF AtLast
<1>17. CASE first_answered(in) /\ ~in.gnt
  BY <1>1, <1>3, <1>4, <1>6, <1>7, <1>8, <1>11, <1>12, <1>13, <1>15, <1>17 DEF AtSecond
<1>18. CASE ~first_answered(in) /\ in.gnt
  BY <1>1, <1>3, <1>4, <1>5, <1>6, <1>7, <1>8, <1>10, <1>11, <1>12, <1>13, <1>18 DEF AtAnswers
<1>19. CASE ~first_answered(in) /\ ~in.gnt
  BY <1>1, <1>3, <1>4, <1>6, <1>7, <1>8, <1>10, <1>11, <1>12, <1>13, <1>19 DEF AtBoth
<1>. QED
  BY <1>16, <1>17, <1>18, <1>19

\* The request for the second word, after the answer for the first.
LEMMA SecondStep ==
  ASSUME NEW in, Cycle(in), NEW a \in Access, a = id, AtSecond(a)
  PROVE  IF granted_or_denied(in) THEN AtLast(a)' ELSE AtSecond(a)'
<1>1. /\ ls_fsm_cs = "WAIT_GNT" /\ Split(a) /\ handle_misaligned_q
      /\ FirstDone(a) /\ addr_last_q = a.addr
      /\ pmp_err_q <=> SecondWord(a) \in denied
      /\ bus_q = <<>> /\ written = FirstBytes(a)
  BY DEF AtSecond
<1>2. addr_incr_req_o /\ ls_fsm_cs # "IDLE" /\ id # None
  BY <1>1 DEF addr_incr_req_o, Access, None, Addr
<1>3. granted_or_denied(in) <=> in.gnt \/ SecondWord(a) \in denied
  BY <1>1 DEF granted_or_denied
<1>4. ls_fsm_cs' = IF granted_or_denied(in) THEN "IDLE" ELSE ls_fsm_cs
  BY <1>1 DEF Cycle, LsuRegs, ls_fsm_ns
<1>5. /\ pmp_err_q' = pmp_err_q /\ lsu_err_q' = lsu_err_q
      /\ handle_misaligned_q' <=> ~granted_or_denied(in)
  BY <1>1 DEF Cycle, LsuRegs, Idle, WaitGntMis, WaitRvalidMis, WaitGnt, WaitRvalidMisGntsDone
<1>6. data_addr(in) = SecondAddr(a)
  BY <1>1, <1>2, SecondRequest
<1>7. Ctrl(a)'
  BY <1>1, <1>6, SecondAddrParts DEF Cycle, LsuRegs, ctrl_update, Ctrl, FirstDone
<1>8. addr_last_q' = IF granted_or_denied(in) /\ ~lsu_err_q THEN Aligned(SecondAddr(a)) ELSE a.addr
  BY <1>1, <1>2, <1>6 DEF Cycle, LsuRegs, addr_update
<1>9. errs' = errs /\ denied' = denied
  BY <1>1, <1>2, NoResponse, NothingAnswered DEF Cycle
<1>10. /\ written' = IF in.gnt THEN FirstBytes(a) \cup SecondBytes(a) ELSE FirstBytes(a)
       /\ bus_q' = IF in.gnt THEN <<SecondEntry(a)>> ELSE <<>>
       /\ in.gnt => SecondWord(a) \notin denied
  BY <1>1, <1>2, NoResponse, SecondRequest, NothingAnswered
<1>11. /\ FirstBytes(a)' = FirstBytes(a) /\ SecondBytes(a)' = SecondBytes(a)
       /\ SecondWord(a) \in denied => SecondBytes(a) = {}
  BY <1>9 DEF FirstBytes, SecondBytes
<1>12. rdata_q' = rdata_q
  BY <1>1, <1>2, NoResponse DEF Cycle, LsuRegs, rdata_update
<1>13. FirstDone(a)'
  BY <1>1, <1>5, <1>7, <1>9, <1>12 DEF FirstDone
<1>14. CASE granted_or_denied(in)
  BY <1>1, <1>3, <1>4, <1>5, <1>8, <1>9, <1>10, <1>11, <1>13, <1>14 DEF AtLast, AtLastOfTwo
<1>15. CASE ~granted_or_denied(in)
  BY <1>1, <1>3, <1>4, <1>5, <1>8, <1>9, <1>10, <1>11, <1>13, <1>15 DEF AtSecond
<1>. QED
  BY <1>14, <1>15

\* Both words are granted and the answer for the first arrives.
LEMMA AnswersStep ==
  ASSUME NEW in, Cycle(in), NEW a \in Access, a = id, AtAnswers(a)
  PROVE  ~bus_req(in) /\ (IF in.rvalid THEN AtLast(a)' ELSE AtAnswers(a)')
<1>1. /\ ls_fsm_cs = "WAIT_RVALID_MIS_GNTS_DONE" /\ Split(a) /\ ~handle_misaligned_q
      /\ Ctrl(a) /\ addr_last_q = a.addr
      /\ ~pmp_err_q /\ FirstWord(a) \notin denied /\ SecondWord(a) \notin denied
      /\ bus_q = <<FirstEntry(a), SecondEntry(a)>>
      /\ errs = {} /\ written = FirstBytes(a) \cup SecondBytes(a)
  BY DEF AtAnswers
<1>2. addr_incr_req_o /\ ls_fsm_cs # "IDLE" /\ id # None
  BY <1>1 DEF addr_incr_req_o, Access, None, Addr
<1>3. ~bus_req(in) /\ ~in.gnt /\ (in.err => in.rvalid)
  BY <1>1, BusGrows DEF bus_req, data_req_o
<1>4. ls_fsm_cs' = IF in.rvalid THEN "IDLE" ELSE ls_fsm_cs
  BY <1>1 DEF Cycle, LsuRegs, ls_fsm_ns
<1>5. data_addr(in) = SecondAddr(a) /\ ~data_pmp_err(in)
  BY <1>1, <1>2 DEF data_addr, data_pmp_err, SecondAddr, SecondWord, NumBytes
<1>6. /\ ~pmp_err_q' /\ ~handle_misaligned_q'
      /\ in.rvalid => (lsu_err_q' <=> in.err)
      /\ ~in.rvalid => lsu_err_q' = lsu_err_q
  BY <1>1, <1>5 DEF Cycle, LsuRegs, Idle, WaitGntMis, WaitRvalidMis, WaitGnt,
                    WaitRvalidMisGntsDone
<1>7. Ctrl(a)' /\ denied' = denied
  BY <1>1 DEF Cycle, LsuRegs, ctrl_update, Ctrl
<1>8. addr_last_q' = IF in.rvalid /\ ~in.err THEN Aligned(SecondAddr(a)) ELSE a.addr
  BY <1>1, <1>2, <1>5 DEF Cycle, LsuRegs, addr_update
<1>9. /\ Head(bus_q) = FirstEntry(a) /\ Tail(bus_q) = <<SecondEntry(a)>>
      /\ AnsweredErrs(in) = IF in.err THEN {FirstWord(a)} ELSE {}
  <2>1. \A e, f : Head(<<e, f>>) = e /\ Tail(<<e, f>>) = <<f>>
    OBVIOUS
  <2>2. Head(bus_q) = FirstEntry(a) /\ Tail(bus_q) = <<SecondEntry(a)>>
    BY <1>1, <2>1, Zenon
  <2>3. FirstEntry(a).word = FirstWord(a)
    BY DEF FirstEntry
  <2>. QED
    BY <2>2, <2>3 DEF AnsweredErrs
<1>10. /\ errs' = IF in.err THEN {FirstWord(a)} ELSE {}
       /\ written' = FirstBytes(a) \cup SecondBytes(a)
       /\ bus_q' = IF in.rvalid THEN <<SecondEntry(a)>> ELSE bus_q
  BY <1>1, <1>2, <1>3, <1>9, NoResponse, BusGrows DEF StoredBytes
<1>11. FirstBytes(a)' = FirstBytes(a) /\ SecondBytes(a)' = SecondBytes(a)
  BY <1>7 DEF FirstBytes, SecondBytes
<1>12. in.rvalid /\ ~a.we => \A j \in FirstLanes(a) : rdata_q'[j] = 4 * FirstWord(a) + j
  <2> SUFFICES ASSUME in.rvalid, ~a.we, NEW j \in FirstLanes(a)
               PROVE  rdata_q'[j] = 4 * FirstWord(a) + j
    OBVIOUS
  <2>1. rdata_update(in)
    BY <1>1 DEF rdata_update, Ctrl
  <2>2. rdata_q' = data_rdata(in)
    BY <2>1 DEF Cycle, LsuRegs
  <2>. QED
    BY <1>9, <2>2 DEF data_rdata, FirstEntry, FirstLanes
<1>13. CASE in.rvalid
  <2>1. FirstDone(a)'
    BY <1>1, <1>6, <1>7, <1>10, <1>12, <1>13 DEF FirstDone
  <2>2. AtLastOfTwo(a)'
    BY <1>1, <1>6, <1>7, <1>8, <1>10, <1>11, <1>13, <2>1 DEF AtLastOfTwo
  <2>. QED
    BY <1>3, <1>4, <1>6, <1>13, <2>2 DEF AtLast
<1>14. CASE ~in.rvalid
  BY <1>1, <1>3, <1>4, <1>6, <1>7, <1>8, <1>10, <1>11, <1>14 DEF AtAnswers
<1>. QED
  BY <1>3, <1>13, <1>14

\* Nothing of an access is left: the next one may ask.
LEMMA FreeStep ==
  ASSUME TypeOK, PipelineAssumption, NEW in, Cycle(in), AtFree, wb = None, WritebackStage \/ first_q,
         ~WritebackStage => (id = None => first_q)
  PROVE  /\ ~lsu_resp_valid_o(in) /\ resp' = NoResp /\ wb_exception(in) = FALSE
         /\ (in.lsu_req <=> id # None)
         /\ \A a \in Access : a = id =>
               /\ in.gnt /\ Split(a) => AtBoth(a)' /\ ls_fsm_cs' # "IDLE"
               /\ in.gnt /\ ~Split(a) => AtLast(a)' /\ ls_fsm_cs' = "IDLE"
               /\ ~in.gnt => AtFirst(a)' /\ ls_fsm_cs' # "IDLE"
         /\ id = None => AtFree'
<1>1. /\ ls_fsm_cs = "IDLE" /\ ~handle_misaligned_q /\ ~pmp_err_q
      /\ bus_q = <<>> /\ errs = {} /\ written = {}
  BY DEF AtFree
<1>2. ~in.rvalid /\ ~in.err /\ AnsweredErrs(in) = {} /\ (~in.gnt => bus_q' = <<>>)
  BY <1>1, NothingAnswered
<1>3. ~lsu_resp_valid_o(in) /\ ~wb_exception(in) /\ wb_exception(in) = FALSE
  BY <1>1, <1>2 DEF lsu_resp_valid_o, wb_exception, load_err_o, store_err_o
<1>4. in.lsu_req <=> id # None
  BY <1>3 DEF Cycle, lsu_req, data_req_allowed, outstanding_memory_access
<1>5. /\ errs' = {} /\ written' = StoredBytes(in) /\ resp' = NoResp
  BY <1>1, <1>2, <1>3 DEF Cycle, Observe
<1>6. ASSUME NEW a \in Access, a = id
      PROVE  /\ in.gnt /\ Split(a) => AtBoth(a)'
             /\ in.gnt /\ ~Split(a) => AtLast(a)'
             /\ ~in.gnt => AtFirst(a)'
  <2>1. a # None
    BY DEF Access, None, Addr
  <2>2. (IF in.rvalid THEN Tail(bus_q) ELSE bus_q) = <<>> /\ in.lsu_req
    BY <1>1, <1>2, <1>4, <1>6, <2>1
  <2>. QED
    BY <1>1, <1>5, <1>6, <2>2, Requested
<1>7. ASSUME id # None
      PROVE  ls_fsm_cs' = IF in.gnt THEN (IF Split(id) THEN "WAIT_RVALID_MIS" ELSE "IDLE")
                                    ELSE (IF Split(id) THEN "WAIT_GNT_MIS" ELSE "WAIT_GNT")
  BY <1>1, <1>4, <1>7 DEF Cycle, LsuRegs, ls_fsm_ns
<1>8. ASSUME id = None PROVE AtFree'
  <2>1. ~in.lsu_req /\ ~in.gnt
    BY <1>1, <1>4, <1>8, BusGrows DEF bus_req, data_req_o
  <2>2. /\ ls_fsm_cs' = "IDLE" /\ ~handle_misaligned_q' /\ ~pmp_err_q'
    BY <1>1, <2>1 DEF Cycle, LsuRegs, ls_fsm_ns, Idle, WaitGntMis, WaitRvalidMis, WaitGnt,
                      WaitRvalidMisGntsDone
  <2>3. written' = {}
    BY <1>5, <2>1 DEF StoredBytes
  <2>. QED
    BY <1>2, <1>5, <2>1, <2>2, <2>3 DEF AtFree
<1>9. \A a \in Access : a # None
  BY DEF Access, None, Addr
<1>. QED
  BY <1>3, <1>4, <1>5, <1>6, <1>7, <1>8, <1>9

\* The last answer is not there yet: nothing moves in the load/store unit.
LEMMA LastWaits ==
  ASSUME TypeOK, PipelineAssumption, NEW in, Cycle(in), NEW a \in Access, a = responding, AtLast(a),
         WritebackStage \/ ~first_q, ~lsu_resp_valid_o(in), ~WritebackStage => wb = None
  PROVE  /\ AtLast(a)' /\ resp' = NoResp /\ ~bus_req(in)
         /\ responding' = a /\ wb' = wb /\ (~WritebackStage => id' = id /\ ~first_q')
<1>1. ls_fsm_cs = "IDLE" /\ ~handle_misaligned_q /\ (AtLastOfTwo(a) \/ AtOnly(a))
  BY DEF AtLast
<1>2. ~in.rvalid /\ ~pmp_err_q /\ ~in.err
  BY <1>1, BusGrows DEF lsu_resp_valid_o
<1>3. a # None
  BY DEF Access, None, Addr
<1>4. ~lsu_req(in) /\ ~in.lsu_req
  BY <1>3 DEF Cycle, lsu_req, data_req_allowed, outstanding_memory_access, responding
<1>5. ~bus_req(in) /\ ~in.gnt
  BY <1>1, <1>4, BusGrows DEF bus_req, data_req_o
<1>6. ~instr_id_done(in)
  BY <1>3 DEF instr_id_done, outstanding_memory_access, responding
<1>7. /\ wb' = wb /\ resp' = NoResp
      /\ ~WritebackStage => id' = id /\ ~first_q'
  BY <1>3, <1>6 DEF Cycle, WbStage, IdStage, Observe, responding
<1>8. responding' = a
  BY <1>7 DEF responding
<1>9. /\ ls_fsm_cs' = "IDLE" /\ ~handle_misaligned_q' /\ ~pmp_err_q' /\ (lsu_err_q' <=> lsu_err_q)
  BY <1>1, <1>4 DEF Cycle, LsuRegs, ls_fsm_ns, Idle, WaitGntMis, WaitRvalidMis, WaitGnt,
                    WaitRvalidMisGntsDone
<1>10. /\ addr_last_q' = addr_last_q /\ rdata_q' = rdata_q /\ denied' = denied
       /\ rdata_offset_q' = rdata_offset_q /\ data_type_q' = data_type_q /\ data_we_q' = data_we_q
  BY <1>1, <1>4 DEF Cycle, LsuRegs, addr_update, ctrl_update, rdata_update
<1>11. /\ errs' = errs /\ written' = written /\ bus_q' = bus_q
  BY <1>2, <1>5, BusGrows DEF Cycle, Observe, AnsweredErrs, StoredBytes
<1>12. FirstBytes(a)' = FirstBytes(a) /\ SecondBytes(a)' = SecondBytes(a)
  BY <1>10 DEF FirstBytes, SecondBytes
<1>13. Ctrl(a)' <=> Ctrl(a)
  BY <1>10 DEF Ctrl
<1>14. FirstDone(a) => FirstDone(a)'
  BY <1>9, <1>10, <1>11, <1>13 DEF FirstDone
<1>15. AtLastOfTwo(a) => AtLastOfTwo(a)'
  BY <1>2, <1>9, <1>10, <1>11, <1>12, <1>14 DEF AtLastOfTwo
<1>16. AtOnly(a) => AtOnly(a)'
  BY <1>2, <1>9, <1>10, <1>11, <1>12, <1>13 DEF AtOnly
<1>. QED
  BY <1>1, <1>5, <1>7, <1>8, <1>9, <1>15, <1>16 DEF AtLast

\* The cycle of the last answer: the access that asks next, if any, finds the unit free.
LEMMA LastLeaves ==
  ASSUME TypeOK, PipelineAssumption, NEW in, Cycle(in), NEW a \in Access, a = responding, AtLast(a),
         WritebackStage \/ ~first_q, lsu_resp_valid_o(in), ~WritebackStage => wb = None
  PROVE  /\ in.lsu_req =>
               \A b \in Access : b = id =>
                  /\ in.gnt /\ Split(b) => AtBoth(b)' /\ ls_fsm_cs' # "IDLE"
                  /\ in.gnt /\ ~Split(b) => AtLast(b)' /\ ls_fsm_cs' = "IDLE"
                  /\ ~in.gnt => AtFirst(b)' /\ ls_fsm_cs' # "IDLE"
         /\ ~in.lsu_req => AtFree' /\ addr_last_q' = addr_last_q /\ ~bus_req(in)
         /\ in.lsu_req <=> WritebackStage /\ id # None /\ ~wb_exception(in)
<1>1. ls_fsm_cs = "IDLE" /\ ~handle_misaligned_q /\ (AtLastOfTwo(a) \/ AtOnly(a))
  BY DEF AtLast
<1>2. in.lsu_req <=> WritebackStage /\ id # None /\ ~wb_exception(in)
  BY DEF Cycle, lsu_req, data_req_allowed, outstanding_memory_access
<1>3. errs' = {} /\ written' = StoredBytes(in)
  BY DEF Cycle, Observe
<1>4. (IF in.rvalid THEN Tail(bus_q) ELSE bus_q) = <<>>
  <2>1. pmp_err_q => bus_q = <<>>
    BY <1>1 DEF AtLastOfTwo, AtOnly
  <2>2. ~pmp_err_q => \E e \in BusEntry : bus_q = <<e>>
    BY <1>1, EntryTypes DEF AtLastOfTwo, AtOnly
  <2>3. CASE pmp_err_q
    BY <2>1, <2>3, BusGrows
  <2>4. CASE ~pmp_err_q
    <3>1. in.rvalid
      BY <2>4 DEF lsu_resp_valid_o
    <3>2. Tail(bus_q) = <<>>
      BY <2>2, <2>4, OneOnBus
    <3>. QED
      BY <3>1, <3>2
  <2>. QED
    BY <2>3, <2>4
<1>5. ASSUME in.lsu_req, NEW b \in Access, b = id
      PROVE  /\ in.gnt /\ Split(b) => AtBoth(b)'
             /\ in.gnt /\ ~Split(b) => AtLast(b)'
             /\ ~in.gnt => AtFirst(b)'
  BY <1>1, <1>3, <1>4, <1>5, Requested
<1>6. ASSUME in.lsu_req
      PROVE  ls_fsm_cs' = IF in.gnt THEN (IF Split(id) THEN "WAIT_RVALID_MIS" ELSE "IDLE")
                            ELSE (IF Split(id) THEN "WAIT_GNT_MIS" ELSE "WAIT_GNT")
  BY <1>1, <1>6 DEF Cycle, LsuRegs, ls_fsm_ns
<1>7. ASSUME ~in.lsu_req PROVE AtFree' /\ addr_last_q' = addr_last_q /\ ~bus_req(in)
  <2>1. ~in.gnt /\ ~bus_req(in)
    BY <1>1, <1>7, BusGrows DEF bus_req, data_req_o
  <2>2. /\ ls_fsm_cs' = "IDLE" /\ ~handle_misaligned_q' /\ ~pmp_err_q'
        /\ addr_last_q' = addr_last_q
    BY <1>1, <1>7 DEF Cycle, LsuRegs, ls_fsm_ns, Idle, WaitGntMis, WaitRvalidMis, WaitGnt,
                      WaitRvalidMisGntsDone, addr_update
  <2>3. written' = {} /\ bus_q' = <<>>
    BY <1>3, <1>4, <2>1, BusGrows DEF StoredBytes
  <2>. QED
    BY <1>3, <2>1, <2>2, <2>3 DEF AtFree
<1>. QED
  BY <1>2, <1>5, <1>6, <1>7

-----------------------------------------------------------------------------
(* The response.                                                           *)

\* The bytes that the two requests of a store write are its bytes.
LEMMA BytesWritten ==
  ASSUME NEW a \in Access
  PROVE  (IF Split(a) THEN FirstBytes(a) \cup SecondBytes(a) ELSE FirstBytes(a)) =
           {<<ByteAt(a, k), k>> :
               k \in {b \in BytesOf(a) : a.we /\ WordOf(ByteAt(a, b)) \notin denied}}
<1> DEFINE Ks == {b \in BytesOf(a) : a.we /\ WordOf(ByteAt(a, b)) \notin denied}
           R  == {<<ByteAt(a, k), k>> : k \in Ks}
           L  == IF Split(a) THEN FirstBytes(a) \cup SecondBytes(a) ELSE FirstBytes(a)
<1>1. ASSUME NEW j \in FirstLanes(a)
      PROVE  /\ WdataByte(a, j) \in BytesOf(a)
             /\ ByteAt(a, WdataByte(a, j)) = 4 * FirstWord(a) + j
             /\ WordOf(ByteAt(a, WdataByte(a, j))) = FirstWord(a)
  <2>1. j \in Lane /\ j <= 3
    BY DEF FirstLanes, Lane
  <2>2. WdataByte(a, j) \in BytesOf(a) /\ Offset(a.addr) + WdataByte(a, j) = j
    BY <2>1, LanesAreBytes
  <2>. QED
    BY <2>1, <2>2, BytePlace
<1>2. ASSUME NEW j \in SecondLanes(a)
      PROVE  /\ WdataByte(a, j) \in BytesOf(a) /\ Split(a)
             /\ ByteAt(a, WdataByte(a, j)) = 4 * SecondWord(a) + j
             /\ WordOf(ByteAt(a, WdataByte(a, j))) = SecondWord(a)
  <2>1. j \in Lane /\ j >= 0
    BY DEF SecondLanes, Lane
  <2>2. /\ WdataByte(a, j) \in BytesOf(a) /\ Split(a)
        /\ Offset(a.addr) + WdataByte(a, j) - 4 = j
    BY <2>1, LanesAreBytes
  <2>3. Offset(a.addr) + WdataByte(a, j) > 3
    <3>1. Offset(a.addr) \in Int /\ WdataByte(a, j) \in Int
      BY <2>2, AddrParts DEF Access, Lane, BytesOf
    <3>. QED
      BY <2>1, <2>2, <3>1
  <2>4. ByteAt(a, WdataByte(a, j)) = 4 * SecondWord(a) + (Offset(a.addr) + WdataByte(a, j) - 4)
    BY <2>2, <2>3, BytePlace
  <2>5. WordOf(ByteAt(a, WdataByte(a, j))) = SecondWord(a)
    BY <2>2, <2>3, BytePlace
  <2>. QED
    BY <2>2, <2>4, <2>5
<1>3. ASSUME NEW k \in BytesOf(a)
      PROVE  \/ \E j \in FirstLanes(a) : /\ WdataByte(a, j) = k /\ ByteAt(a, k) = 4 * FirstWord(a) + j
                                         /\ WordOf(ByteAt(a, k)) = FirstWord(a)
             \/ /\ Split(a)
                /\ \E j \in SecondLanes(a) : /\ WdataByte(a, j) = k
                                             /\ ByteAt(a, k) = 4 * SecondWord(a) + j
                                             /\ WordOf(ByteAt(a, k)) = SecondWord(a)
  <2>1. Offset(a.addr) + k <= 3 \/ Offset(a.addr) + k > 3
    BY AddrParts DEF Access, Lane, BytesOf
  <2>2. CASE Offset(a.addr) + k <= 3
    BY <2>2, BytePlace, BytesAreLanes
  <2>3. CASE Offset(a.addr) + k > 3
    BY <2>3, BytePlace, BytesAreLanes
  <2>. QED
    BY <2>1, <2>2, <2>3
<1>4. FirstBytes(a) \subseteq R
  <2> SUFFICES ASSUME NEW j \in FirstLanes(a), a.we, FirstWord(a) \notin denied
               PROVE  <<4 * FirstWord(a) + j, WdataByte(a, j)>> \in R
    BY DEF FirstBytes
  <2>1. WdataByte(a, j) \in Ks
    BY <1>1
  <2>. QED
    BY <1>1, <2>1
<1>5. SecondBytes(a) \subseteq R
  <2> SUFFICES ASSUME NEW j \in SecondLanes(a), a.we, SecondWord(a) \notin denied
               PROVE  <<4 * SecondWord(a) + j, WdataByte(a, j)>> \in R
    BY DEF SecondBytes
  <2>1. WdataByte(a, j) \in Ks
    BY <1>2
  <2>. QED
    BY <1>2, <2>1
<1>6. ASSUME NEW k \in Ks
      PROVE  <<ByteAt(a, k), k>> \in L
  <2>1. a.we /\ WordOf(ByteAt(a, k)) \notin denied /\ k \in BytesOf(a)
    OBVIOUS
  <2>2. CASE \E j \in FirstLanes(a) : /\ WdataByte(a, j) = k /\ ByteAt(a, k) = 4 * FirstWord(a) + j
                                      /\ WordOf(ByteAt(a, k)) = FirstWord(a)
    BY <2>1, <2>2 DEF FirstBytes
  <2>3. CASE /\ Split(a)
             /\ \E j \in SecondLanes(a) : /\ WdataByte(a, j) = k
                                          /\ ByteAt(a, k) = 4 * SecondWord(a) + j
                                          /\ WordOf(ByteAt(a, k)) = SecondWord(a)
    BY <2>1, <2>3 DEF SecondBytes
  <2>. QED
    BY <1>3, <2>1, <2>2, <2>3
<1>7. L \subseteq R
  BY <1>4, <1>5
<1>8. R \subseteq L
  BY <1>6
<1>. QED
  BY <1>7, <1>8

\* What the last answer of an access says of its words.
LEMMA LastAnswer ==
  ASSUME TypeOK, NEW in, Cycle(in), NEW a \in Access, AtLast(a), lsu_resp_valid_o(in)
  PROVE  /\ data_or_pmp_err(in) <=>
               WordsOf(a) \cap (denied \cup errs \cup AnsweredErrs(in)) # {}
         /\ data_or_pmp_err(in) =>
               addr_last_q = IF FirstWord(a) \in WordsOf(a) \cap
                                                 (denied \cup errs \cup AnsweredErrs(in))
                             THEN a.addr ELSE Aligned(SecondAddr(a))
         /\ Ctrl(a)
         /\ written = IF Split(a) THEN FirstBytes(a) \cup SecondBytes(a) ELSE FirstBytes(a)
<1>1. AtLastOfTwo(a) \/ AtOnly(a)
  BY DEF AtLast
<1>2. ls_fsm_cs = "IDLE" /\ (in.rvalid \/ pmp_err_q) /\ (in.err => in.rvalid)
  BY BusGrows DEF lsu_resp_valid_o
<1>3. FirstWord(a) # SecondWord(a) /\ WordsOf(a) = {FirstWord(a)} \cup (IF Split(a) THEN {SecondWord(a)} ELSE {})
  BY SecondAddrParts, TwoWords
<1>4. in.err => ~pmp_err_q
  BY <1>1, <1>2, BusGrows DEF AtLastOfTwo, AtOnly
<1>5. ASSUME NEW e \in BusEntry, bus_q = IF pmp_err_q THEN <<>> ELSE <<e>>
      PROVE  AnsweredErrs(in) = IF in.err THEN {e.word} ELSE {}
  <2>1. CASE in.err
    BY <1>4, <1>5, <2>1, OneOnBus
  <2>2. CASE ~in.err
    BY <2>2 DEF AnsweredErrs
  <2>. QED
    BY <2>1, <2>2
<1>6. FirstEntry(a).word = FirstWord(a) /\ SecondEntry(a).word = SecondWord(a)
  BY DEF FirstEntry, SecondEntry
<1>7. CASE AtLastOfTwo(a)
  <2>1. AnsweredErrs(in) = IF in.err THEN {SecondWord(a)} ELSE {}
    BY <1>5, <1>6, <1>7, EntryTypes DEF AtLastOfTwo
  <2>2. /\ Split(a) /\ Ctrl(a) /\ errs \subseteq {FirstWord(a)}
        /\ lsu_err_q <=> FirstWord(a) \in denied \cup errs
        /\ pmp_err_q <=> SecondWord(a) \in denied
        /\ addr_last_q = IF lsu_err_q THEN a.addr ELSE Aligned(SecondAddr(a))
        /\ written = FirstBytes(a) \cup SecondBytes(a)
    BY <1>7 DEF AtLastOfTwo, FirstDone
  <2>3. WordsOf(a) = {FirstWord(a), SecondWord(a)}
    BY <1>3, <2>2
  <2>. QED
    BY <1>3, <2>1, <2>2, <2>3 DEF data_or_pmp_err
<1>8. CASE AtOnly(a)
  <2>1. AnsweredErrs(in) = IF in.err THEN {FirstWord(a)} ELSE {}
    BY <1>5, <1>6, <1>8, EntryTypes DEF AtOnly
  <2>2. /\ ~Split(a) /\ Ctrl(a) /\ errs = {} /\ ~lsu_err_q /\ addr_last_q = a.addr
        /\ pmp_err_q <=> FirstWord(a) \in denied
        /\ written = FirstBytes(a)
    BY <1>8 DEF AtOnly
  <2>3. WordsOf(a) = {FirstWord(a)}
    BY <1>3, <2>2
  <2>. QED
    BY <2>1, <2>2, <2>3 DEF data_or_pmp_err
<1>. QED
  BY <1>1, <1>7, <1>8

\* The bytes that the load returns.
LEMMA LastBytes ==
  ASSUME TypeOK, NEW in, Cycle(in), NEW a \in Access, AtLast(a), in.rvalid,
         ~data_or_pmp_err(in), ~a.we
  PROVE  lsu_rdata_o(in) = [k \in BytesOf(a) |-> ByteAt(a, k)]
<1>1. /\ AtLastOfTwo(a) \/ AtOnly(a)
      /\ ~pmp_err_q /\ ~lsu_err_q
  BY DEF AtLast, data_or_pmp_err
<1>2. Ctrl(a)
  BY <1>1 DEF AtLastOfTwo, AtOnly, FirstDone
<1>3. Head(bus_q) = IF Split(a) THEN SecondEntry(a) ELSE FirstEntry(a)
  BY <1>1, EntryTypes, OneOnBus DEF AtLastOfTwo, AtOnly
<1>4. Split(a) => \A j \in FirstLanes(a) : rdata_q[j] = 4 * FirstWord(a) + j
  BY <1>1 DEF AtLastOfTwo, AtOnly, FirstDone
<1>5. Split(a) => \A j \in SecondLanes(a) : data_rdata(in)[j] = 4 * SecondWord(a) + j
  BY <1>3 DEF data_rdata, SecondEntry, SecondLanes
<1>6. ~Split(a) => \A j \in FirstLanes(a) : data_rdata(in)[j] = 4 * FirstWord(a) + j
  BY <1>3 DEF data_rdata, FirstEntry, FirstLanes
<1> DEFINE o == Offset(a.addr)
           r(k) == LET j == rdata_offset_q + k
                   IN  CASE j > 3 -> data_rdata(in)[j - 4]
                         [] j <= 3 /\ rdata_offset_q + data_type_q > 4 -> rdata_q[j]
                         [] OTHER -> data_rdata(in)[j]
<1>7. lsu_rdata_o(in) = [k \in 0..(data_type_q - 1) |-> r(k)]
  BY Zenon DEF lsu_rdata_o
<1>9. data_type_q = a.size /\ rdata_offset_q = o
  BY <1>2 DEF Ctrl
<1>8. ASSUME NEW k \in BytesOf(a)
      PROVE  r(k) = ByteAt(a, k)
  <2>1. o \in Int /\ k \in Int
    BY AddrParts DEF Access, Lane, BytesOf
  <2>2. CASE o + k > 3
    <3>1. o + k - 4 \in SecondLanes(a) /\ Split(a) /\ ByteAt(a, k) = 4 * SecondWord(a) + (o + k - 4)
      BY <2>2, BytePlace, BytesAreLanes
    <3>2. r(k) = data_rdata(in)[o + k - 4]
      BY <1>9, <2>1, <2>2
    <3>. QED
      BY <1>5, <3>1, <3>2
  <2>3. CASE o + k <= 3
    <3>1. o + k \in FirstLanes(a) /\ ByteAt(a, k) = 4 * FirstWord(a) + (o + k)
      BY <2>3, BytePlace, BytesAreLanes
    <3>2. r(k) = IF Split(a) THEN rdata_q[o + k] ELSE data_rdata(in)[o + k]
      BY <1>9, <2>1, <2>3 DEF Split
    <3>. QED
      BY <1>4, <1>6, <3>1, <3>2
  <2>. QED
    BY <2>1, <2>2, <2>3
<1>10. BytesOf(a) = 0..(data_type_q - 1)
  BY <1>9 DEF BytesOf
<1> HIDE DEF r
<1>. QED
  BY <1>7, <1>8, <1>10

\* The response tells what happened to the access.
LEMMA LastResponse ==
  ASSUME TypeOK, PipelineAssumption, NEW in, Cycle(in), NEW a \in Access, a = responding, AtLast(a),
         WritebackStage \/ ~first_q, lsu_resp_valid_o(in), ~WritebackStage => wb = None
  PROVE  ResponseRight'
<1> DEFINE bad == WordsOf(a) \cap (denied \cup errs \cup AnsweredErrs(in))
<1>1. /\ data_or_pmp_err(in) <=> bad # {}
      /\ data_or_pmp_err(in) =>
            addr_last_q = IF FirstWord(a) \in bad THEN a.addr ELSE Aligned(SecondAddr(a))
      /\ Ctrl(a)
      /\ written = {<<ByteAt(a, k), k>> :
               k \in {b \in BytesOf(a) : a.we /\ WordOf(ByteAt(a, b)) \notin denied}}
  BY LastAnswer, BytesWritten
<1>2. load_err_o(in) \/ store_err_o(in) <=> data_or_pmp_err(in)
  BY DEF load_err_o, store_err_o
<1>3. data_or_pmp_err(in) => addr_last_q' = addr_last_q
  BY <1>2, LastLeaves DEF wb_exception
<1>4. denied' = denied /\ a # None /\ data_we_q = a.we
  BY <1>1 DEF Cycle, Ctrl, Access, None, Addr
<1>5. ~data_or_pmp_err(in) => in.rvalid /\ ls_fsm_cs = "IDLE"
  BY DEF lsu_resp_valid_o, data_or_pmp_err
<1>6. ~data_or_pmp_err(in) /\ ~a.we =>
         /\ lsu_rdata_valid_o(in)
         /\ lsu_rdata_o(in) = [k \in BytesOf(a) |-> ByteAt(a, k)]
  BY <1>4, <1>5, LastBytes DEF lsu_rdata_valid_o
<1>7. resp' = [valid   |-> TRUE, acc |-> responding,
               we      |-> data_we_q,
               err     |-> load_err_o(in) \/ store_err_o(in),
               failed  |-> errs \cup AnsweredErrs(in),
               written |-> written,
               rdata   |-> IF lsu_rdata_valid_o(in) THEN lsu_rdata_o(in) ELSE <<>>]
  BY DEF Cycle, Observe
<1>8. /\ resp'.acc = a /\ resp'.we = a.we /\ resp'.failed = errs \cup AnsweredErrs(in)
      /\ resp'.written = written
      /\ lsu_rdata_valid_o(in) => resp'.rdata = lsu_rdata_o(in)
  BY <1>4, <1>7
<1>9. resp'.err <=> data_or_pmp_err(in)
  <2>1. resp'.err = (load_err_o(in) \/ store_err_o(in))
    BY <1>7
  <2>. QED
    BY <1>2, <2>1
<1>10. FailedWords(resp)' = bad
  <2>1. FailedWords(resp)' = WordsOf(a) \cap (denied \cup (errs \cup AnsweredErrs(in)))
    BY <1>4, <1>8 DEF FailedWords
  <2>. QED
    BY <2>1
<1> HIDE DEF bad
<1>11. ErrorReported'
  BY <1>1, <1>4, <1>8, <1>9, <1>10 DEF ErrorReported
<1>12. LoadedBytes'
  <2> SUFFICES ASSUME ~resp'.err, ~resp'.acc.we
               PROVE  resp'.rdata = [k \in BytesOf(resp'.acc) |-> ByteAt(resp'.acc, k)]
    BY DEF LoadedBytes
  <2>. QED
    BY <1>6, <1>8, <1>9
<1>13. StoredExactly'
  BY <1>1, <1>4, <1>8 DEF StoredExactly
<1>14. FaultAddress'
  BY <1>1, <1>3, <1>8, <1>9, <1>10 DEF FaultAddress, FirstWord, SecondAddr
<1>. QED
  BY <1>11, <1>12, <1>13, <1>14 DEF ResponseRight

LEMMA NothingToTell ==
  ASSUME resp' = NoResp
  PROVE  ResponseRight'
<1>1. ~resp'.valid
  BY DEF NoResp
<1>. QED
  BY <1>1 DEF ResponseRight, ErrorReported, LoadedBytes, StoredExactly, FaultAddress

-----------------------------------------------------------------------------
(* The pipeline around the load/store unit.                                *)

\* The access in ID that asks or is busy leaves for writeback once all of it is granted.
LEMMA AccessMoves ==
  ASSUME NEW in, Cycle(in), NEW a \in Access, a = id, in.lsu_req \/ ls_fsm_cs # "IDLE",
         ~wb_exception(in), ~outstanding_memory_access(in),
         ~WritebackStage => wb = None /\ ~lsu_resp_valid_o(in)
  PROVE  /\ ls_fsm_cs' = "IDLE" => responding' = a
         /\ ls_fsm_cs' # "IDLE" => id' = a /\ wb' = None
         /\ ~WritebackStage => ~first_q' /\ id' = a /\ wb' = None
<1>1. a # None
  BY DEF Access, None, Addr
<1>2. lsu_req_done_o(in) <=> ls_fsm_cs' = "IDLE"
  BY DEF Cycle, LsuRegs, lsu_req_done_o
<1>3. instr_id_done(in) <=> WritebackStage /\ ls_fsm_cs' = "IDLE"
  BY <1>1, <1>2 DEF instr_id_done
<1>4. ~instr_id_done(in) => id' = a /\ wb' = None /\ (~WritebackStage => ~first_q')
  <2>1. lsu_resp_valid_o(in) => ~(load_err_o(in) \/ store_err_o(in))
    BY DEF wb_exception
  <2>2. lsu_resp_valid_o(in) \/ wb = None
    BY DEF outstanding_memory_access
  <2>3. ~instr_id_done(in) => wb' = None
    BY <2>2 DEF Cycle, WbStage
  <2>4. ~instr_id_done(in) => id' = a /\ ~first_q'
    BY <1>1, <2>1 DEF Cycle, IdStage
  <2>. QED
    BY <2>3, <2>4
<1>5. instr_id_done(in) => wb' = a
  BY <1>3 DEF Cycle, WbStage
<1>. QED
  BY <1>3, <1>4, <1>5 DEF responding

\* A request that is not granted is asked again, for the first word and for the second.
LEMMA FirstHeld ==
  ASSUME NEW in, Cycle(in), NEW a \in Access, a = id, ~handle_misaligned_q, ~addr_incr_req_o,
         AtFirst(a)', id' = a
  PROVE  RequestHeld'
<1>1. CASE ~(bus_req(in) /\ ~in.gnt)
  BY <1>1 DEF Cycle, Observe, RequestHeld
<1>2. CASE bus_req(in) /\ ~in.gnt
  <2>1. bus_wait' = <<FirstWord(a), FirstLanes(a), a>> /\ FirstWord(a) \notin denied
    BY <1>2, FirstRequest DEF Cycle, Observe, bus_req, FirstWord
  <2>2. /\ ls_fsm_cs' \in {"WAIT_GNT_MIS", "WAIT_GNT"} /\ ~handle_misaligned_q'
        /\ denied' = denied
    BY DEF AtFirst, Cycle
  <2>3. ~(addr_incr_req_o)'
    BY <2>2 DEF addr_incr_req_o
  <2> DEFINE now == [acc |-> id, lsu_req |-> FALSE]
  <2>4. data_addr(now)' = a.addr /\ data_be(now)' = FirstLanes(a) /\ data_req_o(now)'
    BY <2>2, <2>3 DEF data_addr, data_be, data_req_o
  <2>5. bus_req(now)'
    BY <2>1, <2>2, <2>4 DEF bus_req, data_pmp_err, FirstWord
  <2>6. bus_wait' = <<WordOf(data_addr(now)), data_be(now), id>>'
    BY <2>1, <2>4 DEF FirstWord
  <2>. QED
    BY <2>5, <2>6 DEF RequestHeld
<1>. QED
  BY <1>1, <1>2

LEMMA SecondHeld ==
  ASSUME NEW in, Cycle(in), NEW a \in Access, a = id, Split(a), addr_last_q = a.addr,
         handle_misaligned_q, addr_incr_req_o, (AtBoth(a) \/ AtSecond(a))', id' = a
  PROVE  RequestHeld'
<1>1. CASE ~(bus_req(in) /\ ~in.gnt)
  BY <1>1 DEF Cycle, Observe, RequestHeld
<1>2. CASE bus_req(in) /\ ~in.gnt
  <2>1. bus_wait' = <<SecondWord(a), SecondLanes(a), a>> /\ SecondWord(a) \notin denied
    BY <1>2, SecondRequest DEF Cycle, Observe, bus_req, SecondWord
  <2>2. /\ ls_fsm_cs' \in {"WAIT_RVALID_MIS", "WAIT_GNT"} /\ handle_misaligned_q'
        /\ denied' = denied /\ addr_last_q' = a.addr
    BY DEF AtBoth, AtSecond, Cycle
  <2>3. (addr_incr_req_o)'
    BY <2>2 DEF addr_incr_req_o
  <2> DEFINE now == [acc |-> id, lsu_req |-> FALSE]
  <2>4. a.size > 1
    <3>1. a.size \in {1, 2, 4} /\ Offset(a.addr) \in 0..3
      BY AddrParts DEF Access, Lane
    <3>. QED
      BY <3>1 DEF Split
  <2>5. data_addr(now)' = SecondAddr(a) /\ data_be(now)' = SecondLanes(a) /\ data_req_o(now)'
    BY <2>2, <2>3, <2>4 DEF data_addr, data_be, data_req_o, SecondAddr, NumBytes
  <2>6. bus_req(now)'
    BY <2>1, <2>2, <2>5 DEF bus_req, data_pmp_err, SecondWord
  <2>7. bus_wait' = <<WordOf(data_addr(now)), data_be(now), id>>'
    BY <2>1, <2>5 DEF SecondWord
  <2>. QED
    BY <2>6, <2>7 DEF RequestHeld
<1>. QED
  BY <1>1, <1>2

LEMMA FreeEdge ==
  ASSUME TypeOK, PipelineAssumption, NEW in, Cycle(in), AtFree, wb = None, WritebackStage \/ first_q,
         NextAccess
  PROVE  PhaseInv' /\ NextAccess'
<1>1. resp' = NoResp /\ ~lsu_resp_valid_o(in) /\ ~wb_exception(in) /\ (in.lsu_req <=> id # None)
  BY FreeStep DEF NextAccess
<1>2. ResponseRight'
  BY <1>1, NothingToTell
<1>3. ls_fsm_cs = "IDLE" /\ ~handle_misaligned_q /\ ~addr_incr_req_o
  BY DEF AtFree, addr_incr_req_o
<1>4. CASE id = None
  <2>1. AtFree'
    BY <1>4, FreeStep DEF NextAccess
  <2>2. ~instr_id_done(in)
    BY <1>4 DEF instr_id_done
  <2>3. wb' = None /\ first_q'
    BY <1>1, <1>4, <2>2 DEF Cycle, WbStage, IdStage
  <2>4. bus_wait' = NoWait
    BY <1>1, <1>3, <1>4 DEF Cycle, Observe, bus_req, data_req_o
  <2>. QED
    BY <1>2, <2>1, <2>3, <2>4 DEF PhaseInv, Phase, NextAccess, RequestHeld
<1>5. ASSUME NEW a \in Access, a = id PROVE PhaseInv' /\ NextAccess'
  <2>1. a # None
    BY DEF Access, None, Addr
  <2>2. /\ in.gnt /\ Split(a) => AtBoth(a)' /\ ls_fsm_cs' # "IDLE"
        /\ in.gnt /\ ~Split(a) => AtLast(a)' /\ ls_fsm_cs' = "IDLE"
        /\ ~in.gnt => AtFirst(a)' /\ ls_fsm_cs' # "IDLE"
    BY <1>5, FreeStep DEF NextAccess
  <2>3. /\ ls_fsm_cs' = "IDLE" => responding' = a
        /\ ls_fsm_cs' # "IDLE" => id' = a /\ wb' = None
        /\ ~WritebackStage => ~first_q' /\ id' = a /\ wb' = None
    BY <1>1, <1>5, <2>1, AccessMoves DEF outstanding_memory_access
  <2>4. Phase'
    BY <2>1, <2>2, <2>3 DEF Phase, Asking
  <2>5. RequestHeld'
    <3>1. CASE in.gnt
      BY <3>1 DEF Cycle, Observe, RequestHeld
    <3>2. CASE ~in.gnt
      BY <1>3, <1>5, <2>2, <2>3, <3>2, FirstHeld
    <3>. QED
      BY <3>1, <3>2
  <2>. QED
    BY <1>2, <2>1, <2>3, <2>4, <2>5 DEF PhaseInv, NextAccess
<1>. QED
  BY <1>4, <1>5 DEF TypeOK

LEMMA AskingEdge ==
  ASSUME TypeOK, PipelineAssumption, NEW in, Cycle(in), NEW a \in Access, a = id, Asking(a),
         wb = None, WritebackStage \/ ~first_q
  PROVE  PhaseInv' /\ NextAccess'
<1>1. a # None
  BY DEF Access, None, Addr
<1>2. ls_fsm_cs # "IDLE"
  BY DEF Asking, AtFirst, AtBoth, AtSecond, AtAnswers
<1>3. ~lsu_resp_valid_o(in) /\ resp' = NoResp
  BY <1>1, <1>2, NoResponse
<1>4. ResponseRight'
  BY <1>3, NothingToTell
<1>5. ~outstanding_memory_access(in) /\ ~wb_exception(in)
  BY <1>3 DEF outstanding_memory_access, wb_exception, load_err_o, store_err_o
<1>6. /\ ls_fsm_cs' = "IDLE" => responding' = a
      /\ ls_fsm_cs' # "IDLE" => id' = a /\ wb' = None
      /\ ~WritebackStage => ~first_q' /\ id' = a /\ wb' = None
  BY <1>2, <1>3, <1>5, AccessMoves
<1>7. NextAccess'
  BY <1>1, <1>6 DEF NextAccess
<1>8. AtLast(a)' => Phase'
  <2>1. AtLast(a)' => ls_fsm_cs' = "IDLE"
    BY DEF AtLast
  <2>. QED
    BY <1>1, <1>6, <2>1 DEF Phase
<1>9. Asking(a)' => Phase' /\ id' = a
  <2>1. Asking(a)' => ls_fsm_cs' # "IDLE"
    BY DEF Asking, AtFirst, AtBoth, AtSecond, AtAnswers
  <2>. QED
    BY <1>1, <1>6, <2>1 DEF Phase
<1>10. (in.gnt \/ ~bus_req(in)) => RequestHeld'
  BY DEF Cycle, Observe, RequestHeld
<1>11. CASE AtFirst(a)
  <2>1. IF granted_or_denied(in) THEN IF Split(a) THEN AtBoth(a)' ELSE AtLast(a)' ELSE AtFirst(a)'
    BY <1>11, FirstStep
  <2>2. ~handle_misaligned_q /\ ~addr_incr_req_o /\ (pmp_err_q <=> FirstWord(a) \in denied)
    BY <1>11 DEF AtFirst, addr_incr_req_o
  <2>3. granted_or_denied(in) => in.gnt \/ ~bus_req(in)
    BY <2>2, FirstRequest DEF granted_or_denied, bus_req
  <2>4. ~granted_or_denied(in) => RequestHeld'
    BY <1>9, <2>1, <2>2, FirstHeld DEF Asking
  <2>. QED
    BY <1>4, <1>7, <1>8, <1>9, <1>10, <2>1, <2>3, <2>4 DEF PhaseInv, Asking
<1>12. CASE AtBoth(a)
  <2>1. IF first_answered(in) THEN IF in.gnt THEN AtLast(a)' ELSE AtSecond(a)'
                              ELSE IF in.gnt THEN AtAnswers(a)' ELSE AtBoth(a)'
    BY <1>12, BothStep
  <2>2. Split(a) /\ addr_last_q = a.addr /\ handle_misaligned_q /\ addr_incr_req_o
    BY <1>12 DEF AtBoth, addr_incr_req_o
  <2>3. ~in.gnt => RequestHeld'
    BY <1>9, <2>1, <2>2, SecondHeld DEF Asking
  <2>. QED
    BY <1>4, <1>7, <1>8, <1>9, <1>10, <2>1, <2>3 DEF PhaseInv, Asking
<1>13. CASE AtSecond(a)
  <2>1. IF granted_or_denied(in) THEN AtLast(a)' ELSE AtSecond(a)'
    BY <1>13, SecondStep
  <2>2. /\ Split(a) /\ addr_last_q = a.addr /\ handle_misaligned_q /\ addr_incr_req_o
        /\ pmp_err_q <=> SecondWord(a) \in denied
    BY <1>13 DEF AtSecond, addr_incr_req_o
  <2>3. granted_or_denied(in) => in.gnt \/ ~bus_req(in)
    BY <2>2, SecondRequest DEF granted_or_denied, bus_req
  <2>4. ~granted_or_denied(in) => RequestHeld'
    BY <1>9, <2>1, <2>2, SecondHeld DEF Asking
  <2>. QED
    BY <1>4, <1>7, <1>8, <1>9, <1>10, <2>1, <2>3, <2>4 DEF PhaseInv, Asking
<1>14. CASE AtAnswers(a)
  BY <1>4, <1>7, <1>8, <1>9, <1>10, <1>14, AnswersStep DEF PhaseInv, Asking
<1>. QED
  BY <1>11, <1>12, <1>13, <1>14 DEF Asking

LEMMA LastEdge ==
  ASSUME TypeOK, PipelineAssumption, NEW in, Cycle(in), NEW a \in Access, a = responding, AtLast(a),
         WritebackStage \/ ~first_q, NextAccess
  PROVE  PhaseInv' /\ NextAccess'
<1>1. a # None /\ (~WritebackStage => wb = None /\ id = a)
  BY DEF Access, None, Addr, NextAccess, responding
<1>2. CASE ~lsu_resp_valid_o(in)
  <2>1. /\ AtLast(a)' /\ resp' = NoResp /\ ~bus_req(in)
        /\ responding' = a /\ wb' = wb /\ (~WritebackStage => id' = id /\ ~first_q')
    BY <1>1, <1>2, LastWaits
  <2>2. RequestHeld'
    BY <2>1 DEF Cycle, Observe, RequestHeld
  <2>. QED
    BY <1>1, <2>1, <2>2, NothingToTell DEF PhaseInv, Phase, NextAccess
<1>3. CASE lsu_resp_valid_o(in)
  <2>1. ResponseRight'
    BY <1>1, <1>3, LastResponse
  <2>2. ls_fsm_cs = "IDLE" /\ ~handle_misaligned_q /\ ~addr_incr_req_o
    BY DEF AtLast, addr_incr_req_o
  <2>3. ~in.lsu_req => AtFree' /\ ~bus_req(in)
    BY <1>1, <1>3, LastLeaves
  <2>4. in.lsu_req <=> WritebackStage /\ id # None /\ ~wb_exception(in)
    BY <1>1, <1>3, LastLeaves
  <2>5. CASE ~in.lsu_req
    <3>1. RequestHeld'
      BY <2>3, <2>5 DEF Cycle, Observe, RequestHeld
    <3>2. WritebackStage => wb' = None
      <4>1. WritebackStage => ~instr_id_done(in)
        BY <2>2, <2>5 DEF instr_id_done, lsu_req_done_o
      <4>. QED
        BY <1>3, <4>1 DEF Cycle, WbStage
    <3>3. ~WritebackStage => wb' = None /\ first_q'
      <4>1. ~WritebackStage => instr_id_done(in)
        BY <1>1, <1>3 DEF instr_id_done
      <4>. QED
        BY <1>1, <4>1 DEF Cycle, WbStage, IdStage
    <3>. QED
      BY <2>1, <2>3, <2>5, <3>1, <3>2, <3>3 DEF PhaseInv, Phase, NextAccess
  <2>6. ASSUME in.lsu_req, NEW b \in Access, b = id PROVE PhaseInv' /\ NextAccess'
    <3>1. b # None /\ WritebackStage /\ ~wb_exception(in)
      BY <2>4, <2>6 DEF Access, None, Addr
    <3>2. /\ in.gnt /\ Split(b) => AtBoth(b)' /\ ls_fsm_cs' # "IDLE"
          /\ in.gnt /\ ~Split(b) => AtLast(b)' /\ ls_fsm_cs' = "IDLE"
          /\ ~in.gnt => AtFirst(b)' /\ ls_fsm_cs' # "IDLE"
      BY <1>1, <1>3, <2>6, LastLeaves
    <3>3. ~outstanding_memory_access(in)
      BY <1>3 DEF outstanding_memory_access
    <3>4. /\ ls_fsm_cs' = "IDLE" => responding' = b
          /\ ls_fsm_cs' # "IDLE" => id' = b /\ wb' = None
      BY <2>6, <3>1, <3>3, AccessMoves
    <3>5. Phase' /\ NextAccess'
      BY <3>1, <3>2, <3>4 DEF Phase, Asking, NextAccess
    <3>6. RequestHeld'
      <4>1. CASE in.gnt
        BY <4>1 DEF Cycle, Observe, RequestHeld
      <4>2. CASE ~in.gnt
        BY <2>2, <2>6, <3>2, <3>4, <4>2, FirstHeld
      <4>. QED
        BY <4>1, <4>2
    <3>. QED
      BY <2>1, <3>5, <3>6 DEF PhaseInv
  <2>. QED
    BY <2>4, <2>5, <2>6 DEF TypeOK
<1>. QED
  BY <1>2, <1>3

LEMMA BusShapes ==
  ASSUME NEW a \in Access, NEW q, q \in {<<>>, <<FirstEntry(a)>>, <<SecondEntry(a)>>,
                                         <<FirstEntry(a), SecondEntry(a)>>}
  PROVE  /\ q \in Seq(BusEntry) /\ Len(q) <= 2
         /\ \A i \in DOMAIN q : q[i].acc = a
<1>1. FirstEntry(a) \in BusEntry /\ SecondEntry(a) \in BusEntry
  BY EntryTypes
<1>2. FirstEntry(a).acc = a /\ SecondEntry(a).acc = a
  BY DEF FirstEntry, SecondEntry
<1> DEFINE e == FirstEntry(a)
           f == SecondEntry(a)
<1> HIDE DEF e, f
<1>3. q \in {<<>>, <<e>>, <<f>>, <<e, f>>} /\ e \in BusEntry /\ f \in BusEntry /\ e.acc = a /\ f.acc = a
  BY <1>1, <1>2 DEF e, f
<1>4. q = <<>> \/ q = <<e>> \/ q = <<f>> \/ q = <<e, f>>
  BY <1>3
<1>5. CASE q = <<>>
  BY <1>5
<1>6. ASSUME NEW x \in BusEntry, x.acc = a, q = <<x>>
      PROVE  q \in Seq(BusEntry) /\ Len(q) <= 2 /\ \A i \in DOMAIN q : q[i].acc = a
  <2>1. q \in Seq(BusEntry) /\ Len(q) = 1 /\ DOMAIN q = {1} /\ q[1] = x
    BY <1>6
  <2>. QED
    BY <1>6, <2>1
<1>7. CASE q = <<e, f>>
  <2>1. q \in Seq(BusEntry) /\ Len(q) = 2 /\ DOMAIN q = {1, 2} /\ q[1] = e /\ q[2] = f
    BY <1>3, <1>7
  <2>. QED
    BY <1>3, <2>1
<1>. QED
  BY <1>3, <1>4, <1>5, <1>6, <1>7

LEMMA AddrStays ==
  ASSUME NEW x \in Addr, NEW w \in Word, NEW j \in Lane
  PROVE  /\ (x + 4) % (4 * NUM_WORDS) \in Addr /\ Aligned(x) \in Addr /\ Offset(x) \in Lane
         /\ 4 * w + j \in Addr /\ WordOf(x) \in Word
<1>1. NUM_WORDS \in Nat /\ NUM_WORDS > 1 /\ x \in Nat
  BY LsuAssumption DEF Addr
<1>2. (x + 4) % (4 * NUM_WORDS) \in Addr
  BY <1>1 DEF Addr
<1>3. WordOf(x) \in Word /\ Offset(x) \in Lane
  BY AddrParts
<1>4. Aligned(x) \in Addr
  <2>1. 0 \in Lane
    BY DEF Lane
  <2>2. 4 * WordOf(x) + 0 \in Addr /\ WordOf(x) \in Nat
    BY <1>3, <2>1, InAddr
  <2>. QED
    BY <2>2 DEF Aligned
<1>. QED
  BY <1>2, <1>3, <1>4, InAddr

LEMMA TypesStay ==
  ASSUME MemIInv, PipelineAssumption, NEW in, Cycle(in), PhaseInv'
  PROVE  TypeOK'
<1>1. /\ TypeOK /\ Phase
  BY DEF MemIInv, PhaseInv
<1>2. ls_fsm_cs' \in {"IDLE", "WAIT_GNT_MIS", "WAIT_RVALID_MIS", "WAIT_GNT",
                      "WAIT_RVALID_MIS_GNTS_DONE"}
  BY <1>1 DEF TypeOK, Cycle, LsuRegs, ls_fsm_ns
<1>3. handle_misaligned_q' \in BOOLEAN /\ pmp_err_q' \in BOOLEAN /\ lsu_err_q' \in BOOLEAN
  <2>1. /\ handle_misaligned_q \in BOOLEAN /\ pmp_err_q \in BOOLEAN /\ lsu_err_q \in BOOLEAN
        /\ in.gnt \in BOOLEAN /\ in.rvalid \in BOOLEAN /\ in.err \in BOOLEAN
    BY <1>1 DEF TypeOK, Cycle
  <2>2. Split(in.acc) \in BOOLEAN
    BY DEF Split
  <2>3. data_pmp_err(in) \in BOOLEAN
    BY DEF data_pmp_err
  <2>4. Idle(in) \/ WaitGntMis(in) \/ WaitRvalidMis(in) \/ WaitGnt(in) \/ WaitRvalidMisGntsDone(in)
    BY DEF Cycle, LsuRegs
  <2>5. CASE Idle(in)
    BY <2>1, <2>2, <2>5, Zenon DEF Idle
  <2>6. CASE WaitGntMis(in)
    BY <2>1, <2>6, Zenon DEF WaitGntMis
  <2>7. CASE WaitRvalidMis(in)
    BY <2>1, <2>3, <2>7, Zenon DEF WaitRvalidMis
  <2>8. CASE WaitGnt(in)
    BY <2>1, <2>8, Zenon DEF WaitGnt
  <2>9. CASE WaitRvalidMisGntsDone(in)
    BY <2>1, <2>3, <2>9, Zenon DEF WaitRvalidMisGntsDone
  <2>. QED
    BY <2>4, <2>5, <2>6, <2>7, <2>8, <2>9
<1>4. first_q' \in BOOLEAN
  BY Zenon DEF Cycle, IdStage
<1>5. {id', wb'} \subseteq Access \cup {None}
  BY <1>1 DEF PipelineAssumption, TypeOK, Cycle, IdStage, WbStage
<1>6. denied' \subseteq Word
  BY <1>1 DEF TypeOK, Cycle
<1>7. in.rvalid => Head(bus_q) \in BusEntry
  <2>1. \A s \in Seq(BusEntry) : s # <<>> => Head(s) \in BusEntry
    OBVIOUS
  <2>. QED
    BY <1>1, <2>1, BusGrows DEF TypeOK
<1>8. errs' \subseteq Word
  <2>1. AnsweredErrs(in) \subseteq Word
    BY <1>7, BusGrows DEF AnsweredErrs, BusEntry
  <2>. QED
    BY <1>1, <2>1 DEF TypeOK, Cycle, Observe
\* An access is in ID whenever the registers take its address and its kind.
<1>9. (addr_update(in) /\ ~addr_incr_req_o) \/ ctrl_update(in) => id \in Access
  <2>1. ls_fsm_cs = "IDLE" /\ in.lsu_req => id # None
    BY DEF Cycle, lsu_req
  <2>2. ls_fsm_cs # "IDLE" => id # None
    BY <1>1 DEF Phase, AtFree, AtLast
  <2>3. addr_update(in) /\ ls_fsm_cs = "IDLE" => in.lsu_req
    BY DEF addr_update
  <2>4. ctrl_update(in) /\ ls_fsm_cs = "IDLE" => in.lsu_req
    BY DEF ctrl_update
  <2>. QED
    BY <1>1, <2>1, <2>2, <2>3, <2>4 DEF TypeOK
<1>10. addr_update(in) \/ ctrl_update(in) => data_addr(in) \in Addr
  <2>1. addr_incr_req_o => data_addr(in) \in Addr
    <3>1. \A x \in Addr : (x + 4) % (4 * NUM_WORDS) \in Addr
      BY LsuAssumption DEF Addr
    <3>. QED
      BY <1>1, <3>1 DEF data_addr, TypeOK
  <2>2. ~addr_incr_req_o /\ id \in Access => data_addr(in) \in Addr
    BY DEF data_addr, Cycle, Access
  <2>. QED
    BY <1>9, <2>1, <2>2
<1>11. addr_last_q' \in Addr
  <2>1. \A x \in Addr : Aligned(x) \in Addr
    <3>1. 0 \in Word /\ 0 \in Lane
      BY LsuAssumption DEF Word, Lane
    <3>. QED
      BY <3>1, AddrStays
  <2>. QED
    BY <1>1, <1>10, <2>1 DEF TypeOK, Cycle, LsuRegs
<1>12. rdata_offset_q' \in Lane /\ data_type_q' \in {1, 2, 4} /\ data_we_q' \in BOOLEAN
  <2>1. CASE ctrl_update(in)
    <3>1. data_addr(in) \in Addr /\ id \in Access
      BY <1>9, <1>10, <2>1
    <3>2. rdata_offset_q' = Offset(data_addr(in)) /\ data_type_q' = id.size /\ data_we_q' = id.we
      BY <2>1 DEF Cycle, LsuRegs
    <3>3. Offset(data_addr(in)) \in Lane /\ id.size \in {1, 2, 4} /\ id.we \in BOOLEAN
      BY <3>1, AddrParts DEF Access
    <3>. QED
      BY <3>2, <3>3
  <2>2. CASE ~ctrl_update(in)
    <3>1. UNCHANGED <<rdata_offset_q, data_type_q, data_we_q>>
      BY <2>2 DEF Cycle, LsuRegs
    <3>. QED
      BY <1>1, <3>1 DEF TypeOK
  <2>. QED
    BY <2>1, <2>2
<1>13. rdata_q' \in [Lane -> Addr \cup {NoByte}]
  <2>1. data_rdata(in) \in [Lane -> Addr \cup {NoByte}]
    <3>1. ASSUME NEW j \in Lane, in.rvalid PROVE 4 * Head(bus_q).word + j \in Addr
      BY <1>7, <3>1, InAddr DEF BusEntry
    <3>. QED
      BY <3>1 DEF data_rdata
  <2>2. NoBytes \in [Lane -> Addr \cup {NoByte}]
    BY DEF NoBytes
  <2>. QED
    BY <1>1, <2>1, <2>2 DEF TypeOK, Cycle, LsuRegs
<1>14. bus_q' \in Seq(BusEntry) /\ Len(bus_q') <= 2
  <2>1. bus_q' = <<>> \/ \E a \in Access : bus_q' \in {<<>>, <<FirstEntry(a)>>, <<SecondEntry(a)>>,
                                                       <<FirstEntry(a), SecondEntry(a)>>}
    <3>1. Phase'
      BY DEF PhaseInv
    <3>2. CASE AtFree'
      BY <3>2 DEF AtFree
    <3>3. CASE (AtLast(responding) /\ responding # None)'
      BY <1>5, <3>3 DEF AtLast, AtLastOfTwo, AtOnly, responding
    <3>4. CASE (Asking(id) /\ id # None)'
      BY <1>5, <3>4 DEF Asking, AtFirst, AtBoth, AtSecond, AtAnswers
    <3>. QED
      BY <3>1, <3>2, <3>3, <3>4 DEF Phase
  <2>2. <<>> \in Seq(BusEntry) /\ Len(<<>>) <= 2
    OBVIOUS
  <2>. QED
    BY <2>1, <2>2, BusShapes
<1>. QED
  BY <1>2, <1>3, <1>4, <1>5, <1>6, <1>8, <1>11, <1>12, <1>13, <1>14 DEF TypeOK

LEMMA InitMem ==
  ASSUME PipelineAssumption, Init
  PROVE  MemIInv
<1>1. TypeOK
  <2>1. rdata_q \in [Lane -> Addr \cup {NoByte}]
    BY DEF Init, LsuInit, NoBytes
  <2>2. addr_last_q \in Addr /\ rdata_offset_q \in Lane
    BY LsuAssumption DEF Init, LsuInit, Addr, Lane
  <2>. QED
    BY <2>1, <2>2 DEF Init, LsuInit, TypeOK, PipelineAssumption
<1>2. NextAccess /\ Phase
  BY DEF Init, LsuInit, NextAccess, Phase, AtFree
<1>3. ~resp.valid /\ bus_wait = NoWait
  BY DEF Init, NoResp
<1>4. ResponseRight
  BY <1>3 DEF ResponseRight, ErrorReported, LoadedBytes, StoredExactly, FaultAddress
<1>5. RequestHeld
  BY <1>3 DEF RequestHeld
<1>. QED
  BY <1>1, <1>2, <1>4, <1>5 DEF MemIInv, PhaseInv

LEMMA StepMem ==
  ASSUME PipelineAssumption, MemIInv, [Next]_vars
  PROVE  MemIInv'
<1>1. CASE UNCHANGED vars
  BY <1>1 DEF vars, lsu_vars, pipe_vars, MemIInv, TypeOK, NextAccess, PhaseInv, Phase, ResponseRight, RequestHeld,
     AtFree, AtLast, AtLastOfTwo, AtOnly, Asking, AtFirst, AtBoth, AtSecond, AtAnswers, responding,
     ErrorReported, LoadedBytes, StoredExactly, FaultAddress, FirstDone, Ctrl, FirstBytes, SecondBytes,
     FailedWords, bus_req, data_req_o, data_pmp_err, data_addr, data_be, addr_incr_req_o
<1>2. ASSUME NEW gnt \in BOOLEAN, NEW rvalid \in BOOLEAN, NEW err \in BOOLEAN, Edge(gnt, rvalid, err)
      PROVE  MemIInv'
  <2>1. PICK in : Cycle(in)
    BY <1>2, EdgeIsCycle
  <2>2. TypeOK /\ NextAccess /\ Phase
    BY DEF MemIInv, PhaseInv
  <2>3. CASE AtFree /\ wb = None /\ (WritebackStage \/ first_q)
    <3>1. PhaseInv' /\ NextAccess'
      BY <2>1, <2>2, <2>3, FreeEdge
    <3>. QED
      BY <2>1, <3>1, TypesStay DEF MemIInv
  <2>4. CASE AtLast(responding) /\ responding # None /\ (WritebackStage \/ ~first_q)
    <3>1. PICK a \in Access : a = responding
      BY <2>2, <2>4 DEF TypeOK, responding
    <3>2. AtLast(a)
      BY <2>4, <3>1
    <3>3. PhaseInv' /\ NextAccess'
      BY <2>1, <2>2, <2>4, <3>1, <3>2, LastEdge
    <3>. QED
      BY <2>1, <3>3, TypesStay DEF MemIInv
  <2>5. CASE Asking(id) /\ wb = None /\ id # None /\ (WritebackStage \/ ~first_q)
    <3>1. PICK a \in Access : a = id
      BY <2>2, <2>5 DEF TypeOK
    <3>2. Asking(a)
      BY <2>5, <3>1
    <3>3. PhaseInv' /\ NextAccess'
      BY <2>1, <2>2, <2>5, <3>1, <3>2, AskingEdge
    <3>. QED
      BY <2>1, <3>3, TypesStay DEF MemIInv
  <2>. QED
    BY <2>2, <2>3, <2>4, <2>5 DEF Phase
<1>. QED
  BY <1>1, <1>2 DEF Next

LEMMA PhaseAccess ==
  ASSUME MemIInv
  PROVE  ResponseHasAccess
<1>1. TypeOK /\ Phase /\ NextAccess
  BY DEF MemIInv, PhaseInv
<1>2. CASE AtFree
  BY <1>2 DEF AtFree, ResponseHasAccess
<1>3. CASE AtLast(responding) /\ responding # None
  <2>1. responding \in Access /\ responding = (IF wb # None THEN wb ELSE id)
    BY <1>1, <1>3 DEF TypeOK, responding, NextAccess
  <2>2. bus_q \in {<<>>, <<FirstEntry(responding)>>, <<SecondEntry(responding)>>,
                   <<FirstEntry(responding), SecondEntry(responding)>>}
    BY <1>3 DEF AtLast, AtLastOfTwo, AtOnly
  <2>3. \A i \in DOMAIN bus_q : bus_q[i].acc = responding
    BY <2>1, <2>2, BusShapes
  <2>. QED
    BY <1>3, <2>1, <2>3 DEF ResponseHasAccess
<1>4. CASE Asking(id) /\ wb = None /\ id # None
  <2>1. id \in Access
    BY <1>1, <1>4 DEF TypeOK
  <2>2. bus_q \in {<<>>, <<FirstEntry(id)>>, <<SecondEntry(id)>>, <<FirstEntry(id), SecondEntry(id)>>}
    BY <1>4 DEF Asking, AtFirst, AtBoth, AtSecond, AtAnswers
  <2>3. \A i \in DOMAIN bus_q : bus_q[i].acc = id
    BY <2>1, <2>2, BusShapes
  <2>. QED
    BY <1>4, <2>3 DEF ResponseHasAccess
<1>. QED
  BY <1>1, <1>2, <1>3, <1>4 DEF Phase

-----------------------------------------------------------------------------
(* The theorems.                                                           *)

\* The invariant of the phases, which the other theorems follow from: the access in
\* the load/store unit is in exactly the phase that the state machine, the bus and the
\* occupied stage say, and the unit remembers of its first word what the response needs.
THEOREM InductiveInvariant == Spec => []MemIInv
<1>1. Init => MemIInv
  BY PipelineAssumption, InitMem
<1>2. MemIInv /\ [Next]_vars => MemIInv'
  BY PipelineAssumption, StepMem
<1>. QED
  BY <1>1, <1>2, PTL DEF Spec

\* Whatever is on the data bus is for the access in writeback or, while there is none,
\* for the one in ID (NoMemResponseWithoutPendingAccess of ibex_core.sv), at most two
\* words of it, and a request that is not granted is asked again for the same bytes.
THEOREM BusCorrect == Spec => []BusInv
<1>1. MemIInv => BusInv
  BY PhaseAccess DEF MemIInv, PhaseInv, BusInv
<1>. QED
  BY <1>1, InductiveInvariant, PTL

\* However the two words of an access are granted, denied and answered, its response
\* reports a failure if and only if one of its words failed, a load returns its own
\* bytes, a store has written exactly the bytes the PMP allows, and mtval's source
\* holds the address of the first word that failed.
THEOREM ResponsesRight == Spec => []ResponseRight
<1>1. MemIInv => ResponseRight
  BY DEF MemIInv, PhaseInv
<1>. QED
  BY <1>1, InductiveInvariant, PTL
=============================================================================
