----------------------------- MODULE MemPipeline -----------------------------
(***************************************************************************)
(* Loads and stores from the ID stage to their response: the part of       *)
(* ibex_id_stage.sv and ibex_wb_stage.sv that decides when an access may   *)
(* be requested and when its instruction leaves, around the load/store     *)
(* unit and the data bus.  With WritebackStage an access moves to the      *)
(* writeback stage once it is granted, and the next one may be requested   *)
(* in the cycle of its response; without it the instruction stays in ID.   *)
(*                                                                         *)
(* Instructions that are not loads or stores are cycles with no access in  *)
(* ID; which access comes next is free.                                    *)
(***************************************************************************)
EXTENDS LoadStoreUnit

CONSTANTS WritebackStage,   \* the parameter of ibex_core.sv
          AccessIn,         \* accesses the program may make
          PmpIn             \* sets of words the PMP may deny

ASSUME PipelineAssumption ==
    /\ WritebackStage \in BOOLEAN
    /\ AccessIn \subseteq Access
    /\ PmpIn \subseteq SUBSET Word

VARIABLES
    id,         \* the load or store in the ID stage
    first_q,    \* without a writeback stage: id_fsm_q = FIRST_CYCLE
    wb,         \* the load or store in the writeback stage
    \* What happened on the bus, for the properties.
    errs,       \* words of the current access that came back with an error
    written,    \* bytes of memory written for it, with their place in the register
    resp,       \* the response given at the last clock edge
    bus_wait    \* the request that was on the bus at the last edge, not granted

pipe_vars == <<id, first_q, wb, errs, written, resp, bus_wait>>
vars      == <<lsu_vars, denied, bus_q, pipe_vars>>

NoResp   == [valid |-> FALSE]
NoWait   == <<>>

(***************************************************************************)
(* When the ID stage may request, and when an access leaves it.            *)
(***************************************************************************)
outstanding_memory_access(in) == wb # None /\ ~lsu_resp_valid_o(in)

\* Mutant: a request does not wait for the access in writeback.
data_req_allowed_Always(in) == TRUE
data_req_allowed(in) == IF WritebackStage THEN ~outstanding_memory_access(in) ELSE first_q

wb_exception(in) == WritebackStage /\ (load_err_o(in) \/ store_err_o(in))

lsu_req(in) == id # None /\ data_req_allowed(in) /\ ~wb_exception(in)

\* The instruction in ID leaves for writeback, or is done.
instr_id_done(in) ==
    /\ id # None
    /\ IF WritebackStage
       THEN lsu_req_done_o(in) /\ ~outstanding_memory_access(in) /\ ~wb_exception(in)
       ELSE ~first_q /\ lsu_resp_valid_o(in)

\* The access a response is for.
responding == IF WritebackStage THEN wb ELSE id

\* An error response flushes the ID stage; otherwise the next access arrives
\* when the present one leaves.
IdStage(in) ==
    /\ IF lsu_resp_valid_o(in) /\ (load_err_o(in) \/ store_err_o(in))
       THEN id' = None
       ELSE IF id = None \/ instr_id_done(in) THEN id' \in AccessIn \cup {None}
                                              ELSE id' = id
    /\ first_q' = (id = None \/ instr_id_done(in))

WbStage(in) ==
    wb' = CASE WritebackStage /\ instr_id_done(in) -> id
            [] ~instr_id_done(in) /\ lsu_resp_valid_o(in) -> None
            [] OTHER -> wb

(***************************************************************************)
(* What the bus and the register file saw.                                 *)
(***************************************************************************)
StoredBytes(in) ==
    IF in.gnt /\ in.acc.we
    THEN {<<4 * WordOf(data_addr(in)) + j, WdataByte(in.acc, j)>> : j \in data_be(in)}
    ELSE {}
AnsweredErrs(in) == IF in.err THEN {Head(bus_q).word} ELSE {}

Observe(in) ==
    /\ resp' = IF ~lsu_resp_valid_o(in) THEN NoResp
               ELSE [valid   |-> TRUE, acc |-> responding,
                     we      |-> data_we_q,
                     err     |-> load_err_o(in) \/ store_err_o(in),
                     failed  |-> errs \cup AnsweredErrs(in),
                     written |-> written,
                     rdata   |-> IF lsu_rdata_valid_o(in) THEN lsu_rdata_o(in) ELSE <<>>]
    /\ errs' = IF lsu_resp_valid_o(in) THEN {} ELSE errs \cup AnsweredErrs(in)
    /\ written' = (IF lsu_resp_valid_o(in) THEN {} ELSE written) \cup StoredBytes(in)
    /\ bus_wait' = IF bus_req(in) /\ ~in.gnt
                   THEN <<WordOf(data_addr(in)), data_be(in), in.acc>> ELSE NoWait

(***************************************************************************)
(* The specification.  One step is a clock edge.                           *)
(***************************************************************************)
Init ==
    /\ LsuInit
    /\ denied \in PmpIn
    /\ bus_q = <<>>
    /\ id = None /\ first_q = TRUE /\ wb = None
    /\ errs = {} /\ written = {} /\ resp = NoResp /\ bus_wait = NoWait

Edge(gnt, rvalid, err) ==
    LET bus == [acc |-> id, gnt |-> gnt, rvalid |-> rvalid, err |-> err]
        in  == [acc |-> id, gnt |-> gnt, rvalid |-> rvalid, err |-> err,
                lsu_req |-> lsu_req(bus)]
    IN  /\ LsuEnv(in)
        /\ LsuRegs(in) /\ Bus(in) /\ IdStage(in) /\ WbStage(in) /\ Observe(in)
        /\ UNCHANGED denied

Next == \E gnt, rvalid, err \in BOOLEAN : Edge(gnt, rvalid, err)

Spec == Init /\ [][Next]_vars

(***************************************************************************)
(* Properties.                                                             *)
(***************************************************************************)
BusEntry == [word : Word, be : SUBSET Lane, acc : Access]

\* The state stays in its types: with at most two words of one access on the
\* bus, and every address inside the address space.
TypeOK ==
    /\ ls_fsm_cs \in {"IDLE", "WAIT_GNT_MIS", "WAIT_RVALID_MIS", "WAIT_GNT",
                      "WAIT_RVALID_MIS_GNTS_DONE"}
    /\ {handle_misaligned_q, pmp_err_q, lsu_err_q, data_we_q, first_q} \subseteq BOOLEAN
    /\ addr_last_q \in Addr /\ rdata_offset_q \in Lane /\ data_type_q \in {1, 2, 4}
    /\ rdata_q \in [Lane -> Addr \cup {NoByte}]
    /\ bus_q \in Seq(BusEntry) /\ Len(bus_q) <= 2
    /\ {id, wb} \subseteq Access \cup {None}
    /\ errs \subseteq Word /\ denied \subseteq Word

\* ibex_core.sv, NoMemResponseWithoutPendingAccess: whatever is on the bus is
\* for the access in writeback or, while there is none, for the access in ID.
ResponseHasAccess ==
    \A i \in DOMAIN bus_q :
        /\ bus_q[i].acc = IF wb # None THEN wb ELSE id
        /\ bus_q[i].acc # None

\* A request the bus has not granted stays on the bus, for the same bytes of
\* the same word (load_store_unit.rst, protocol).
RequestHeld ==
    LET now == [acc |-> id, lsu_req |-> FALSE]
    IN  bus_wait # NoWait =>
            /\ bus_req(now)
            /\ bus_wait = <<WordOf(data_addr(now)), data_be(now), id>>

NumBytes == 4 * NUM_WORDS
ByteAt(acc, k)  == (acc.addr + k) % NumBytes
BytesOf(acc)    == 0..(acc.size - 1)
WordsOf(acc)    == {WordOf(ByteAt(acc, k)) : k \in BytesOf(acc)}
FailedWords(r)  == WordsOf(r.acc) \cap (denied \cup r.failed)

\* A response is for an access that waits for one, and tells whether one of
\* its words was denied or came back with an error, for a split access however
\* its two halves were granted and answered.
ErrorReported ==
    resp.valid => /\ resp.acc # None
                  /\ resp.we = resp.acc.we
                  /\ resp.err <=> FailedWords(resp) # {}

\* A load that did not fail returns its bytes, in order, from one word or two.
LoadedBytes ==
    (resp.valid /\ ~resp.err /\ ~resp.acc.we) =>
        resp.rdata = [k \in BytesOf(resp.acc) |-> ByteAt(resp.acc, k)]

\* By its response a store has written each of its bytes that the PMP allows,
\* from its place in the register, and nothing else; a load has written nothing.
StoredExactly ==
    resp.valid =>
        resp.written = {<<ByteAt(resp.acc, k), k>> :
                            k \in {b \in BytesOf(resp.acc) :
                                      resp.acc.we /\ WordOf(ByteAt(resp.acc, b)) \notin denied}}

\* After a failed access mtval's source holds the address of the access if its
\* first word failed, and else that of its second word.
FaultAddress ==
    (resp.valid /\ resp.err) =>
        addr_last_q = IF WordOf(resp.acc.addr) \in FailedWords(resp)
                      THEN resp.acc.addr
                      ELSE Aligned((resp.acc.addr + 4) % NumBytes)

\* What the bus sees is one access, held until it is granted.
BusInv == TypeOK /\ ResponseHasAccess /\ RequestHeld

\* A response is right, whether both halves succeed, one of them fails, or both.
ResponseRight == ErrorReported /\ LoadedBytes /\ StoredExactly /\ FaultAddress

\* Every access gets its response.
AccessesComplete == (id # None \/ wb # None) ~> resp.valid
=============================================================================
