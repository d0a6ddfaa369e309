---------------------------- MODULE IcacheInval ----------------------------
(***************************************************************************)
(* The invalidation state machine of ibex_icache.sv together with the      *)
(* scramble key handshake of ibex_top.sv it waits for.  One step is one    *)
(* rising clock edge; "inval" is icache_inval_i and "answer" is            *)
(* scramble_key_valid_i, the key manager's answer, in that cycle.          *)
(*                                                                         *)
(* The key in use is a number that grows with every key delivered.  Of the *)
(* tag RAM only what the state machine promises is kept: "clean_q" holds   *)
(* the indices rewritten since the latest request, under the key in use.   *)
(***************************************************************************)
EXTENDS Integers, FiniteSets

CONSTANTS
    NUM_SETS,        \* IC_NUM_LINES of the RTL: entries of each tag RAM
    ICacheScramble,  \* scrambled RAMs, hence a key handshake
    MaxKeys          \* bound on the keys one behaviour asks for

ASSUME InvalAssumption ==
    NUM_SETS \in Nat \ {0} /\ ICacheScramble \in BOOLEAN /\ MaxKeys \in Nat \ {0}

Index == 0..(NUM_SETS - 1)

VARIABLES
    inval_state_q, inval_index_q,
    scramble_key_valid_q, scramble_req_q,
    scramble_key_q,
    clean_q,
    asked_q          \* the key in use when the latest accepted request came

inval_vars == <<inval_state_q, inval_index_q, scramble_key_valid_q,
                scramble_req_q, scramble_key_q, clean_q, asked_q>>

inval_active == inval_state_q # "IDLE"
sweeping     == inval_state_q = "INVAL_CACHE"

\* Requests that come while a key is awaited, or before the first sweep has
\* begun, are ignored.
accepted(inval) == inval /\ inval_state_q \in {"INVAL_CACHE", "IDLE"}

ic_scr_key_req(inval) ==
    \/ accepted(inval)
    \/ inval_state_q = "OUT_OF_RESET" /\ ~scramble_key_valid_q

InvalInit ==
    /\ inval_state_q = "OUT_OF_RESET" /\ inval_index_q = 0
    /\ scramble_key_valid_q = TRUE /\ scramble_req_q = FALSE
    /\ scramble_key_q = 0 /\ asked_q = -1
    /\ clean_q = {}

\* Mutant: a sweep at its last index ends although another request comes.
InvalState_Finishes(inval) ==
    inval_state_q' =
        CASE inval_state_q = "OUT_OF_RESET" -> "AWAIT_SCRAMBLE_KEY"
          [] inval_state_q = "AWAIT_SCRAMBLE_KEY" ->
                IF scramble_key_valid_q THEN "INVAL_CACHE" ELSE "AWAIT_SCRAMBLE_KEY"
          [] sweeping /\ inval_index_q = NUM_SETS - 1 -> "IDLE"
          [] accepted(inval) /\ inval_index_q # NUM_SETS - 1 -> "AWAIT_SCRAMBLE_KEY"
          [] OTHER -> IF accepted(inval) THEN "AWAIT_SCRAMBLE_KEY" ELSE inval_state_q
InvalState(inval) ==
    inval_state_q' =
        CASE inval_state_q = "OUT_OF_RESET" -> "AWAIT_SCRAMBLE_KEY"
          [] inval_state_q = "AWAIT_SCRAMBLE_KEY" ->
                IF scramble_key_valid_q THEN "INVAL_CACHE" ELSE "AWAIT_SCRAMBLE_KEY"
          [] accepted(inval) -> "AWAIT_SCRAMBLE_KEY"
          [] sweeping /\ ~inval ->
                IF inval_index_q = NUM_SETS - 1 THEN "IDLE" ELSE "INVAL_CACHE"
          [] OTHER -> "IDLE"

InvalIndex ==
    inval_index_q' =
        CASE sweeping -> (inval_index_q + 1) % NUM_SETS
          [] inval_state_q = "AWAIT_SCRAMBLE_KEY" /\ scramble_key_valid_q -> 0
          [] OTHER -> inval_index_q

\* Mutant: the key request is withdrawn when the answer does not come at once.
ScrambleKey_GivesUp(inval, answer) ==
    IF ICacheScramble
    THEN /\ scramble_key_valid_q' = IF scramble_req_q THEN answer
                                    ELSE scramble_key_valid_q /\ ~ic_scr_key_req(inval)
         /\ scramble_req_q' = (~scramble_req_q /\ ic_scr_key_req(inval))
         /\ scramble_key_q' = IF answer THEN scramble_key_q + 1 ELSE scramble_key_q
    ELSE UNCHANGED <<scramble_key_valid_q, scramble_req_q, scramble_key_q>>
\* ibex_top.sv: a request stays up until the key manager answers it.
ScrambleKey(inval, answer) ==
    IF ICacheScramble
    THEN /\ scramble_key_valid_q' = IF scramble_req_q THEN answer
                                    ELSE scramble_key_valid_q /\ ~ic_scr_key_req(inval)
         /\ scramble_req_q' = IF scramble_req_q THEN ~answer ELSE ic_scr_key_req(inval)
         /\ scramble_key_q' = IF answer THEN scramble_key_q + 1 ELSE scramble_key_q
    ELSE UNCHANGED <<scramble_key_valid_q, scramble_req_q, scramble_key_q>>

\* The tag RAM: a request, or a new key, makes every entry suspect again.
SweptTags(inval, answer) ==
    /\ clean_q' = IF accepted(inval) \/ answer THEN {}
                  ELSE IF sweeping THEN clean_q \cup {inval_index_q} ELSE clean_q
    /\ asked_q' = IF accepted(inval) THEN scramble_key_q ELSE asked_q

\* The key manager answers only a request.
InvalEnv(inval, answer) ==
    /\ answer => scramble_req_q
    /\ accepted(inval) => scramble_key_q < MaxKeys

InvalStep(inval, answer) ==
    /\ InvalEnv(inval, answer)
    /\ InvalState(inval) /\ InvalIndex
    /\ ScrambleKey(inval, answer) /\ SweptTags(inval, answer)

InvalNext == \E inval, answer \in BOOLEAN : InvalStep(inval, answer)

InvalSpec == InvalInit /\ [][InvalNext]_inval_vars

-----------------------------------------------------------------------------
(***************************************************************************)
(* Properties.                                                             *)
(***************************************************************************)

\* Lookups are let through only when every index has been rewritten, under the
\* key in use, since the latest request, also one that came during a sweep.
SweptBeforeUse == ~inval_active => clean_q = Index

\* ... and, with scrambling, that key is newer than the request.
SweptUnderFreshKey == ICacheScramble /\ ~inval_active => scramble_key_q > asked_q

\* No tag is written while the key is being replaced.
SweepHasKey == sweeping => scramble_key_valid_q /\ ~scramble_req_q

\* A sweep in progress has cleaned exactly the indices below its counter: a
\* request in mid-sweep restarts it from index 0, not from where it was.
SweepInOrder ==
    /\ sweeping => clean_q = 0..(inval_index_q - 1)
    /\ inval_state_q = "AWAIT_SCRAMBLE_KEY" => clean_q = {}

\* The cache is used only when it is safe to.
SweptSafely == SweptBeforeUse /\ SweptUnderFreshKey /\ SweepHasKey /\ SweepInOrder

\* Every invalidation ends: the requests that interrupt one another, the key
\* handshake and the counter leave no state in which the cache stays blocked.
SweepEnds == inval_active ~> ~inval_active
=============================================================================
