---------------------------- MODULE MetadataStore ----------------------------
(***************************************************************************)
(* metadata.pickle and the scripts that use it at the same time.  A writer *)
(* (with LockedMetadata(...) as md) takes a lock of the file, loads it,    *)
(* sets fields, and exports the whole object when the block ends, also by  *)
(* an exception; it gives up when the lock does not come within five       *)
(* seconds.  A reader (construct_from_metadata_dir) takes no lock.  An     *)
(* export truncates the file before it fills it.                           *)
(***************************************************************************)
CONSTANTS Writers, Readers

\* A script uses the metadata in one of the two ways.
ASSUME KindsDiffer == Writers \cap Readers = {}

Proc == Writers \cup Readers

VARIABLES
    pickle,     \* the fields on disk: the writers that set theirs
    torn,       \* the file is truncated and not yet filled: pickle.load raises EOFError
    lock,       \* who holds the lock: a set of writers
    mem,        \* md of each process
    at,
    committed,  \* writers whose block ended without an exception
    killed      \* a process was killed while it exported

store_vars == <<pickle, torn, lock, mem, at, committed, killed>>

Fields == SUBSET Writers

StoreTypeOK ==
    /\ pickle \in Fields /\ torn \in BOOLEAN
    /\ lock \in SUBSET Writers
    /\ mem \in [Proc -> Fields]
    /\ at \in [Proc -> {"start", "waiting", "body", "export", "done", "error"}]
    /\ committed \in SUBSET Writers
    /\ killed \in BOOLEAN

StoreInit ==
    /\ pickle = {} /\ torn = FALSE /\ lock = {} /\ committed = {} /\ killed = FALSE
    /\ mem = [p \in Proc |-> {}]
    /\ at = [p \in Proc |-> "start"]

Goto(p, l) == at' = [at EXCEPT ![p] = l]

\* __enter__: opens the file and asks for the lock.
Enter(w) ==
    /\ at[w] = "start" /\ Goto(w, "waiting")
    /\ UNCHANGED <<pickle, torn, lock, mem, committed, killed>>

\* The alarm goes off first; the exception ends the script.
Alarm(w) ==
    /\ at[w] = "waiting" /\ lock # {} /\ Goto(w, "error")
    /\ UNCHANGED <<pickle, torn, lock, mem, committed, killed>>

\* Mutant: the lock is not waited for.
Locked_Shared(w) ==
    /\ at[w] = "waiting" /\ ~torn
    /\ lock' = lock \cup {w}
    /\ mem' = [mem EXCEPT ![w] = pickle] /\ Goto(w, "body")
    /\ UNCHANGED <<pickle, torn, committed, killed>>

\* The lock comes, and the file is loaded.  A script that cannot load it ends, and
\* its lock with it.
Locked(w) ==
    /\ at[w] = "waiting" /\ lock = {}
    /\ \/ /\ ~torn /\ lock' = {w}
          /\ mem' = [mem EXCEPT ![w] = pickle] /\ Goto(w, "body")
       \/ /\ torn /\ Goto(w, "error") /\ UNCHANGED <<lock, mem>>
    /\ UNCHANGED <<pickle, torn, committed, killed>>

\* Mutant: the lock is given back before the export.
Truncate_Unlocks(w) ==
    /\ at[w] = "body" /\ Goto(w, "export") /\ pickle' = {} /\ torn' = TRUE
    /\ mem' \in {mem, [mem EXCEPT ![w] = @ \cup {w}]}
    /\ lock' = lock \ {w}
    /\ UNCHANGED <<committed, killed>>

\* __exit__: export truncates the file.  The block has set its field, unless an
\* exception came before that.
Truncate(w) ==
    /\ at[w] = "body" /\ Goto(w, "export") /\ pickle' = {} /\ torn' = TRUE
    /\ mem' \in {mem, [mem EXCEPT ![w] = @ \cup {w}]}
    /\ UNCHANGED <<lock, committed, killed>>

\* The rest of __exit__: the object is dumped, the lock given back.
Dump(w) ==
    /\ at[w] = "export" /\ pickle' = mem[w] /\ torn' = FALSE /\ lock' = lock \ {w}
    /\ committed' = IF w \in mem[w] THEN committed \cup {w} ELSE committed
    /\ Goto(w, IF w \in mem[w] THEN "done" ELSE "error")
    /\ UNCHANGED <<mem, killed>>

Read(r) ==
    /\ at[r] = "start"
    /\ \/ /\ ~torn /\ mem' = [mem EXCEPT ![r] = pickle] /\ Goto(r, "done")
       \/ torn /\ Goto(r, "error") /\ UNCHANGED mem
    /\ UNCHANGED <<pickle, torn, lock, committed, killed>>

\* make or the developer kills a script: the system drops its lock.
Kill(p) ==
    /\ at[p] \in {"waiting", "body", "export"}
    /\ Goto(p, "error") /\ lock' = lock \ {p}
    /\ killed' = (killed \/ at[p] = "export")
    /\ UNCHANGED <<pickle, torn, mem, committed>>

\* A later step of make runs a script again.
Again(p) ==
    /\ at[p] \in {"done", "error"} /\ Goto(p, "start")
    /\ UNCHANGED <<pickle, torn, lock, mem, committed, killed>>

StoreNext ==
    \/ \E w \in Writers : Enter(w) \/ Alarm(w) \/ Locked(w) \/ Truncate(w) \/ Dump(w)
    \/ \E r \in Readers : Read(r)
    \/ \E p \in Proc : Kill(p) \/ Again(p)

StoreSpec == StoreInit /\ [][StoreNext]_store_vars

-----------------------------------------------------------------------------
\* The lock has one holder, who is the only one to change the file.
Exclusive ==
    /\ \A w \in Writers : at[w] \in {"body", "export"} <=> w \in lock
    /\ \A v, w \in lock : v = w

\* "This allows us to not worry about multiple processes racing to write into the
\* file": what a script committed stays, whoever else writes afterwards and whatever
\* they had loaded.
CommittedStays == ~torn => committed \subseteq pickle

\* A file is half written only while its writer holds the lock, or because that
\* writer was killed; so without a kill only a reader, which asks for no lock, can
\* find it so.
TornIsGuarded == torn => killed \/ \E w \in lock : at[w] = "export"

\* What makes CommittedStays inductive: the holder has loaded all that was committed.
LoadedAll == \A w \in lock : committed \subseteq mem[w]

StoreInv == StoreTypeOK /\ Exclusive /\ CommittedStays /\ TornIsGuarded /\ LoadedAll
=============================================================================
