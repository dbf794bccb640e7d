---------------------------- MODULE StoreClaims -----------------------------
(***************************************************************************)
(* What comments of the source say of the store and the code does not      *)
(* keep: each of these is checked by a run that ends in a counterexample.  *)
(***************************************************************************)
EXTENDS Workers

\* src/headers/parser.h:15, of max_files: "How many files the server can
\* contain".  The room that cache_algorithm makes for one file is not kept for
\* the worker that made it.
WithinMaxFiles == nCurrentFile <= MaxFiles

\* src/headers/parser.h:14, of max_memory: "How large is our cache in MBytes".
\* cache_algorithm evicts only if MaxMemory > amount, so a write of exactly
\* MaxMemory bytes is let in and nothing goes.
WithinMaxMemory == nCurrentMemoryUsed <= MaxMemory

\* src/src/server.c:348: "remove generic files can't fail because it can
\* return -1 only if the file doesn't exist".  Between the lookup of
\* REMOVE_FILE and that of remove_generic_file another worker may unlink it.
RemoveCannotFail == [][\A w \in Workers : ~RemoveFails(w)]_vars

\* src/src/server.c:198: "Files can be sent and wrote to only in mutual
\* exclusion".  READN_FILE sends its files without their mutexes.
SendExcludesWrite ==
  [][\A v, w \in Workers :
       WriteFile(v) => ~ /\ frame[w].pc \in {"read_send", "sendn_next"}
                         /\ frame[w].file = frame[v].file]_vars

=============================================================================
