----------------------------- MODULE SessionStore -----------------------------
(***************************************************************************)
(* session/redis_store.py: one Redis list of attempts per session, whose   *)
(* key expires when the session has been quiet for session_ttl_seconds (24 *)
(* hours).  The age of a key is left out: a key that carries a TTL may     *)
(* expire at any time, one without never does.                             *)
(***************************************************************************)
EXTENDS SessionIds, Sequences

VARIABLES log,        \* the attempts of each session; <<>>: the key does not exist
          volatile    \* the key carries a TTL

storeVars == <<log, volatile>>

StoreInit ==
  /\ log = [s \in Sessions |-> <<>>]
  /\ volatile = [s \in Sessions |-> FALSE]

Stored(s) == log[s] # <<>>

\* append_attempt, first command: RPUSH leaves the TTL of the key as it is.
Push(s, attempt) ==
  /\ log' = [log EXCEPT ![s] = Append(@, attempt)]
  /\ UNCHANGED volatile

\* append_attempt, second command: EXPIRE, without effect on a missing key.
RefreshOnlyVolatile(s) == UNCHANGED storeVars

Refresh(s) ==
  /\ volatile' = [volatile EXCEPT ![s] = Stored(s)]
  /\ UNCHANGED log

\* Redis drops the key, and with it every attempt.
KeyExpires(s) ==
  /\ volatile[s]
  /\ log' = [log EXCEPT ![s] = <<>>]
  /\ volatile' = [volatile EXCEPT ![s] = FALSE]
===============================================================================
