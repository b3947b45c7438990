------------------------------ MODULE JobRows ------------------------------
(***************************************************************************)
(* Rows of the jobs table of the memories database                         *)
(* (codex-rs/state/src/runtime/memories.rs), as far as all kinds of job    *)
(* share them.  An ownership token is the worker that holds it.  Time      *)
(* appears as what it does: a lease or a backoff is over or it is not.     *)
(***************************************************************************)
NoToken == "none"
NoRow == [status |-> "none", token |-> NoToken, lease |-> FALSE, backoff |-> FALSE]

Running(row) == row.status = "running"
Leased(row) == Running(row) /\ row.lease
Owns(w, row) == Running(row) /\ row.token = w

\* A claim replaces the token and starts a lease.
RunBy(w) == [status |-> "running", token |-> w, lease |-> TRUE, backoff |-> FALSE]

\* A result ends the lease; an error also starts a backoff.
Ended(row, status) == [row EXCEPT !.status = status, !.lease = FALSE]
Errored(row) == [Ended(row, "error") EXCEPT !.backoff = TRUE]
=============================================================================
