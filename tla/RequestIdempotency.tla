------------------------- MODULE RequestIdempotency -------------------------
(***************************************************************************)
(* The table request_idempotency of app/signal_store.py, for one operation *)
(* name: a register that binds an Idempotency-Key to the body of the first *)
(* request that used it, and later to the answer that request was given.   *)
(* The operators are the three transactions the store offers; each is the  *)
(* whole of one BEGIN IMMEDIATE transaction.  A body stands for its        *)
(* canonical SHA-256 hash: equal bodies, equal hashes.                     *)
(***************************************************************************)
CONSTANTS Key,   \* the Idempotency-Key header values clients use
          None   \* the absence of a value (a NULL column)

\* No row, a reservation, and a stored answer (a CHECK of the table).
RowOver(Body, Answer) ==
  [status : {"absent"}, body : {None}, answer : {None}]
    \cup [status : {"pending"}, body : Body, answer : {None}]
    \cup [status : {"completed"}, body : Body, answer : Answer]

RegisterOver(Body, Answer) == [Key -> RowOver(Body, Answer)]

NoRow == [status |-> "absent", body |-> None, answer |-> None]

EmptyRegister == [k \in Key |-> NoRow]

\* Mutants: a pending row, or a completed one, is taken for a free one.
MayBeginOverPending(rows, k) == rows[k].status # "completed"
MayBeginOverCompleted(rows, k) == rows[k].status # "pending"

\* begin_idempotent_request inserts a row only for a key it has never seen;
\* every other outcome (conflict, in progress, replay) leaves the table alone.
MayBegin(rows, k) == rows[k].status = "absent"

Begun(rows, k, b) ==
  [rows EXCEPT ![k] = [status |-> "pending", body |-> b, answer |-> None]]

\* complete_idempotent_request: raises without a matching row, and keeps the
\* answer of a row that is already completed.
MayComplete(rows, k, b) == rows[k].status # "absent" /\ rows[k].body = b

Completed(rows, k, b, a) ==
  IF MayComplete(rows, k, b) /\ rows[k].status = "pending"
  THEN [rows EXCEPT ![k] = [status |-> "completed", body |-> b, answer |-> a]]
  ELSE rows

\* Mutant: the abort leaves the reservation behind.
AbortedNever(rows, k, b) == rows

\* abort_idempotent_request: deletes the row only while it is pending, and
\* only for the body that reserved it.
Aborted(rows, k, b) ==
  IF rows[k].status = "pending" /\ rows[k].body = b
  THEN [rows EXCEPT ![k] = NoRow]
  ELSE rows
=============================================================================
