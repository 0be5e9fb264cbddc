------------------------------ MODULE RowLocks ------------------------------
(***************************************************************************)
(* PostgreSQL's row locks as prisma.service.ts's runInTransaction meets    *)
(* them. runInTransaction passes no isolation level, so every transaction  *)
(* is READ COMMITTED: a plain read takes no lock and sees what committed   *)
(* before it, an UPDATE or an INSERT of a unique key locks its row until   *)
(* the transaction ends, and one that finds the row locked waits and then  *)
(* works on the row's newest version.                                      *)
(*                                                                         *)
(* A lock table is a function from rows to the request that locks them.    *)
(***************************************************************************)

CONSTANT NoRequest  \* the owner of a row nobody locks

Unlocked(rows) == [row \in rows |-> NoRequest]

\* r may write the row at once: nobody else has written it in an open transaction.
Free(lock, row, r) == lock[row] \in {NoRequest, r}

Take(lock, row, r) == [lock EXCEPT ![row] = r]

\* Commit and rollback both end every lock of the transaction.
Release(lock, r) ==
  [row \in DOMAIN lock |-> IF lock[row] = r THEN NoRequest ELSE lock[row]]
=============================================================================
