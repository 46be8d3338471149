------------------------------ MODULE RowLocks ------------------------------
(***************************************************************************)
(* The part of PostgreSQL that the services rely on.  Every service method *)
(* runs inside one `prisma.$transaction(async tx => ...)` at READ          *)
(* COMMITTED.  A transaction takes row locks one after the other, with     *)
(* SELECT ... FOR UPDATE or implicitly with UPDATE, keeps them until it    *)
(* ends, and its writes become visible to the others all at once, when it  *)
(* commits.  A plain SELECT takes no lock and sees the latest commits.     *)
(*                                                                         *)
(* The database itself is not under src/: these definitions are modelled   *)
(* from how the services use it.                                           *)
(***************************************************************************)
EXTENDS Naturals, FiniteSets

CONSTANTS
    Requests,   \* the calls that run concurrently, one transaction each
    Nobody      \* the holder of a row that no transaction has locked

ASSUME RequestsAssumption == Nobody \notin Requests

VARIABLE
    holder      \* holder[row]: the request whose transaction has locked row

(* No row of the set is locked when the system starts.                     *)
LocksInit(rows) == holder = [row \in rows |-> Nobody]

LocksTypeOK(rows) == holder \in [rows -> Requests \cup {Nobody}]

(* Nobody else holds row: a lock is granted at once to the transaction     *)
(* that already has it.                                                    *)
Grantable(r, row) == holder[row] \in {Nobody, r}

(* The locks of `rows` are granted to r.                                   *)
Acquire(r, rows) ==
    /\ \A row \in rows : Grantable(r, row)
    /\ holder' = [row \in DOMAIN holder |-> IF row \in rows THEN r ELSE holder[row]]

(* Commit or rollback: every lock of r is given back.                      *)
ReleaseAll(r) ==
    holder' = [row \in DOMAIN holder |->
                 IF holder[row] = r THEN Nobody ELSE holder[row]]

(* r, which asks for `rows` next, has to wait for s.                       *)
WaitsFor(r, rows, s) == r # s /\ \E row \in rows : holder[row] = s

(* A set of requests each of which waits for another one of the set: the   *)
(* situation PostgreSQL resolves by aborting one of them.                  *)
WaitCycle(wanted) ==
    \E group \in (SUBSET Requests) \ {{}} :
        \A r \in group : \E s \in group : WaitsFor(r, wanted[r], s)
=============================================================================
