----------------------------- MODULE WriterLease -----------------------------
(***************************************************************************)
(* The single writer lease of one Rack instance: LeaseManager of           *)
(* core/lease.cpp, as operators on the record the manager guards with its  *)
(* mutex. Each method runs under that mutex, so each is one operator.      *)
(*                                                                         *)
(* A lease id is a uuid4 in the code; here it is the number of leases      *)
(* granted so far, which keeps the one thing the code relies on: a grant   *)
(* never repeats an earlier id.                                            *)
(***************************************************************************)
EXTENDS Integers

LeaseHolder(Conns) == [leaseId : Nat, conn : Conns \cup {0}, expires : Nat]

\* LeaseHolder(): the default-constructed record.
NoHolder == [leaseId |-> 0, conn |-> 0, expires |-> 0]

\* held: set together with a lease id, cleared only with the whole record.
Held(h) == h.leaseId # 0

\* holder(now).held: a lease past its expiry reads as free although nothing
\* has cleared the record.
HeldAt(h, now) == Held(h) /\ now < h.expires

\* isWriter(conn, now), and the gate the reader and the pump apply.
IsWriter(h, c, now) == HeldAt(h, now) /\ h.conn = c

\* acquire(): refused only while another connection's lease is unexpired.
CanAcquire(h, c, now) == ~HeldAt(h, now) \/ h.conn = c

\* The same lease with its expiry counted from now.
Extended(h, now, ttl) == [leaseId |-> h.leaseId, conn |-> h.conn, expires |-> now + ttl]

\* The record after a successful acquire(); `fresh` is the id a new grant gets.
\* Re-acquiring one's own unexpired lease extends it under the same id.
Acquired(h, c, now, ttl, fresh) ==
  IF IsWriter(h, c, now)
    THEN Extended(h, now, ttl)
    ELSE [leaseId |-> fresh, conn |-> c, expires |-> now + ttl]

\* Whether acquire() issues a new id rather than extending the old lease.
IsNewGrant(h, c, now) == CanAcquire(h, c, now) /\ ~IsWriter(h, c, now)

Matches(h, c, id) == Held(h) /\ h.conn = c /\ h.leaseId = id

\* renew(): extends a matching lease that has not expired, else changes nothing.
Renewed(h, c, id, now, ttl) ==
  IF Matches(h, c, id) /\ now < h.expires THEN Extended(h, now, ttl) ELSE h

\* release(): frees a matching lease, expired or not.
Released(h, c, id) == IF Matches(h, c, id) THEN NoHolder ELSE h

\* onDisconnect(): frees whatever lease the connection holds.
Dropped(h, c) == IF Held(h) /\ h.conn = c THEN NoHolder ELSE h
=============================================================================
