---------------------------- MODULE WriterTenure -----------------------------
(***************************************************************************)
(* What the bridge promises about writers, with no sessions, queues,       *)
(* clocks or threads in it. A tenure is one grant of the writer lease to   *)
(* one connection. Tenures are issued one after another; every mutation of *)
(* the patch is made under one of them; and mutations never go back to an  *)
(* earlier tenure, so two writers' edits are never interleaved. A pairing  *)
(* reset revokes every tenure issued so far.                               *)
(***************************************************************************)
EXTENDS Integers, Sequences

CONSTANT Conns

VARIABLES
  owner,     \* owner[t]: the connection tenure t was issued to
  applied,   \* the latest mutation: its tenure and its connection
  revoked    \* tenures up to this one may not mutate any more

vars == <<owner, applied, revoked>>

NoMutation == [tenure |-> 0, conn |-> 0]

Init == owner = <<>> /\ applied = NoMutation /\ revoked = 0

Issue(c) == owner' = Append(owner, c) /\ UNCHANGED <<applied, revoked>>

Mutate(t) ==
  /\ t \in 1..Len(owner)
  /\ t >= applied.tenure
  /\ t > revoked
  /\ applied' = [tenure |-> t, conn |-> owner[t]]
  /\ UNCHANGED <<owner, revoked>>

Revoke == revoked' = Len(owner) /\ UNCHANGED <<owner, applied>>

Next ==
  \/ \E c \in Conns : Issue(c)
  \/ \E t \in 1..Len(owner) : Mutate(t)
  \/ Revoke

Spec == Init /\ [][Next]_vars
=============================================================================
