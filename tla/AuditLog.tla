------------------------------- MODULE AuditLog -------------------------------
(***************************************************************************)
(* The audit log of tool calls (apps/mcp-server, audit.ts): a file that    *)
(* entries are appended to, and one earlier generation, which a rotation   *)
(* replaces and age expires. Entries are numbered in the order they are    *)
(* written and have sizes; the files belong to one server process at a     *)
(* time, and their operations do not fail.                                 *)
(***************************************************************************)
EXTENDS Integers, Sequences, SequencesExt

CONSTANTS
  Sizes,      \* of entries
  MaxBytes,   \* retention.maxBytes; 0 disables rotation
  CheckBytes, \* bytes appended before the size is checked
  TailBytes,  \* TAIL_BYTES
  Want        \* entries asked for by recent()

\* recent() is only asked for what fits into the tail of a file.
ASSUME AuditAssumption ==
  /\ Sizes \subseteq Nat \ {0} /\ MaxBytes \in Nat /\ Want \in Nat \ {0}
  /\ CheckBytes \in Nat \ {0} /\ (MaxBytes > 0 => CheckBytes <= MaxBytes)
  /\ TailBytes \in Nat
  /\ \E largest \in Sizes : TailBytes > Want * largest /\ \A size \in Sizes : size <= largest

VARIABLES
  log,        \* audit.log
  rotated,    \* audit.log.1
  stale,      \* whether the latter is past its age
  opened,     \* AuditLog.file is set
  sinceCheck, \* AuditLog.sinceCheck
  newest,     \* number of the newest entry
  expired,    \* number of the newest entry that age has expired
  inherited   \* what the process found in the log and has not rotated

auditVars == <<log, rotated, stale, opened, sinceCheck, newest, expired, inherited>>

Bytes(f) ==
  LET first[n \in 0..Len(f)] == IF n = 0 THEN 0 ELSE first[n - 1] + f[n].size
  IN first[Len(f)]

AuditInit ==
  /\ log = <<>> /\ rotated = <<>> /\ stale = "no" /\ opened = "no" /\ sinceCheck = 0
  /\ newest = 0 /\ expired = 0 /\ inherited = 0

\* ensureFile: the first use expires a rotated generation past its age.
Expires == opened = "no" /\ stale = "yes"

Older == IF Expires THEN <<>> ELSE rotated

\* Faulty variant: the log is emptied.
Emptied(f) == <<>>

RotatedTo(f) == f

\* record(): append, then rotate a log found too large. The rename replaces the
\* generation before, so whether that is expired first makes no difference.
Record ==
  \E size \in Sizes :
    LET l == Append(log, [n |-> newest + 1, size |-> size])
        rotates == MaxBytes > 0 /\ sinceCheck + size >= CheckBytes /\ Bytes(l) > MaxBytes
    IN
    /\ newest' = newest + 1
    /\ opened' = "yes"
    /\ expired' = IF Expires THEN Last(rotated).n ELSE expired
    /\ sinceCheck' = IF MaxBytes > 0 /\ sinceCheck + size >= CheckBytes THEN 0 ELSE sinceCheck + size
    /\ IF rotates
       THEN log' = <<>> /\ rotated' = RotatedTo(l) /\ stale' = "no" /\ inherited' = 0
       ELSE /\ log' = l /\ rotated' = Older
            /\ stale' = IF Expires THEN "no" ELSE stale
            /\ UNCHANGED inherited

\* recent() opens the log as well, before it reads.
OpenToRead ==
  /\ opened = "no" /\ opened' = "yes"
  /\ rotated' = Older
  /\ stale' = IF Expires THEN "no" ELSE stale
  /\ expired' = IF Expires THEN Last(rotated).n ELSE expired
  /\ UNCHANGED <<log, sinceCheck, newest, inherited>>

\* The rotated generation passes its age.
Ages ==
  /\ rotated # <<>> /\ stale = "no"
  /\ stale' = "yes"
  /\ UNCHANGED <<log, rotated, opened, sinceCheck, newest, expired, inherited>>

\* The server process ends, and another is started.
AuditRestarts ==
  /\ opened' = "no" /\ sinceCheck' = 0
  /\ inherited' = Bytes(log)
  /\ UNCHANGED <<log, rotated, stale, newest, expired>>

-----------------------------------------------------------------------------
(* Reading *)

\* tailLines: of a file longer than the tail, what follows the first line break.
TailLines(f) ==
  IF Bytes(f) <= TailBytes THEN f
  ELSE LET from == CHOOSE k \in DOMAIN f :
                     /\ Bytes(SubSeq(f, k, Len(f))) >= TailBytes
                     /\ k = Len(f) \/ Bytes(SubSeq(f, k + 1, Len(f))) < TailBytes
       IN SubSeq(f, from + 1, Len(f))

\* recent(Want): newest last, topped up from the generation before.
Recent ==
  LET live  == TailLines(log)
      lines == IF Len(live) < Want THEN TailLines(Older) \o live ELSE live
  IN SubSeq(lines, IF Len(lines) > Want THEN Len(lines) - Want + 1 ELSE 1, Len(lines))

-----------------------------------------------------------------------------
\* The entries kept are the latest ones, in their order.
Unbroken(f) == \A k \in DOMAIN f : f[k].n = newest - Len(f) + k

\* The comments on the class and on recent(): the view is the latest entries without a
\* gap, and it is not blanked by a rotation: apart from what age expired, as many
\* bytes of history as the limit are kept.
RecentHistory ==
  LET kept == Older \o log
      view == Recent
  IN
  /\ Unbroken(kept) /\ Unbroken(view)
  /\ Len(view) = IF Len(kept) < Want THEN Len(kept) ELSE Want
  /\ newest - Len(kept) > (IF Expires THEN Last(rotated).n ELSE expired) => Bytes(kept) >= MaxBytes

\* The comment on sinceCheck: the check of the size is timely. Past what a process
\* found there, the log exceeds its limit by less than a check's interval.
LogBounded ==
  MaxBytes > 0 =>
    /\ sinceCheck < CheckBytes
    /\ Bytes(log) - sinceCheck <= (IF inherited > MaxBytes THEN inherited ELSE MaxBytes)

=============================================================================
