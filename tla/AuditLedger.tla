---------------------------- MODULE AuditLedger -----------------------------
(* What an audit log is: records are added at the end, and only the oldest  *)
(* ones ever go.  A limit that is lowered cuts the log in two, and what is  *)
(* then beyond the limit is deleted from its newer end.                     *)
EXTENDS Naturals, Sequences

CONSTANT Entries

VARIABLES
  log,   \* the records within the limit
  old    \* older ones, left by a larger limit

Init == log = <<>> /\ old = <<>>

Add ==
  /\ Len(log') = Len(log) + 1
  /\ log = SubSeq(log', 1, Len(log))
  /\ log'[Len(log')] \in Entries
  /\ UNCHANGED old

\* Rotation deletes a file: everything up to some record.
Forget ==
  /\ Len(log') < Len(log)
  /\ log' = SubSeq(log, Len(log) - Len(log') + 1, Len(log))
  /\ UNCHANGED old

Lower ==
  /\ Len(log') < Len(log)
  /\ old' \o log' = old \o log

Discard ==
  /\ Len(old') < Len(old)
  /\ old' = SubSeq(old, 1, Len(old'))
  /\ UNCHANGED log

Spec == Init /\ [][Add \/ Forget \/ Lower \/ Discard]_<<log, old>>
=============================================================================
