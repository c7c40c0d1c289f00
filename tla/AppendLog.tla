----------------------------- MODULE AppendLog -----------------------------
(***************************************************************************)
(* What a bucket promises: a list that only grows.  A reader looks at its  *)
(* length once; whatever it reads below that length later is the entry     *)
(* that was appended there.                                                *)
(***************************************************************************)
EXTENDS Integers, Sequences

CONSTANTS Value, Reader, Junk

VARIABLES
  log,      \* what has been appended
  bound,    \* bound[r], the length reader r has seen
  got       \* got[r], the position reader r has read last, and what it got

vars == <<log, bound, got>>

Init ==
  /\ log = <<>>
  /\ bound = [r \in Reader |-> 0]
  /\ got = [r \in Reader |-> <<0, Junk>>]

AppendEntry(x) ==
  /\ log' = Append(log, x)
  /\ UNCHANGED <<bound, got>>

Look(r) ==
  /\ bound' = [bound EXCEPT ![r] = Len(log)]
  /\ UNCHANGED <<log, got>>

Read(r) ==
  /\ \E i \in 1 .. bound[r] : got' = [got EXCEPT ![r] = <<i, log[i]>>]
  /\ UNCHANGED <<log, bound>>

Next ==
  \/ \E x \in Value : AppendEntry(x)
  \/ \E r \in Reader : Look(r) \/ Read(r)

Spec == Init /\ [][Next]_vars

=============================================================================
