----------------------------- MODULE FineLedger -----------------------------
(***************************************************************************)
(* What the register of fines promises, whoever calls it and however it    *)
(* stores its data: a book that only grows.  The n-th entry is the fine    *)
(* with number n; it is opened in state PENDING, what was written when it  *)
(* was opened is never altered, and its log of states only gains states,   *)
(* never the one it ends with.                                             *)
(***************************************************************************)
EXTENDS Naturals, Sequences

CONSTANTS
  Facts,     \* what may be written when a fine is opened
  States     \* the states of a fine

VARIABLE book

LedgerTypeOK == book \in Seq([facts: Facts, log: Seq(States)])

Init == book = <<>>

Open(facts) == book' = Append(book, [facts |-> facts, log |-> <<"PENDING">>])

Move(n, s) ==
  /\ book[n].log[Len(book[n].log)] # s
  /\ book' = [book EXCEPT ![n] = [facts |-> @.facts, log |-> Append(@.log, s)]]

Next ==
  \/ \E facts \in Facts : Open(facts)
  \/ \E n \in DOMAIN book, s \in States : Move(n, s)

Spec == Init /\ [][Next]_book
=============================================================================
