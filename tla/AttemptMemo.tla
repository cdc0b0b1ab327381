---------------------------- MODULE AttemptMemo ----------------------------
(***************************************************************************)
(* The bounded attempt memo of a queue (QueueRecord::memo): a sequence of  *)
(* entries, oldest first, each with the attempt it answers.                *)
(***************************************************************************)
EXTENDS Naturals, Sequences

CONSTANT MaxMemo    \* limits.max_attempt_memo

ASSUME MemoAssumption == MaxMemo \in Nat

\* The entries that answer an attempt.
find_attempt(m, attempt) == {i \in DOMAIN m : m[i].attempt = attempt}

\* Mutant: an entry of the same attempt is kept beside the new one.
remember_again(m, entry) ==
  IF MaxMemo = 0 THEN m ELSE Append(IF Len(m) > MaxMemo THEN Tail(m) ELSE m, entry)

\* An entry of the same attempt is overwritten in place; a full memo loses its
\* oldest entry.
remember(m, entry) ==
  IF MaxMemo = 0 THEN m
  ELSE IF find_attempt(m, entry.attempt) # {}
       THEN [i \in DOMAIN m |-> IF m[i].attempt = entry.attempt THEN entry ELSE m[i]]
       ELSE Append(IF Len(m) >= MaxMemo THEN Tail(m) ELSE m, entry)
=============================================================================
