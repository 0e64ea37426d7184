------------------------------ MODULE FollowerLog ------------------------------
(***************************************************************************)
(* What the log of a follower promises, whatever it keeps its entries in:  *)
(* the terms of consecutive indexes, of which a message replaces an end    *)
(* that is not committed, a snapshot forgets a beginning that has been     *)
(* applied, and the end of the process all but a snapshot.                 *)
(***************************************************************************)
EXTENDS Integers

CONSTANTS Terms, MaxIndex

VARIABLES log, commit, applied    \* log: a function from indexes to terms

vars == <<log, commit, applied>>

Base(f) == CHOOSE i \in DOMAIN f : \A j \in DOMAIN f : i <= j

Restricted(f, S) == [i \in S |-> f[i]]

Init ==
  /\ log = [i \in {0} |-> 0]
  /\ commit = 0
  /\ applied = 0

(* A message has given the log the n entries after prev: either it had all *)
(* of them, or what followed the first that it lacked is gone.             *)
Given(old, new, prev, n) ==
  LET held(i) == i \in DOMAIN old /\ i \in DOMAIN new /\ old[i] = new[i]
  IN  /\ prev + 1 .. prev + n \subseteq DOMAIN new
      /\ \A i \in DOMAIN old : i <= prev \/ i <= commit => held(i)
      /\ \/ new = old
         \/ /\ DOMAIN new = Base(old) .. prev + n
            /\ \E i \in prev + 1 .. prev + n : ~held(i)

Accept(old, new) ==
  /\ UNCHANGED applied
  /\ \E prev \in DOMAIN old, n \in 0 .. MaxIndex :
       commit' \in 0 .. prev + n /\ Given(old, new, prev, n)

Apply(old, new) ==
  /\ applied' \in (applied + 1 .. commit) \cap DOMAIN old
  /\ UNCHANGED commit
  /\ new = old

Compact(old, new) ==
  /\ UNCHANGED <<commit, applied>>
  /\ \E i \in DOMAIN old :
       i <= applied /\ new = Restricted(old, {j \in DOMAIN old : i <= j})

Rebuild(new) ==
  /\ applied' = commit'
  /\ DOMAIN new = {commit'}

Step(old, new) ==
  \/ Accept(old, new)
  \/ Apply(old, new)
  \/ Compact(old, new)
  \/ Rebuild(new)

(* The bound names make TLC evaluate the log once in a step.              *)
Next == \E old \in {log}, new \in {log'} : Step(old, new)

Spec == Init /\ [][Next]_vars
=============================================================================
