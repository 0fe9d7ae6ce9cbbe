------------------------------ MODULE FirstRule ------------------------------
(* A chain of if / elif / else as a sequence of rules: the first rule that    *)
(* applies decides.  Every chain ends in a rule that always applies.          *)
EXTENDS Naturals, Sequences

Rule(when, then) == [when |-> when, then |-> then]
Otherwise(then) == Rule(TRUE, then)

First(rules) ==
  rules[CHOOSE i \in DOMAIN rules :
          rules[i].when /\ \A j \in 1..(i-1) : ~rules[j].when].then
=============================================================================
