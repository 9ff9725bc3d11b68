------------------------------- MODULE Loops --------------------------------
(***************************************************************************)
(* The loops of easylogging++, over levels, lists, specifiers or loggers:  *)
(* FoldLeft of the community modules, which goes through sets of indexes,  *)
(* as a recursive function, which can be reasoned about.                   *)
(***************************************************************************)
EXTENDS Naturals, Sequences

\* What op makes of base and s[1], then of that and s[2], and so on. TLC evaluates a value
\* where it is first used, but both of a pair at once: without the pair all rounds would
\* be evaluated inside of each other.
Loop(op(_, _), base, s) ==
  LET f[i \in 0..Len(s)] ==
        IF i = 0 THEN base ELSE LET d == f[i - 1] IN <<d, op(d, s[i])>>[2]
  IN  f[Len(s)]

=============================================================================
