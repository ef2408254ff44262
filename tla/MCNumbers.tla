----------------------------- MODULE MCNumbers -----------------------------
(* A base of two primes, digits and words scaled down together: a word holds *)
(* fewer digits than a sex, as in the code.                                  *)
EXTENDS Numbers

Lit(ints, fracs) == [ints |-> ints, fracs |-> fracs]
MCLiterals ==
  {Lit(<<n>>, << >>) : n \in {0, 3, 4, 7}}
  \cup {Lit(<<0>>, <<3>>), Lit(<<5>>, <<5, 2>>), Lit(<<1, 0>>, << >>), Lit(<<5, 5>>, <<4>>), Lit(<<0>>, <<0, 0, 1>>), Lit(<<2, 0, 4>>, << >>)}
MCRats == {<<1, 5>>, <<-3, 4>>, <<0, 1>>, <<7, 1>>}
MCWords == {<< >>, << <<"a">> >>, << <<"b">>, <<"c">> >>}
MCPrimes == {2, 3}
=============================================================================
