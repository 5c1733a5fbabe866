----------------------------- MODULE MCSelfUpdate -----------------------------
(* Releases in the order in which the project would publish them.             *)
EXTENDS SelfUpdate

Number(n) == [numeric |-> TRUE, value |-> n]
Name(n)   == [numeric |-> FALSE, value |-> n]   \* "rc" is 2

Release(a, b, c)         == [nums |-> <<a, b, c>>, pre |-> <<>>]
Candidate(a, b, c, pre)  == [nums |-> <<a, b, c>>, pre |-> pre]

\* 0.2.9, 0.3.0-7, 0.3.0-rc.2, 0.3.0-rc.10, 0.3.0, 0.10.0
SixReleases ==
  << Release(0, 2, 9), Candidate(0, 3, 0, <<Number(7)>>),
     Candidate(0, 3, 0, <<Name(2), Number(2)>>), Candidate(0, 3, 0, <<Name(2), Number(10)>>),
     Release(0, 3, 0), Release(0, 10, 0) >>

\* 0.3.0-rc.2, 0.3.0, 0.10.0
ThreeReleases ==
  << Candidate(0, 3, 0, <<Name(2), Number(2)>>), Release(0, 3, 0), Release(0, 10, 0) >>
=============================================================================
