------------------------------ MODULE MCInstall ------------------------------
(* What may go wrong together in each configuration.                          *)
EXTENDS Install

Separate == {{"step"}, {"kill"}, {"crash", "foreign"}}
Failing  == {{"step"}}
=============================================================================
