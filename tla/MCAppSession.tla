---------------------------- MODULE MCAppSession ----------------------------
(* Model values for AppSession; keys are interchangeable, and so are tokens. *)
EXTENDS AppSession, TLC

Symmetry == Permutations(Keys) \cup Permutations(Tokens)
=============================================================================
