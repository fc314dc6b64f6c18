----------------------------- MODULE MCTSDeque -----------------------------
(* Instances of TSDeque for model checking. *)
EXTENDS TSDeque

\* messageCount is -1, everything, unless the application says otherwise.
NoneOneOrAll == {0, 1, 4}
=============================================================================
