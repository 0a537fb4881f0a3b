------------------------------- MODULE MCOAuth -------------------------------
(* OAuth for TLC: requests, verifiers and generated ids are interchangeable, *)
(* and only safety is checked.                                               *)
EXTENDS OAuth, TLC

\* One that may be registered, and one that may not.
MCUris == {[scheme |-> "http", begins |-> "localhost"], [scheme |-> "http", begins |-> "other"]}

Symmetry == Permutations(Handlers) \cup Permutations(Verifiers)
              \cup Permutations(Tokens) \cup Permutations(Codes)
==============================================================================
