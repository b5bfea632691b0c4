---------------------------- MODULE MCTextReader ----------------------------
EXTENDS TextReader

(* Files of a letter and the two line ends. *)
FewFiles  == UNION {[1..n -> {97, 10, 13}] : n \in 0..4}
OneChoice == {[policy |-> "replace", fallback |-> "utf8", includeBinary |-> FALSE,
               taken |-> 9]}
=============================================================================
