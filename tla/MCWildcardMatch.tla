-------------------------- MODULE MCWildcardMatch --------------------------
(***************************************************************************)
(* All patterns and names of bounded length over two letters and the two   *)
(* wildcards, which may occur in names, too.                               *)
(***************************************************************************)
EXTENDS WildcardMatch, SequencesExt

MCChars == {"a", "b", "*", "?"}
ShortPatterns == BoundedSeq({"a", "b", "*", "?"}, 4)
ShortTexts == BoundedSeq({"a", "b", "*"}, 5)
=============================================================================
