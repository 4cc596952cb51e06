------------------------ MODULE MCDataPreprocessor ------------------------
(* Small instances of DataPreprocessor for TLC.                             *)
EXTENDS DataPreprocessor

CONSTANTS w1, w2, w3

(* A file with a short line between two long ones, an empty one, a shorter  *)
(* one: a flag or a line left over from a file would show in the next.      *)
ThreeFiles == <<<<TRUE, FALSE, TRUE>>, <<>>, <<FALSE, TRUE>>>>
=============================================================================
