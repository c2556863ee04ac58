------------------------------- MODULE MCCompile -------------------------------
(* Two of the nine flags, the ones that get_flags confuses, and numbers of  *)
(* one bit for the 64 of an unsigned long long.                             *)
EXTENDS Compile

MCFlags == {"caseless", "som_leftmost"}
================================================================================
