------------------------------ MODULE MCFiles ------------------------------
(* Instances of Files for TLC: a file doc and a directory sub.             *)
EXTENDS Files, TLC

CONSTANTS doc, sub

\* Calls that make and remove names in a directory that comes and goes.
CallsDir ==
  {<<"create", <<doc>>>>, <<"mkdir", <<sub>>>>, <<"link", <<doc>>, <<sub, doc>>>>,
   <<"unlink", <<doc>>>>, <<"unlink", <<sub>>>>, <<"chdir", <<sub>>>>,
   <<"open", <<doc>>>>}

AlikeProc == Permutations(Proc) \cup Permutations(File) \cup Permutations(Fd)
=============================================================================
