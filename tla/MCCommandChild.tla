---------------------------- MODULE MCCommandChild ----------------------------
(***************************************************************************)
(* Values of the constants for checking CommandChild with TLC.             *)
(***************************************************************************)
EXTENDS CommandChild, TLC

CONSTANTS obs, junk, foreign

MCKind == [l \in Lines |-> CASE l = obs -> "observation"
                             [] l = junk -> "malformed"
                             [] l = foreign -> "not_utf8"]

Here(argv, cwd, timeout, out, err) ==
  [argv |-> argv, cwd |-> cwd, timeout |-> timeout, maxStdout |-> out, maxStderr |-> err]

Good == Here(<<"x">>, None, 1, 2, 1)
MCInvocations ==
  {Good, [Good EXCEPT !.cwd = <<"repo", "work">>], [Good EXCEPT !.cwd = <<"gone">>],
   [Good EXCEPT !.timeout = 0], [Good EXCEPT !.argv = <<>>], [Good EXCEPT !.maxStdout = 0]}

Directories == {<<"repo", "work">>}
Place(parent, removable) ==
  [module |-> <<"lib">>, working |-> <<"home">>, repositories |-> {<<"repo">>},
   directories |-> Directories, parent |-> parent, removable |-> removable]

MCPlaces == {Place(<<"tmp">>, TRUE), Place(<<"tmp">>, FALSE), Place(<<"repo", "tmp">>, TRUE)}
===============================================================================
