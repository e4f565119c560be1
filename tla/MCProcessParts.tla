--------------------------- MODULE MCProcessParts ---------------------------
(***************************************************************************)
(* The structured constants of the other parts.                            *)
(***************************************************************************)
EXTENDS ProcessParts, MCAdminConfig

MCRatios == {<<0, 1>>, <<1, 4>>, <<1, 2>>, <<2, 3>>, <<1, 1>>}

MCWords == {<<"a">>, <<"a", "a">>}
MCSeparators == {"|", ":", "/"}
MCCharacters == {"a", "config"} \cup MCSeparators
=============================================================================
