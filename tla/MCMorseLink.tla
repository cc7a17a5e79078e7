----------------------------- MODULE MCMorseLink -----------------------------
EXTENDS MorseLink

TableV == {<<".">>, <<"-">>, <<".", "-">>}
==============================================================================
