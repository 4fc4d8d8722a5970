---------------------------- MODULE MCSqlConsole ---------------------------
EXTENDS SqlConsole

Keyboard ==
  {<<"'">>, <<"\"">>, <<"-">>, <<"-", "-", Step>>, <<"/">>, <<"/", "*">>, <<"*", "/">>,
   <<"$">>, <<"$", Letter, Digit, "$">>, <<Letter>>, <<";">>, <<NewLine>>}
=============================================================================
