-------------------------- MODULE MC_TalkgroupFile --------------------------
EXTENDS TalkgroupFile

\* Talkgroup files: the full header, one without Priority (default 1), one
\* whose first column is not Decimal, one with an unknown column, and an
\* empty file.
MC_TgHeaders ==
  {<<"Decimal", "Mode", "Description", "Priority">>,
   <<"Decimal", "Mode", "Description">>,
   <<"Mode", "Decimal", "Description">>,
   <<"Decimal", "Mode", "Description", "Enable">>,
   <<>>}

\* Channel files: with and without Enable, and a wrong first column.
MC_ChHeaders ==
  {<<"TG Number", "Frequency", "Enable">>,
   <<"TG Number", "Frequency">>,
   <<"Frequency", "TG Number">>}
=============================================================================
