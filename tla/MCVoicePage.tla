---------------------------- MODULE MCVoicePage ----------------------------
\* The voice page on a small instance: "hi" grows into "hi there".
EXTENDS VoicePage, TLC

CONSTANTS hi, hiThere, tHi, tHiThere, renamed1, renamed2, official

MCContents == {hi, hiThere}
MCTitles == {tHi, tHiThere, renamed1, renamed2, official}
MCHeading == (hi :> tHi) @@ (hiThere :> tHiThere)
MCGrows == {<<hi, hiThere>>}
MCExtends == {<<tHi, tHiThere>>}
=============================================================================
