----------------------------- MODULE MCDisplay -----------------------------
(* The instance of Display that TLC checks. *)
EXTENDS Display

MCSizes == {<<1, 2>>, <<2, 2>>, <<3, 3>>}
MCLabels == {<<<<"a">>, 0>>, <<<<"W">>, 1>>}
MCScripts == SeqOf({"a", "W", " ", NL}, 2)
    \cup {<<"a", "a", "W", "a", NL, "W", " ", "a">>, <<"W", "W", " ", NL, "a", "a", "a", " ", "W">>,
          <<"a", " ", " ", NL, " ", "W", "a">>}
MCSlots == {<<1, 0>>, <<1, 1>>, <<2, 0>>}
=============================================================================
