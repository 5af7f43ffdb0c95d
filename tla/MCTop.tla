------------------------------- MODULE MCTop -------------------------------
(* An instance of Top: lines that are counted, among them one that just     *)
(* fits and one that does not but ends like a frame, and lines that are not *)
(* counted.                                                                 *)
EXTENDS Top

MCLines ==
  {<<"0", " ", "f">>, <<"1", " ", "g">>, <<"#", "0">>, <<"0", " ", "f", "f", "f">>,
   <<"g", "g", "g", "g", "g", "g", "0", " ", "f">>}

MCErrTexts == {<<NL, "x", NL, NL>>}
============================================================================
