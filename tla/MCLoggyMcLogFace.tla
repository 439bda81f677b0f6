--------------------------- MODULE MCLoggyMcLogFace ---------------------------
(* Two letters, and formats that fit, have too many or too few directives. *)
EXTENDS LoggyMcLogFace

CONSTANTS a, b

MCFormats == {<<Text>>, <<a>>, <<Text, a, b>>, <<Text, BadLetter>>}
=============================================================================
