------------------------------- MODULE MCViews ------------------------------
(* Short texts of letters, spaces and delimiters, and rows of digits. *)
EXTENDS Views

CONSTANTS MaxText, MaxDigits

MCTexts ==
  BoundedSeq({"a", "A", " ", ","}, MaxText) \cup BoundedSeq({"0", "1", "2", "5", "6", "a"}, MaxDigits)
=============================================================================
