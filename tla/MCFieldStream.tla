---------------------------- MODULE MCFieldStream ----------------------------
(***************************************************************************)
(* Two texts, one of them empty, and a file of up to five bytes.          *)
(***************************************************************************)
EXTENDS FieldStream

MCTexts == <<4, 0>>
===============================================================================
