---------------------------- MODULE MCAriaStream ----------------------------
(***************************************************************************)
(* Texts for TLC: runes that share a byte, and a text that grows.          *)
(***************************************************************************)
EXTENDS AriaStream

CONSTANTS byteA, leadX, contC, contD

Runes   == {<<leadX, contC>>, <<leadX, contD>>}
=============================================================================
