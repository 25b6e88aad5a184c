------------------------------ MODULE MCFraming ------------------------------
(* A small instance of Framing.  "S" and "|" are separators; "x" stands    *)
(* for the characters the code does not look for.                          *)
EXTENDS Framing

MCByte == {"8", "=", "1", "0", "9", "x", "S", "|"}

Begin == <<"8", "=", "x", "S">>
Trailer == <<"1", "0", "=", "x", "S">>
EncryptMethod == <<"9", "8", "=", "|", "S">>
MinQty == <<"1", "1", "0", "=", "|", "S">>

(* A Logon has a second "8="; the other message a second "10=" and, behind *)
(* it, a second "8=".  Both have the other separator in a value.           *)
MCMessages ==
  {Begin \o EncryptMethod \o Trailer,
   Begin \o MinQty \o EncryptMethod \o Trailer}

MCSeparators == <<"S", "|">>

(* They are such messages as the theorems of FramingProofs speak of.       *)
ASSUME MCMessagesWellFormed == \A m \in Messages : WellFormed(m)
=============================================================================
