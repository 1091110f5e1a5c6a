------------------------------ MODULE MCSession ------------------------------
(* Small instances of Session for TLC. *)
EXTENDS Session, TLC

CONSTANTS c1, c2

TwoClients == {c1, c2}

(* Nothing or one digit follows a text. *)
OneDigit == { [scale |-> 1, digits |-> 0], [scale |-> 10, digits |-> 7] }

(* The server's buffer is one and a half GB, and a GB has 20 bytes.  c1    *)
(* always asks for one byte, which may be read as 17; c2 may ask for two,  *)
(* which may be read as 27, or for more than the buffer has.               *)
OneAsksTooMuch == (c1 :> {1}) @@ (c2 :> {2, 35})

(* Either client may ask for more than the buffer has. *)
BothAskTooMuch == [c \in TwoClients |-> {2, 35}]

(* Clients that may ask for the same sizes are interchangeable. *)
Symmetry == Permutations(TwoClients)
=============================================================================
