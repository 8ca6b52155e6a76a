----------------------------- MODULE MCTxPool -----------------------------
(***************************************************************************)
(* An instance of TxPool for TLC.                                          *)
(***************************************************************************)
EXTENDS TxPool

CONSTANTS g, b1, b2, b3, t1, r1, r2, alice, carol, native, token

(* g -- b1 -- b2 -- b3 *)
Chain       == {g, b1, b2, b3}
ChainHeight == [b \in Chain |-> CASE b = g -> 0 [] b = b1 -> 1 [] b = b2 -> 2 [] b = b3 -> 3]
ChainParent == [b \in Chain |-> CASE b = b3 -> b2 [] b = b2 -> b1 [] OTHER -> g]
ChainPast   == [b \in Chain |-> {c \in Chain : ChainHeight[c] <= ChainHeight[b]}]

(* A transfer of alice's with two nonces, and two registrations of carol's address. *)
MCTransfer     == {t1}
MCRegistration == {r1, r2}
MCRef    == [t \in MCTransfer |-> g]
MCSender == [t \in MCTransfer |-> alice]
MCKeys   == [t \in MCTransfer \cup MCRegistration |->
               IF t = t1 THEN {<<alice, g, native>>, <<alice, g, token>>} ELSE {<<carol>>}]

(* b1 registers carol, b2 spends for alice. *)
MCBody == [b \in Chain |-> CASE b = b1 -> {r1} [] b = b2 -> {t1} [] OTHER -> {}]
=============================================================================
