------------------------------ MODULE MCLedger ------------------------------
(***************************************************************************)
(* Instances of Ledger for TLC.                                            *)
(***************************************************************************)
EXTENDS Ledger

CONSTANTS g, b1, b2, b3, f1, alice, bob, carol, Token

(*   g -- b1 -- b2 -- b3
      \
       f1                  *)
Forked        == {g, b1, b2, b3, f1}
ForkedParent  == [b \in Forked |-> CASE b = b3 -> b2 [] b = b2 -> b1 [] OTHER -> g]
ForkedHeight  == [b \in Forked |-> CASE b = g -> 0 [] b \in {b1, f1} -> 1 [] b = b2 -> 2 [] b = b3 -> 3]

People == {alice, bob, carol}

(* alice and bob have accounts of which one transfer takes the most; carol has none. *)
Start == [s \in {Base, Token} |->
            [a \in People |-> IF a = carol THEN Absent
                              ELSE IF s = Token /\ a = bob THEN Absent
                              ELSE [balance |-> 4, nonce |-> 0]]]

Pay(from, to, half, amount, fee, burn) ==
    [sender |-> from, receiver |-> to, ring |-> half \cup {to}, half |-> half,
     amount |-> amount, fee |-> fee, burn |-> burn]

Transfer(r, p)       == [ref |-> r, payloads |-> [s \in {Base} |-> p]]
TokenTransfer(r, p, q) == [ref |-> r, payloads |-> [s \in {Base, Token} |-> IF s = Base THEN p ELSE q]]

Register(a) == [address |-> a]

(* Most of alice's balance to bob, and bob's against every block that matters; his
   second payment hides behind carol once she is registered. *)
BaseTransfers ==
    {Transfer(g, Pay(alice, bob, {alice}, 2, 1, 0)), Transfer(g, Pay(bob, alice, {bob}, 3, 1, 0))}
    \cup {Transfer(r, Pay(bob, alice, {bob, carol}, 2, 1, 1)) : r \in {b1, f1}}

(* alice's tokens to bob, and bob's back. *)
TokenTransfers ==
    {TokenTransfer(g, Pay(alice, bob, {alice}, 0, 1, 0), Pay(alice, bob, {alice}, 3, 0, 0)),
     TokenTransfer(b1, Pay(bob, alice, {bob}, 0, 1, 0), Pay(bob, alice, {bob}, 2, 0, 0))}

(* bob, who has no tokens, can still send none. *)
ZeroTransfer == TokenTransfer(g, Pay(bob, alice, {bob}, 0, 1, 0), Pay(bob, alice, {bob}, 0, 0, 0))

(* bob has an account already. *)
Wallets      == BaseTransfers \cup TokenTransfers \cup {Register(carol), Register(bob)}
TokenWallets == TokenTransfers \cup {ZeroTransfer}

(* A second final miniblock may come before the soft fork only; carol has an account
   if the block registers her. *)
Coinbases == {[integrator |-> alice, voters |-> <<bob>>, finals |-> 1],
              [integrator |-> carol, voters |-> <<>>, finals |-> 2]}
=============================================================================
