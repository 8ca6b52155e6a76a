----------------------------- MODULE MCMining -----------------------------
(***************************************************************************)
(* An instance of Mining for TLC.                                          *)
(***************************************************************************)
EXTENDS Mining

CONSTANTS g, n1, o1, no, oo, t0, t1, t2, r, alice, carol

(* A block of another node and one of this node on g, and one of this node's on either. *)
Blocks      == {g, n1, o1, no, oo}
BlockHeight == [b \in Blocks |-> CASE b = g -> 0 [] b \in {n1, o1} -> 1 [] OTHER -> 2]
BlockParent == [b \in Blocks |-> CASE b = no -> n1 [] b = oo -> o1 [] OTHER -> g]
BlockPast   == [b \in Blocks |-> {g, BlockParent[b], b}]
MCOwn       == {o1, no, oo}

(* Transfers of alice's against g, which have one nonce; t0 reaches only the other node,
   the registration only the pools of WithRegistration. *)
MCTransfer     == {t0, t1, t2}
MCRegistration == {r}
MCPooled       == {t1, t2}
WithRegistration == Tx \ {t0}
MCAddress == [x \in MCRegistration |-> carol]
MCRef     == [t \in MCTransfer |-> g]
MCSender  == [t \in MCTransfer |-> alice]
MCHalf    == [t \in MCTransfer |-> {alice}]

(* The other node's block registers carol and spends for alice. *)
MCNetBody == [b \in Blocks \ MCOwn |-> IF b = n1 THEN {r, t0} ELSE {}]
=============================================================================
