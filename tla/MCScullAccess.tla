---------------------------- MODULE MCScullAccess ----------------------------
(* Small instances of ScullAccess for TLC.                                 *)
EXTENDS ScullAccess, TLC

CONSTANTS p1, p2, p3, a, u, v, t, s

One == {<<a>>}
Symmetry == Permutations({p2, p3})

(* A user; another, with the first one's effective id, who keeps the first *)
(* one out but is let in by it; and root.                                  *)
Plain  == [uid |-> u, euid |-> u, capable |-> FALSE, tty |-> t]
People == {Plain,
           [uid |-> v, euid |-> u, capable |-> FALSE, tty |-> t],
           [uid |-> v, euid |-> v, capable |-> TRUE, tty |-> s]}

(* One process, the plain user's, uses the memory; the others, whoever     *)
(* they are, open and close beside it.                                     *)
OneUses == /\ AccessInit /\ cred[p1] = Plain
           /\ [][\E p \in Proc : Opens(p) \/ (p = p1 /\ Uses(p))]_avars
=============================================================================
