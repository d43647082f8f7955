---------------------------- MODULE MCDasUplink ----------------------------
(* Instances of DasUplink for TLC: the mbufs are pairs of a pool and an    *)
(* index, so that NumBufs is all a configuration has to say of them.       *)
EXTENDS DasUplink, TLC

CONSTANTS NumBufs  \* mbufs per RU pool

MCBufs == (0 .. NumRus - 1) \X (1 .. NumBufs)
MCPoolOf == [b \in MCBufs |-> b[1]]

\* Taking the mbufs of a pool lowest index first loses nothing while they
\* have a single owner: they differ in nothing but their name.
LowestFirst == \A b, c \in Bufs :
  (PoolOf[b] = PoolOf[c] /\ c[2] < b[2] /\ pool'[b] < pool[b]) => pool[c] = 0
=============================================================================
