---------------------------- MODULE TicketCustody ----------------------------
(***************************************************************************)
(* What the tickets held by grab.cisum are for, and how that may change:   *)
(* the promise to fans and to shows that GrabCisum implements.  Each token *)
(* type has a pot (prizes open to be won), an escrow (stakes to be burnt   *)
(* or refunded) and a stray part nobody has a claim on.                    *)
(***************************************************************************)
EXTENDS Integers

CONSTANT Nids

VARIABLES pot, escrow, stray

custody == <<pot, escrow, stray>>

TypeOK ==
  /\ pot \in [Nids -> Nat]
  /\ escrow \in [Nids -> Nat]
  /\ stray \in [Nids -> Nat]

Init ==
  /\ pot = [n \in Nids |-> 0]
  /\ escrow = [n \in Nids |-> 0]
  /\ stray = [n \in Nids |-> 0]

\* f grows, and only at n.
GrowsAt(f, g, n) == g[n] > f[n] /\ \A m \in Nids \ {n} : g[m] = f[m]

\* Nothing of f gets lost.
Keeps(f, g) == \A n \in Nids : g[n] >= f[n]

\* Prizes come in, by one transfer or by several; what else a transfer
\* carries is stray.
Fund ==
  /\ Keeps(pot, pot')
  /\ Keeps(stray, stray')
  /\ escrow' = escrow

\* One prize is paid to its winner.
Win ==
  /\ \E n \in Nids : pot' = [pot EXCEPT ![n] = @ - 1]
  /\ UNCHANGED <<escrow, stray>>

\* A stake comes in; the draw may pay a prize of another type at once.
Stake ==
  \E n \in Nids :
    /\ GrowsAt(escrow, escrow', n)
    /\ \/ pot' = pot
       \/ \E m \in Nids \ {n} : pot' = [pot EXCEPT ![m] = @ - 1]
    /\ Keeps(stray, stray')

\* Prizes of one type go back to the show.
Reclaim ==
  /\ \E n \in Nids : GrowsAt(pot', pot, n)
  /\ UNCHANGED <<escrow, stray>>

\* Stakes are burnt or refunded, out of the escrow alone; the prizes of a
\* campaign that is over become stray.
Settle ==
  /\ Keeps(escrow', escrow)
  /\ Keeps(stray, stray')
  /\ \/ pot' = pot
     \/ \E n \in Nids : GrowsAt(pot', pot, n)
  /\ \A n \in Nids : pot'[n] + stray'[n] = pot[n] + stray[n]

Next == Fund \/ Win \/ Stake \/ Reclaim \/ Settle

Spec == Init /\ [][Next]_custody
=============================================================================
