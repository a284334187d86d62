----------------------------- MODULE DurableStore -----------------------------
(***************************************************************************)
(* What a user of KernelDB may rely on, without log, pages or processes: a  *)
(* set of rows the store can still produce, which only submitted rows       *)
(* enter and no acknowledged row leaves unless a statement took it.  It     *)
(* promises "at least once": rows nobody acknowledged may be in it, and it  *)
(* says nothing of the number of copies.                                    *)
(***************************************************************************)
CONSTANT Rows

VARIABLES
  submitted,   \* rows some statement was asked to write
  kept,        \* rows a restart would find
  acked        \* rows whose INSERT was acknowledged as committed

storeVars == <<submitted, kept, acked>>

StoreInit == submitted = {} /\ kept = {} /\ acked = {}

Submit == /\ \E r \in Rows \ submitted : submitted' = submitted \cup {r}
          /\ UNCHANGED <<kept, acked>>

\* Rows become durable, and only durable rows become acknowledged.
Write == \E S \in SUBSET submitted :
           /\ kept' = kept \cup S
           /\ \E A \in SUBSET kept' : acked' = acked \cup A
           /\ UNCHANGED submitted

\* A statement takes S, and may write others in their place: the rows of S stop
\* being promised, and may disappear.
Take == \E S \in SUBSET submitted :
          /\ acked' = acked \ S
          /\ kept \ S \subseteq kept' /\ kept' \subseteq submitted
          /\ UNCHANGED submitted

StoreNext == Submit \/ Write \/ Take

StoreSpec == StoreInit /\ [][StoreNext]_storeVars
=============================================================================
