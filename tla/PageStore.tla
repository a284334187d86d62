------------------------------ MODULE PageStore ------------------------------
(***************************************************************************)
(* What a table gets from its buffer pool: pages that read back what was    *)
(* last written to them, as if there were no frames.  What was written may  *)
(* reach the file at any time; a close in which no write failed leaves all  *)
(* of it there, and a close or a crash takes the rest.                      *)
(***************************************************************************)
EXTENDS Naturals

CONSTANT PageIds

VARIABLES
  contents,   \* the version a reader of each page gets; 0: no such page
  stable,     \* the version of each page in the file
  open,       \* the table is open
  failed      \* a write has failed since it was opened

storeVars == <<contents, stable, open, failed>>

StoreInit == contents = stable /\ ~open /\ ~failed

OpenStore == /\ ~open /\ open' /\ ~failed'
             /\ UNCHANGED <<contents, stable>>

WritePage == /\ open
             /\ \E p \in PageIds : contents' = [contents EXCEPT ![p] = @ + 1]
             /\ UNCHANGED <<stable, open, failed>>

\* One page reaches the file, also because another one needs its frame.
Clean == /\ open
         /\ \E p \in PageIds : stable' = [stable EXCEPT ![p] = contents[p]]
         /\ UNCHANGED <<contents, open, failed>>

Fail == open /\ failed' /\ UNCHANGED <<contents, stable, open>>

CloseStore == /\ open /\ ~open'
              /\ failed \/ contents = stable
              /\ contents' = stable /\ UNCHANGED <<stable, failed>>

CrashStore == open /\ ~open' /\ contents' = stable /\ UNCHANGED <<stable, failed>>

StoreNext == OpenStore \/ WritePage \/ Clean \/ Fail \/ CloseStore \/ CrashStore

StoreSpec == StoreInit /\ [][StoreNext]_storeVars
=============================================================================
