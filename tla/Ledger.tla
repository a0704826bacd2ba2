--------------------------------- MODULE Ledger ---------------------------------
(***************************************************************************)
(* What a receipt log promises: one append-only sequence per invocation    *)
(* that grows by one entry at a time and ends with its terminal entry.     *)
(* The signed receipts of a provider are shown to implement it.            *)
(***************************************************************************)
EXTENDS Naturals, Sequences

CONSTANTS Ids, IsTerminal(_)

VARIABLE log   \* [Ids -> sequence of entries]

Init == log = [i \in Ids |-> <<>>]

Ended(i) == log[i] # <<>> /\ IsTerminal(log[i][Len(log[i])])

\* One entry is added to the log of i; nothing else changes.
Extend(i) ==
    /\ ~Ended(i)
    /\ Len(log'[i]) = Len(log[i]) + 1
    /\ SubSeq(log'[i], 1, Len(log[i])) = log[i]
    /\ DOMAIN log' = Ids
    /\ \A j \in Ids \ {i} : log'[j] = log[j]

Next == \E i \in Ids : Extend(i)

Spec == Init /\ [][Next]_log
=============================================================================
