----------------------------- MODULE BootQueue -----------------------------
(***************************************************************************)
(* What the bootnext flag files promise, without the steps of the storage: *)
(* each file is a queue of boot entries; a boot takes one entry off one    *)
(* queue, and only then tries it; an entry that was taken is never found   *)
(* in a queue again, unless its owner puts it there.  A loss of power or   *)
(* of the storage may drop the entry in hand, and the last entries of the  *)
(* file it came from.                                                      *)
(*                                                                         *)
(* From the first refused delete on (sticky), what was in a file may also  *)
(* stay there: the entry in hand may come back, with those that follow it. *)
(***************************************************************************)
EXTENDS Integers, Sequences

CONSTANTS Entry, File, NoEntry, NoFile

VARIABLES queue,      \* queue[f]: the entries left in f
          hand,       \* the entry taken by this boot, or NoEntry
          source,     \* the file it came from, while that file can be damaged
          attempted,  \* the entries tried so far
          sticky      \* the storage has refused to delete a file

vars == <<queue, hand, source, attempted, sticky>>

Init == /\ queue = [f \in File |-> << >>]
        /\ hand = NoEntry
        /\ source = NoFile
        /\ attempted = << >>
        /\ sticky = FALSE

\* The owner of the machine fills a file.
Put(f) ==
    /\ queue[f] = << >>
    /\ source # f
    /\ queue'[f] \in Seq(Entry)
    /\ queue' = [queue EXCEPT ![f] = queue'[f]]
    /\ UNCHANGED <<hand, source, attempted, sticky>>

Take(f) ==
    /\ hand = NoEntry
    /\ queue[f] # << >>
    /\ hand' = Head(queue[f])
    /\ \/ queue' = [queue EXCEPT ![f] = Tail(@)] /\ source' \in {f, NoFile}
       \/ sticky' /\ Tail(queue[f]) = << >> /\ UNCHANGED <<queue, source>>
    /\ sticky' \in {sticky, TRUE}    \* this may be the delete that is refused
    /\ UNCHANGED attempted

\* the file is safe again
Settle ==
    /\ source # NoFile
    /\ source' = NoFile
    /\ UNCHANGED <<queue, hand, attempted, sticky>>

Try ==
    /\ hand # NoEntry
    /\ source = NoFile
    /\ attempted' = Append(attempted, hand)
    /\ hand' = NoEntry
    /\ UNCHANGED <<queue, source, sticky>>

\* the storage keeps only the first entries of the file being updated; if it is
\* sticky, the end of what was in the file before follows them
Damaged(f) ==
    \E n \in 0..Len(queue[f]), k \in 0..(Len(queue[f]) + 1) :
        /\ k > 0 => sticky
        /\ queue' = [queue EXCEPT ![f] =
               SubSeq(@, 1, n) \o SubSeq(<<hand>> \o @, Len(@) + 2 - k, Len(@) + 1)]

Damage ==
    /\ source # NoFile
    /\ Damaged(source)
    /\ source' = NoFile
    /\ UNCHANGED <<hand, attempted, sticky>>

\* power is lost before the entry in hand was tried
PowerLoss ==
    /\ hand # NoEntry
    /\ hand' = NoEntry
    /\ source' = NoFile
    /\ UNCHANGED queue \/ (source # NoFile /\ Damaged(source))
    /\ UNCHANGED <<attempted, sticky>>

Refuse == ~sticky /\ sticky' = TRUE /\ UNCHANGED <<queue, hand, source, attempted>>

Next == \/ \E f \in File : Take(f) \/ Put(f)
        \/ Settle \/ Try \/ Damage \/ PowerLoss \/ Refuse

Spec == Init /\ [][Next]_vars
=============================================================================
