--------------------------- MODULE FileTransfer ---------------------------
(***************************************************************************)
(* What a file transfer promises, with no word about lines, packets and    *)
(* retries: the receiving application gets blocks in the order in which    *)
(* they were offered, without gap or repetition within a file, and never a *)
(* block the sending application has not offered yet.                      *)
(***************************************************************************)
EXTENDS Integers, Sequences

CONSTANTS
    NFiles, NBlocks,
    Named       \* whether a header goes before the blocks of a file

VARIABLES
    offered,    \* the last item the sending application offered
    got,        \* the items the receiving application has
    open        \* whether the receiving application still takes items
vars == <<offered, got, open>>

Before(i, j) == i[1] < j[1] \/ (i[1] = j[1] /\ i[2] < j[2])
FirstBlk == IF Named THEN 0 ELSE 1

\* Item i may be the next one after s: the next block of the file under way,
\* or the beginning of a later file.
Continues(s, i) ==
    \/ /\ i[2] = FirstBlk
       /\ s # <<>> => s[Len(s)][1] < i[1]
    \/ i[2] > FirstBlk /\ s # <<>> /\ s[Len(s)] = <<i[1], i[2] - 1>>

Init ==
    /\ offered = <<1, FirstBlk>>
    /\ got = <<>>
    /\ open = TRUE

Offer ==
    /\ \E f \in 1 .. NFiles + 1, b \in 0 .. NBlocks + 1 : offered' = <<f, b>>
    /\ Before(offered, offered')
    /\ UNCHANGED <<got, open>>

Deliver ==
    /\ open
    /\ \E f \in 1 .. NFiles + 1, b \in 0 .. NBlocks :
        /\ ~Before(offered, <<f, b>>)
        /\ Continues(got, <<f, b>>)
        /\ got' = Append(got, <<f, b>>)
    /\ open' \in BOOLEAN
    /\ UNCHANGED offered

Close == open /\ open' = FALSE /\ UNCHANGED <<offered, got>>

Next == Offer \/ Deliver \/ Close
Spec == Init /\ [][Next]_vars
=============================================================================
