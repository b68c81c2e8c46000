----------------------------- MODULE FileContents -----------------------------
(***************************************************************************)
(* What extended files promise about what is in them, whatever happens to  *)
(* the clusters they are kept in: a call changes one file only, a write    *)
(* that fails leaves the file as long as it was, and opening, flushing,    *)
(* closing and losing reserved space change nothing.                       *)
(***************************************************************************)
EXTENDS Naturals, Sequences, SequencesExt

CONSTANTS
    Files,
    MaxSize,       \* longest file
    Written(_, _)  \* what a write leaves at a position of a file

VARIABLE contents  \* a sequence for each file

Overwritten(f, old, from, n) ==
    [i \in 1 .. IF from + n > Len(old) THEN from + n ELSE Len(old) |->
        IF i \in from + 1 .. from + n THEN Written(f, i) ELSE old[i]]

\* pc_efilio_chsize, opening with PO_TRUNC, unlinking.
Shrink(old, new) == IsPrefix(new, old)

\* pc_efilio_chsize, and a flush that makes reserved space part of the file: what is
\* in the new part is anything.
Grow(old, new) == IsPrefix(old, new)

\* A write anywhere in the file or at its end, or one for which there is no space: what
\* lies within the file may have been written then.
Write(f, old, new) ==
    \E from \in 0 .. Len(old) : \E n \in 1 .. MaxSize - from :
        \/ new = Overwritten(f, old, from, n)
        \/ new = SubSeq(Overwritten(f, old, from, n), 1, Len(old))

Change(f, old, new) == Shrink(old, new) \/ Grow(old, new) \/ Write(f, old, new)

\* One call is about one file.
Next ==
    \E f \in Files :
        /\ \A g \in Files \ {f} : contents'[g] = contents[g]
        /\ Change(f, contents[f], contents'[f])

Init == contents = [f \in Files |-> <<>>]
Spec == Init /\ [][Next]_contents
=============================================================================
