--------------------------- MODULE MCWindowChecks ---------------------------
(***************************************************************************)
(* Bytes of two bits and words of two bytes on which TLC runs              *)
(* WindowChecks: every mask, and buffers of one and two bytes, of which a  *)
(* window reads all, a part or nothing.                                    *)
(***************************************************************************)
EXTENDS WindowChecks

Offsets == -3..1
SmallBuffers == {<< a >> : a \in Bytes} \cup {<< a, b >> : a, b \in Bytes}

MaskChecks ==
    [kind: {"mask"}, and: Words, cmp: Words, neg: {0, 3, 12, 15}, off: Offsets]

ByteChecks ==
    [kind: {"byte"}, and: Bytes, cmp: Bytes, neg: BOOLEAN, off: Offsets]

Classes == {{}, {1}, {1, 2}, Bytes}

ClassChecks ==
    [kind: {"class"}, class: {<< a, b >> : a, b \in Classes}, neg: SUBSET {0, 1}, off: Offsets]

\* Lists of up to three entries, in ascending order.
Ascending ==
    {<<>>} \cup {<< a >> : a \in Offsets}
    \cup {s \in Offsets \X Offsets : s[1] < s[2]}
    \cup {s \in Offsets \X Offsets \X Offsets : s[1] < s[2] /\ s[2] < s[3]}

SingleChecks == [kind: {"single"}, reach: SUBSET Bytes, off: Offsets]

LookChecks ==
    [kind: {"look"}, looks: Ascending, reach: {<< a, b, c >> : a, b, c \in Classes}, room: {2, 3}]

LitChecks ==
    [kind: {"lit"}, lit: SmallBuffers, nocase: BOOLEAN, room: {1, 2}]

SmallChecks ==
    MaskChecks \cup ByteChecks \cup ClassChecks \cup SingleChecks \cup LookChecks \cup LitChecks

\* The checks that look at single bytes.
PlaceChecks == SingleChecks \cup ByteChecks \cup LookChecks
=============================================================================
