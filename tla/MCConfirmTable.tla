--------------------------- MODULE MCConfirmTable ---------------------------
(***************************************************************************)
(* All tables of a few words on which TLC runs ConfirmTable: one bucket    *)
(* offset or two behind a scan table of one word, then words that may be   *)
(* headers, indices and literals at once.  A field is a word wide.         *)
(***************************************************************************)
EXTENDS ConfirmTable

CONSTANTS
    MinSize,    \* the sizes of the tables ...
    MaxSize,
    Words       \* ... and the words they are made of

SmallTables ==
    {[len |-> MaxSize + 1, size |-> n, low |-> 1, high |-> n, conf |-> 1, mem |-> m] :
       n \in MinSize..MaxSize, m \in [1..MaxSize-1 -> Words]}
=============================================================================
