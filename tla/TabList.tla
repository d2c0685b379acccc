------------------------------ MODULE TabList ------------------------------
(***************************************************************************)
(* What the user sees of a session's tabs: a non-empty list in a stable    *)
(* order, one of them selected.  Tabs are never reordered, duplicated or   *)
(* lost; only the selected tab can be closed, and a neighbour is selected  *)
(* in its place.                                                           *)
(***************************************************************************)
EXTENDS Naturals, Sequences

CONSTANT Tab    \* a set of records with a field id, the identity of the tab

VARIABLES
    list,    \* the tabs in the order of the tab bar
    sel      \* position of the selected tab

vars == <<list, sel>>

Without(s, i) == [j \in 1 .. Len(s) - 1 |-> IF j < i THEN s[j] ELSE s[j + 1]]

Ids(s) == {s[j].id : j \in 1 .. Len(s)}

Init == list \in Seq(Tab) /\ list # <<>> /\ sel \in 1 .. Len(list)

\* A new tab appears at the end and is selected.
Open ==
    /\ list' \in Seq(Tab) /\ Len(list') = Len(list) + 1
    /\ \A j \in 1 .. Len(list) : list'[j] = list[j]
    /\ list'[Len(list')].id \notin Ids(list)
    /\ sel' = Len(list')

Select == sel' \in 1 .. Len(list) /\ UNCHANGED list

\* Closing the selected tab selects its right neighbour, else its left one.
Close ==
    /\ Len(list) > 1
    /\ list' = Without(list, sel)
    /\ sel' = IF sel = Len(list) THEN sel - 1 ELSE sel

\* Only the selected tab can be renamed.
Rename ==
    /\ list' \in Seq(Tab) /\ Len(list') = Len(list)
    /\ \A j \in 1 .. Len(list) : list'[j].id = list[j].id /\ (j # sel => list'[j] = list[j])
    /\ UNCHANGED sel

\* A saved session replaces the whole list by new tabs.
Replace ==
    /\ list' \in Seq(Tab) /\ list' # <<>>
    /\ Ids(list') \cap Ids(list) = {}
    /\ sel' \in 1 .. Len(list')

Next == Open \/ Select \/ Close \/ Rename \/ Replace

Spec == Init /\ [][Next]_vars

=============================================================================
