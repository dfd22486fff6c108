---------------------------- MODULE VersionedRows ----------------------------
(***************************************************************************)
(* What optimistic concurrency promises whoever edits shared rows: rows    *)
(* are created, replaced and deleted one at a time and at once, a row is   *)
(* replaced only by somebody who holds exactly the row that is replaced,   *)
(* its version goes up by one, and a deleted row never comes back.         *)
(***************************************************************************)
EXTENDS Integers

CONSTANTS
    Key,
    Editor,
    Nothing     \* held by who edits no row

VARIABLES
    row,        \* Key -> a record with a life, a version and more
    held        \* Editor -> the key and the row it edits, as loaded

Init ==
    /\ \A k \in Key : row[k].life = "unborn"
    /\ held = [w \in Editor |-> Nothing]

Others(S) == \A k \in Key \ S : row'[k] = row[k]

Create(k) ==
    /\ row[k].life = "unborn"
    /\ row'[k].life = "live" /\ row'[k].version = 1
    /\ Others({k})
    /\ UNCHANGED held

Load(w, k) ==
    /\ row[k].life = "live"
    /\ held' = [held EXCEPT ![w] = [key |-> k, row |-> row[k]]]
    /\ UNCHANGED row

Replace(w, k) ==
    /\ row[k].life = "live"
    /\ held[w] = [key |-> k, row |-> row[k]]
    /\ row'[k].life = "live" /\ row'[k].version = row[k].version + 1
    /\ Others({k})
    /\ UNCHANGED held

Forget(w) ==
    /\ held' = [held EXCEPT ![w] = Nothing]
    /\ UNCHANGED row

Delete(k) ==
    /\ row[k].life = "live"
    /\ row'[k].life = "gone"
    /\ Others({k})
    /\ UNCHANGED held

Next ==
    \/ \E k \in Key : Create(k) \/ Delete(k)
    \/ \E w \in Editor : Forget(w) \/ \E k \in Key : Load(w, k) \/ Replace(w, k)

Spec == Init /\ [][Next]_<<row, held>>
=============================================================================
