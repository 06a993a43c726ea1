------------------------------ MODULE Database ------------------------------
(***************************************************************************)
(* What mailr.db is to whoever uses it, with no journal, process or        *)
(* container: a state that changes by one whole transaction at a time, a   *)
(* row of the store or a migration with its record, and otherwise stays,   *)
(* whatever ends or is started.  Only a restore takes it back, to a state  *)
(* that some file has had since, or leaves it damaged.  Host implements    *)
(* this specification (Host!RefinesDatabase).                              *)
(***************************************************************************)
EXTENDS Naturals

VARIABLES
  data,      \* {the state}, or {} if the file is damaged
  copies,    \* the states that files are in, the database's own among them
  restoring  \* a restore is under way

dataVars == <<data, copies, restoring>>

\* rows counts the store's transactions, schema the migrations.
New == [rows |-> 0, schema |-> 0]

Init ==
  /\ data = {New}
  /\ copies = {New}
  /\ restoring = FALSE

\* The states one transaction away.
Successors(s) == {[s EXCEPT !.rows = @ + 1], [s EXCEPT !.schema = @ + 1]}

Transact ==
  /\ \E s \in data : \E t \in Successors(s) : data' = {t}
  /\ copies' \subseteq copies \union data'
  /\ UNCHANGED restoring

\* Files are made of what is there, and removed.
Copy ==
  /\ copies' \subseteq copies \union data
  /\ restoring' \in BOOLEAN
  /\ UNCHANGED data

Restore ==
  /\ restoring
  /\ data' \in {{}} \union {{s} : s \in copies}
  /\ copies' \subseteq copies
  /\ UNCHANGED restoring

Next == Transact \/ Copy \/ Restore

Spec == Init /\ [][Next]_dataVars
=============================================================================
