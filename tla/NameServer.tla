----------------------------- MODULE NameServer -----------------------------
(***************************************************************************)
(* The table of names (nameserver.c).  RegisterAs() and WhoIs() block in a *)
(* Send() to the server, which does nothing but look into the table, so    *)
(* each is one step of its caller.  Names longer than NS_NAME_MAX, which   *)
(* would be cut, are left out.                                             *)
(***************************************************************************)
EXTENDS Integers, Sequences, FiniteSetsExt

CONSTANT NS_MAX_NAMES

VARIABLE ns_table  \* a sequence of [name, tid]

\* -1 if the name is not there.
ns_find(name) ==
  LET I == {i \in DOMAIN ns_table : ns_table[i].name = name}
  IN  IF I = {} THEN -1 ELSE ns_table[Min(I)].tid

\* The table after RegisterAs().  A full table and a second registration
\* (answers -1 and -2, which RegisterAs() does not report) leave it as it is.
ns_add(name, tid) ==
  IF Len(ns_table) >= NS_MAX_NAMES \/ ns_find(name) >= 0 THEN ns_table
  ELSE Append(ns_table, [name |-> name, tid |-> tid])
=============================================================================
