----------------------------- MODULE PublishOnce -----------------------------
(***************************************************************************)
(* What publishing promises.  A row starts with the right to be sent once, *)
(* or with none.  Sending it uses a right up, rights are lost when a row is *)
(* given up or marked as published, and nothing gives a right back but an  *)
(* accident of that very row, one right each.                               *)
(***************************************************************************)
EXTENDS Integers

CONSTANT Rows

VARIABLES
    copies,   \* copies of each row's content the platform has taken
    rights,   \* how often each row may still be sent
    accidents \* accidents each row has had

contractVars == <<copies, rights, accidents>>

Init ==
    /\ copies = [p \in Rows |-> 0]
    /\ rights \in [Rows -> 0..1]
    /\ accidents = [p \in Rows |-> 0]

\* The platform takes a copy.  Its answer uses a right up; a lost answer is an
\* accident, after which the row may be tried again.
Send(p, answered) ==
    /\ rights[p] > 0
    /\ copies' = [copies EXCEPT ![p] = @ + 1]
    /\ \E left \in 0..rights[p] :
          /\ answered => left < rights[p]
          /\ rights' = [rights EXCEPT ![p] = left]
    /\ accidents' = IF answered THEN accidents ELSE [accidents EXCEPT ![p] = @ + 1]

\* Without a copy taken: rows lose rights, and each row that has an accident may
\* have one right more.  Where no row has, rights are only lost.
Settle(rows) ==
    /\ rights' \in [Rows -> Nat]
    /\ \A p \in Rows : rights'[p] <= IF p \in rows THEN rights[p] + 1 ELSE rights[p]
    /\ accidents' = [p \in Rows |-> IF p \in rows THEN accidents[p] + 1 ELSE accidents[p]]
    /\ UNCHANGED copies

Next ==
    \/ \E p \in Rows, answered \in BOOLEAN : Send(p, answered)
    \/ \E rows \in SUBSET Rows : Settle(rows)

Spec == Init /\ [][Next]_contractVars
===============================================================================
