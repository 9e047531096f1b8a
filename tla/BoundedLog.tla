----------------------------- MODULE BoundedLog -----------------------------
(***************************************************************************)
(* What a rotating log promises its reader, whatever the files it is kept  *)
(* in: the bytes it has accepted are numbered from 0, and those retained   *)
(* are always the newest ones, without a hole.  It forgets only its oldest *)
(* bytes, and never brings one back.                                       *)
(***************************************************************************)
EXTENDS Naturals

VARIABLES accepted,     \* number of bytes accepted so far
          retained      \* the bytes that can still be read

Init == accepted = 0 /\ retained = {}

(* All or, when a write is cut short, a first part of a record arrives. *)
Accept ==
    /\ accepted' \in Nat /\ accepted' >= accepted
    /\ retained' = retained \cup (accepted .. accepted' - 1)

Forget == \E first \in 0 .. accepted :
    /\ retained' = {b \in retained : b >= first}
    /\ UNCHANGED accepted

Next == Accept \/ Forget

Spec == Init /\ [][Next]_<<accepted, retained>>

(* What is retained is one run of bytes that ends with the last accepted.  *)
Suffix == \E first \in 0 .. accepted : retained = first .. accepted - 1
=============================================================================
