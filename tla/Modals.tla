------------------------------- MODULE Modals --------------------------------
(***************************************************************************)
(* lib/hook/useModal.js of the web-client.  A modal is a fixed layer over  *)
(* the whole screen, and the modals that are open lie over each other in   *)
(* the order they were opened.  The mouse reaches only the one on top; the *)
(* keyboard reaches whatever is mounted, as nothing is made inert: the     *)
(* pages say which of their controls take it.                              *)
(***************************************************************************)
EXTENDS Sequences, Naturals, FiniteSets

IsOpen(modals, m) == \E i \in DOMAIN modals : modals[i] = m

\* openModal: a modal that is open already stays where it is.
Opened(modals, m) ==
    IF IsOpen(modals, m) THEN modals ELSE Append(modals, m)

\* closeModal of every modal of a set: a component that goes takes the modals
\* it rendered with it.  Of the others the j-th is at the position up to which
\* there are j of them: said by positions, so that proofs can expand it.
Closed(modals, ms) ==
    LET kept == {i \in DOMAIN modals : modals[i] \notin ms}
        Position(j) == CHOOSE i \in kept : Cardinality({k \in kept : k <= i}) = j
    IN  [j \in 1..Cardinality(kept) |-> modals[Position(j)]]

\* What the mouse reaches.
Top(modals) == IF modals = <<>> THEN "page" ELSE modals[Len(modals)]

\* The stacks of modals out of a set.
ModalStacks(ms) == {s \in UNION {[1..n -> ms] : n \in 0..3} :
                      \A i, j \in DOMAIN s : s[i] = s[j] => i = j}
=============================================================================
