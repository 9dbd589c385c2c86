----------------------------- MODULE MCDmaChannel -----------------------------
(***************************************************************************)
(* A small DmaChannel: the shapes of program that descriptors.h uses (wait *)
(* then transfer then suspend; a transfer that loops on itself) and two    *)
(* that it does not (a stride, and back to back transfers).                *)
(***************************************************************************)
EXTENDS DmaSchedule

D(n, s, st, c, m) ==
  [next |-> n, start |-> s, state |-> st, x_count |-> c, x_modify |-> m]

MCPrograms ==
  { <<D(0, 0, TRANSFER, 3, 1)>>,
    <<D(1, 0, WAIT, 2, 1), D(2, 1, TRANSFER, 3, 1), D(2, 0, SUSPENDED, 0, 1)>>,
    <<D(1, 0, TRANSFER, 2, 3), D(2, 0, TRANSFER_WITH_FORWARD, 1, 0),
      D(3, 4, TRANSFER, 1, 0), D(0, 0, SUSPENDED, 0, 0)>>,
    <<D(1, 2, TRANSFER, 1, 1), D(0, 0, TRANSFER, 2, 1)>> }

MCGarbage == { default_descriptor, D(1, 7, TRANSFER, 1, 5) }
MCIndeterminate == {0, 6}
=============================================================================
