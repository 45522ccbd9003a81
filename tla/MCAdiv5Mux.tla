----------------------------- MODULE MCAdiv5Mux -----------------------------
(***************************************************************************)
(* Small instances of Adiv5Mux: one command of each kind the selected      *)
(* state machine tells apart, two data words, FIFOs of two entries.        *)
(***************************************************************************)
EXTENDS Adiv5Mux

R(ap, rd, a, sw) == [ap |-> ap, rd |-> rd, addr |-> a, sw |-> sw]

MCJtagReq == { R(FALSE, TRUE, 0, FALSE), R(FALSE, FALSE, 3, TRUE), R(FALSE, TRUE, 1, FALSE),
               R(FALSE, FALSE, 0, FALSE), R(TRUE, FALSE, 1, FALSE) }

MCSwdReq == { R(FALSE, TRUE, 1, FALSE), R(FALSE, FALSE, 2, FALSE), R(FALSE, FALSE, 3, TRUE),
              R(FALSE, FALSE, 3, FALSE), R(TRUE, TRUE, 3, FALSE), R(TRUE, FALSE, 1, FALSE) }
=============================================================================
