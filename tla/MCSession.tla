------------------------------ MODULE MCSession ------------------------------
(* Session with two blind levels, the second reached at any moment.        *)
EXTENDS Session

CONSTANTS FirstBlind, SecondBlind

MCLevels == << [small |-> FirstBlind, big |-> 2 * FirstBlind],
               [small |-> SecondBlind, big |-> 2 * SecondBlind] >>
=============================================================================
