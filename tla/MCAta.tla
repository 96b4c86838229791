------------------------------- MODULE MCAta --------------------------------
(***************************************************************************)
(* One-bit registers (16 sectors), two words to a sector, transfers of one *)
(* or two sectors that cross every register's carry.                       *)
(***************************************************************************)
EXTENDS Ata

MCStarts == {1, 7}
MCData == (0 .. 17) \X {0, 1}
MCContents == [l \in 0 .. 15 |-> [k \in {0, 1} |-> <<l, k>>]]
MCPayloads == {[k \in {0, 1} |-> <<16, k>>], [k \in {0, 1} |-> <<17, k>>]}

=============================================================================
