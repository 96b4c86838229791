------------------------------- MODULE MCNicRx -------------------------------
\* Two good frames of different sizes and a damaged one.
EXTENDS NicRx

MCFrames == { [id |-> "a", len |-> 6, ok |-> TRUE],
              [id |-> "b", len |-> 9, ok |-> TRUE],
              [id |-> "e", len |-> 7, ok |-> FALSE] }

=============================================================================
