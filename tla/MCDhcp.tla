------------------------------- MODULE MCDhcp -------------------------------
\* A lease as long as the counters go, with a T1 of its own, and one so short
\* that half of it rounds to nothing; or just the long one.
EXTENDS Dhcp

MCOffers == { [t0 |-> 8, t1 |-> 2, t2 |-> NotGiven],
              [t0 |-> 1, t1 |-> NotGiven, t2 |-> NotGiven] }

MCOneOffer == { [t0 |-> 8, t1 |-> NotGiven, t2 |-> NotGiven] }

=============================================================================
