------------------------------- MODULE MCGuest --------------------------------
\* Small instances of Guest.
EXTENDS Guest

SomeInputs == {[nonce |-> TRUE, type |-> TRUE], [nonce |-> FALSE, type |-> TRUE]}
===============================================================================
