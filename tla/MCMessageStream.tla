--------------------------- MODULE MCMessageStream ---------------------------
(* MessageStream for TLC.  The payload of the second message reads as a     *)
(* header of its own, and the third claims more than a receiver allows.     *)
EXTENDS MessageStream

MCMessages == { [type |-> 1, payload |-> <<>>],
                [type |-> 2, payload |-> <<0, 1>>],
                [type |-> 1, payload |-> <<2, 2, 2>>] }

\* The messages of which every one is within the limit.
MCSmallMessages == { m \in MCMessages : Fits(m) }
=============================================================================
