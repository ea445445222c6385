----------------------------- MODULE FifoChannel -----------------------------
(***************************************************************************)
(* What a framed TCP connection promises to the code above it: messages    *)
(* come out whole, in the order they were sent, none twice and none        *)
(* invented, until the receiving end gives up; a message may then be lost, *)
(* and with it everything behind it.                                       *)
(***************************************************************************)
EXTENDS Sequences

CONSTANTS Messages,
          Deliverable   \* the messages the receiver accepts

VARIABLES transit,   \* sent and not handed out
          handed,    \* handed out so far
          open       \* whether the receiving end still reads

channelVars == <<transit, handed, open>>

Init == transit = <<>> /\ handed = <<>> /\ open = TRUE

Send == \E m \in Messages : /\ transit' = Append(transit, m)
                            /\ UNCHANGED <<handed, open>>

Receive ==
  /\ open
  /\ transit # <<>>
  /\ Head(transit) \in Deliverable
  /\ handed' = Append(handed, Head(transit))
  /\ transit' = Tail(transit)
  /\ UNCHANGED open

GiveUp == open' = FALSE /\ UNCHANGED <<transit, handed>>

Next == Send \/ Receive \/ GiveUp

Spec == Init /\ [][Next]_channelVars
=============================================================================
