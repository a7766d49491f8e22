---------------------------- MODULE FrameChannel ----------------------------
(***************************************************************************)
(* What one direction of an established NTCP session promises (spec 4.5 and *)
(* 5): the frames the sender's codec accepts are returned to the receiver  *)
(* in the order they were accepted, each once, until the receiver detects *)
(* a broken stream and drops the session; nothing is returned after that.  *)
(* A frame the codec refuses (too large) is not part of the channel.       *)
(***************************************************************************)
EXTENDS Naturals, Sequences

CONSTANT Frames       \* frame identities

VARIABLES
    sent,     \* frames accepted by the sender, in order
    got,      \* frames returned to the receiver, in order
    broken    \* the receiver has dropped the session

vars == <<sent, got, broken>>

Init == sent = <<>> /\ got = <<>> /\ broken = FALSE

\* The sender's codec accepts frame f.
Accept(f) ==
    /\ sent' = Append(sent, f)
    /\ UNCHANGED <<got, broken>>

\* The receiver gets the oldest frame it has not got yet.
Receive ==
    /\ ~broken
    /\ Len(got) < Len(sent)
    /\ got' = Append(got, sent[Len(got) + 1])
    /\ UNCHANGED <<sent, broken>>

\* The receiver detects a broken stream and drops the session.
Break ==
    /\ ~broken
    /\ broken' = TRUE
    /\ UNCHANGED <<sent, got>>

Next == (\E f \in Frames : Accept(f)) \/ Receive \/ Break

Spec == Init /\ [][Next]_vars

=============================================================================
