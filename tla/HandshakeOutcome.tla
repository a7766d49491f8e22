-------------------------- MODULE HandshakeOutcome --------------------------
(***************************************************************************)
(* What one NTCP connection attempt promises its two ends, whatever TCP    *)
(* does and whatever faults a peer or the network injects: each end's      *)
(* outcome is decided once; an end gives up with an error only when        *)
(* something it checks was forged, never for a message cut short; the     *)
(* initiator accepts only after the responder did and only if what the    *)
(* responder sent was genuine; an established session breaks only if its  *)
(* ciphertext was altered; the responder drops its side only after the    *)
(* initiator gave up.  NTCPHandshake implements it                        *)
(* (ImplementsHandshakeOutcome).                                           *)
(***************************************************************************)
CONSTANT Faults   \* the faults the environment may inject

VARIABLES
    alice,   \* the initiator's connect future
    bob,     \* the responder's inbound session
    forged   \* the faults injected so far

vars == <<alice, bob, forged>>

Failed == {"error", "timeout"}

\* The faults an end can detect, and so refuse with an error: a forged
\* signature, hash or ciphertext.  A message cut short is not one of them:
\* the end waiting for its rest can only time out or see the close.
RefusedByBob == {"sigA", "tamper"}
RefusedByAlice == {"hash", "sigB", "tamper"}

Init ==
    /\ alice = "pending"
    /\ bob = "pending"
    /\ forged = {}

\* Faults only accumulate; one may be injected in the same step as an
\* end's decision (the responder's SessionConfirmB carries its signature).
Forging == forged \subseteq forged' /\ forged' \subseteq Faults

Forge ==
    /\ forged' # forged /\ Forging
    /\ UNCHANGED <<alice, bob>>

BobAccepts ==
    /\ bob = "pending" /\ "sigA" \notin forged
    /\ bob' = "session"
    /\ Forging
    /\ UNCHANGED alice

BobRefuses ==
    /\ bob = "pending" /\ forged \cap RefusedByBob # {}
    /\ bob' = "error"
    /\ UNCHANGED <<alice, forged>>

BobCloses ==
    /\ bob \in {"pending", "session"} /\ alice \in Failed
    /\ bob' = "closed"
    /\ UNCHANGED <<alice, forged>>

AliceAccepts ==
    /\ alice = "pending" /\ bob = "session"
    /\ forged \cap {"hash", "sigB"} = {}
    /\ alice' = "session"
    /\ UNCHANGED <<bob, forged>>

AliceRefuses ==
    /\ alice = "pending" /\ forged \cap RefusedByAlice # {}
    /\ alice' = "error"
    /\ UNCHANGED <<bob, forged>>

AliceTimesOut ==
    /\ alice = "pending"
    /\ alice' = "timeout"
    /\ UNCHANGED <<bob, forged>>

SessionBreaks ==
    /\ alice = "session" /\ "tamper" \in forged
    /\ alice' = "error"
    /\ UNCHANGED <<bob, forged>>

Next ==
    \/ Forge
    \/ BobAccepts \/ BobRefuses \/ BobCloses
    \/ AliceAccepts \/ AliceRefuses \/ AliceTimesOut \/ SessionBreaks

Spec == Init /\ [][Next]_vars
=============================================================================
