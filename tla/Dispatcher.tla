----------------------------- MODULE Dispatcher -----------------------------
(***************************************************************************)
(* The transport dispatcher of src/transport/mod.rs: Manager (bidding in   *)
(* send, the one-shot Engine taken by start), the Handle and Bid senders   *)
(* onto each transport's unbounded message channel, and Engine::poll, which *)
(* merges the two transports' ingress streams with util::Select.           *)
(*                                                                         *)
(* Transport 1 is NTCP, transport 2 is NTCP2 (the order of Manager::send's *)
(* chain and of Select's stream1/stream2).  The bids and the ingress items *)
(* come from the transports, which are not part of this module: the        *)
(* environment chooses them.  util::Select is not in the repository and    *)
(* follows spec 4.6: a flag, toggled on every poll, says which stream is   *)
(* polled first; the merged stream ends when both streams have ended.      *)
(***************************************************************************)
EXTENDS Integers, Sequences, FiniteSets, SequencesExt

CONSTANTS
    MaxMsgs,     \* bound: calls of send / Handle::send / Handle::timestamp
    MaxIn,       \* bound: items each ingress stream yields
    BidValues    \* the costs a transport may bid

ASSUME /\ MaxMsgs \in Nat /\ MaxIn \in Nat
       /\ BidValues \subseteq Nat

TIds == 1..2                 \* <<ntcp, ntcp2>>
NoBid == -1                  \* Transport::bid returned None

Offer == BidValues \cup {NoBid}

VARIABLES
    engine,       \* Manager.engine: "held" (Some) or "taken" (None)
    panicked,     \* start's expect failed
    engine_res,   \* the Engine future: "pending" or "failed"
    polling,      \* Engine::poll is inside its while loop
    woken,        \* the Engine task has been notified and will be polled
    select_flag,  \* Engine.select_flag
    avail,        \* t -> items ready on transport t's ingress stream
    closing,      \* t -> the stream has ended once its items are taken
    erring,       \* t -> the stream's next poll returns an error
    produced,     \* t -> items transport t's stream has yielded so far
    next_msg,     \* id of the next send/timestamp call (call order)
    pending,      \* futures returned by Manager::send, not yet polled
    chans,        \* t -> transport t's message channel
    ts_chans,     \* t -> transport t's timestamp channel
    rejected      \* messages send returned to the caller

vars == <<engine, panicked, engine_res, polling, woken, select_flag, avail,
          closing, erring, produced, next_msg, pending, chans,
          ts_chans, rejected>>

ingress == <<avail, closing, erring, produced>>
senders == <<next_msg, pending, chans, ts_chans, rejected>>

-----------------------------------------------------------------------------

\* Manager::new: the Engine is stored with select_flag false.
Init ==
    /\ engine = "held" /\ panicked = FALSE
    /\ engine_res = "pending" /\ polling = FALSE /\ woken = FALSE
    /\ select_flag = FALSE
    /\ avail = [t \in TIds |-> 0]
    /\ closing = [t \in TIds |-> FALSE]
    /\ erring = [t \in TIds |-> FALSE]
    /\ produced = [t \in TIds |-> 0]
    /\ next_msg = 1
    /\ pending = {}
    /\ chans = [t \in TIds |-> <<>>]
    /\ ts_chans = [t \in TIds |-> <<>>]
    /\ rejected = {}

\* CommSystem::start: engine.take().expect(..), then the engine future
\* (joined with the listeners) is handed to the runtime, which polls it.
Start ==
    /\ engine = "held"
    /\ engine' = "taken"
    /\ woken' = TRUE
    /\ UNCHANGED <<panicked, engine_res, polling, select_flag,
                   ingress, senders>>

\* A second start: "Cannot call listen() twice".
StartAgain ==
    /\ engine = "taken"
    /\ panicked' = TRUE
    /\ UNCHANGED <<engine, engine_res, polling, woken, select_flag,
                   ingress, senders>>

\* Mutant: a later bid replaces the kept one when it is not higher.
KeepLower_Le(b, best, t) ==
    IF b[t] # NoBid /\ (best = 0 \/ b[t] <= b[best]) THEN t ELSE best

\* One step of min_by_key over the bids filter_map kept: the bid kept so
\* far (0: none yet) is replaced only by a strictly lower one.
KeepLower(b, best, t) ==
    IF b[t] # NoBid /\ (best = 0 \/ b[t] < b[best]) THEN t ELSE best

\* once(ntcp.bid(..)).chain(once(ntcp2.bid(..))).filter_map(|b| b)
\* .min_by_key(|b| b.bid), folded over the chain in its order.
MinBid(b) == FoldLeft(LAMBDA best, t : KeepLower(b, best, t), 0, <<1, 2>>)

\* Manager::send: ask both transports for a bid.  No bid: Err((hash, msg))
\* back to the caller.  Otherwise Ok(bid.send(..)): a Sink::send future
\* that holds the message until it is polled.
Send ==
    /\ next_msg <= MaxMsgs
    /\ \E b \in [TIds -> Offer] :
          IF \A t \in TIds : b[t] = NoBid
          THEN /\ rejected' = rejected \cup {next_msg}
               /\ UNCHANGED pending
          ELSE /\ pending' = pending \cup
                     {[m |-> next_msg, t |-> MinBid(b), bids |-> b]}
               /\ UNCHANGED rejected
    /\ next_msg' = next_msg + 1
    /\ UNCHANGED <<engine, panicked, engine_res, polling, woken, select_flag,
                   ingress, chans, ts_chans>>

\* The caller polls a send future: Bid::start_send on the unbounded
\* channel (always accepted), then poll_complete.
PollSend ==
    /\ \E f \in pending :
          /\ chans' = [chans EXCEPT ![f.t] = Append(@, [m |-> f.m, bids |-> f.bids])]
          /\ pending' = pending \ {f}
    /\ UNCHANGED <<engine, panicked, engine_res, polling, woken, select_flag,
                   ingress, next_msg, ts_chans, rejected>>

\* Handle::send: unbounded_send onto the message channel, at once.
HandleSend(t) ==
    /\ next_msg <= MaxMsgs
    /\ chans' = [chans EXCEPT ![t] = Append(@, [m |-> next_msg,
                                                bids |-> [u \in TIds |-> NoBid]])]
    /\ next_msg' = next_msg + 1
    /\ UNCHANGED <<engine, panicked, engine_res, polling, woken, select_flag,
                   ingress, pending, ts_chans, rejected>>

\* Handle::timestamp: unbounded_send onto the timestamp channel.
HandleTimestamp(t) ==
    /\ next_msg <= MaxMsgs
    /\ ts_chans' = [ts_chans EXCEPT ![t] = Append(@, next_msg)]
    /\ next_msg' = next_msg + 1
    /\ UNCHANGED <<engine, panicked, engine_res, polling, woken, select_flag,
                   ingress, pending, chans, rejected>>

-----------------------------------------------------------------------------
(* util::Select and Engine::poll *)

\* The "which to poll first" flag flips on every poll.
ToggleFlag(f) == ~f

\* Mutant: off by one, a stream with no item yields one.
StreamPoll_AnyAvail(t) ==
    CASE erring[t] -> "err"
      [] avail[t] >= 0 -> "item"
      [] closing[t] -> "done"
      [] OTHER -> "notready"

\* One poll of an ingress stream (fused: once ended it stays ended).
StreamPoll(t) ==
    CASE erring[t] -> "err"
      [] avail[t] > 0 -> "item"
      [] closing[t] -> "done"
      [] OTHER -> "notready"

SelectOrder == IF select_flag THEN <<2, 1>> ELSE <<1, 2>>

\* Mutant: when the first stream is not ready, the second is not polled.
SelectPoll_FirstOnly ==
    LET a == SelectOrder[1]
        b == SelectOrder[2]
    IN CASE StreamPoll(a) \in {"err", "item"} -> [r |-> StreamPoll(a), t |-> a]
         [] StreamPoll(a) = "notready" -> [r |-> "notready", t |-> 0]
         [] StreamPoll(b) \in {"err", "item"} -> [r |-> StreamPoll(b), t |-> b]
         [] StreamPoll(b) = "done" -> [r |-> "end", t |-> 0]
         [] OTHER -> [r |-> "notready", t |-> 0]

\* Select::poll: poll the first stream, then the second; Ready(None) only
\* when both have ended, NotReady when neither has an item.
SelectPoll ==
    LET a == SelectOrder[1]
        b == SelectOrder[2]
    IN CASE StreamPoll(a) \in {"err", "item"} -> [r |-> StreamPoll(a), t |-> a]
         [] StreamPoll(b) \in {"err", "item"} -> [r |-> StreamPoll(b), t |-> b]
         [] StreamPoll(a) = "done" /\ StreamPoll(b) = "done" -> [r |-> "end", t |-> 0]
         [] OTHER -> [r |-> "notready", t |-> 0]

\* The runtime polls the Engine task when it was woken, and Engine::poll
\* calls select.poll() again while it returns Ready.  Each call consumes
\* the wake-up, flips the flag and decides what the loop does.
EngineSelect(r) ==
    /\ engine = "taken" /\ engine_res = "pending"
    /\ polling \/ woken
    /\ SelectPoll.r = r
    /\ select_flag' = ToggleFlag(select_flag)
    /\ woken' = (polling /\ woken)

\* Ready(Some((from, msg))): logged, and the loop goes on.
EngineSelectItem ==
    /\ EngineSelect("item")
    /\ LET t == SelectPoll.t
       IN /\ avail' = [avail EXCEPT ![t] = @ - 1]
    /\ polling' = TRUE
    /\ UNCHANGED <<engine, panicked, engine_res, closing, erring, produced,
                   senders>>

\* Ready(None): `while let Async::Ready(f)` matches it too; the loop goes on.
EngineSelectEnd ==
    /\ EngineSelect("end")
    /\ polling' = TRUE
    /\ UNCHANGED <<engine, panicked, engine_res, ingress, senders>>

\* NotReady: the loop ends and poll returns Ok(NotReady); the task parks.
EngineSelectNotReady ==
    /\ EngineSelect("notready")
    /\ polling' = FALSE
    /\ UNCHANGED <<engine, panicked, engine_res, ingress, senders>>

\* Err: `select.poll()?` fails the Engine future, and with it start's join3.
EngineSelectErr ==
    /\ EngineSelect("err")
    /\ engine_res' = "failed"
    /\ polling' = FALSE
    /\ UNCHANGED <<engine, panicked, ingress, senders>>

-----------------------------------------------------------------------------
(* The transports' ingress streams (environment) *)

\* A message arrives on transport t; the stream notifies the Engine task.
Produce(t) ==
    /\ produced[t] < MaxIn /\ ~closing[t] /\ ~erring[t]
    /\ avail' = [avail EXCEPT ![t] = @ + 1]
    /\ produced' = [produced EXCEPT ![t] = @ + 1]
    /\ woken' = TRUE
    /\ UNCHANGED <<engine, panicked, engine_res, polling, select_flag,
                   closing, erring, senders>>

\* Transport t's stream ends (its senders are gone).
EndStream(t) ==
    /\ ~closing[t] /\ ~erring[t]
    /\ closing' = [closing EXCEPT ![t] = TRUE]
    /\ woken' = TRUE
    /\ UNCHANGED <<engine, panicked, engine_res, polling, select_flag, avail,
                   erring, produced, senders>>

\* Transport t's stream fails.
FailStream(t) ==
    /\ ~closing[t] /\ ~erring[t]
    /\ erring' = [erring EXCEPT ![t] = TRUE]
    /\ woken' = TRUE
    /\ UNCHANGED <<engine, panicked, engine_res, polling, select_flag, avail,
                   closing, produced, senders>>

-----------------------------------------------------------------------------

EngineStep ==
    EngineSelectItem \/ EngineSelectEnd \/ EngineSelectNotReady \/ EngineSelectErr

\* A panic in start ends the router thread: nothing happens after it.
Next ==
    /\ ~panicked
    /\ \/ Start \/ StartAgain
       \/ Send \/ PollSend
       \/ \E t \in TIds : HandleSend(t) \/ HandleTimestamp(t)
       \/ EngineStep
       \/ \E t \in TIds : Produce(t) \/ EndStream(t) \/ FailStream(t)

\* The runtime polls a woken task (tokio's executor runs every notified task).
Spec == Init /\ [][Next]_vars /\ WF_vars(EngineStep)

-----------------------------------------------------------------------------
(* Properties *)

TypeOK ==
    /\ engine \in {"held", "taken"} /\ panicked \in BOOLEAN
    /\ engine_res \in {"pending", "failed"}
    /\ polling \in BOOLEAN /\ woken \in BOOLEAN /\ select_flag \in BOOLEAN
    /\ avail \in [TIds -> 0..MaxIn] /\ produced \in [TIds -> 0..MaxIn]
    /\ closing \in [TIds -> BOOLEAN] /\ erring \in [TIds -> BOOLEAN]
    /\ next_msg \in 1..MaxMsgs + 1
    /\ rejected \subseteq 1..MaxMsgs

\* Manager::send routes every message to the cheapest transport that bid,
\* and to NTCP when both bid the same (spec 4.6: ties by enumeration
\* order), whether the send future is still pending or already polled.
\* The reference is the least transport among those with a minimal bid.
LowestBidWins ==
    LET Bidders(b) == {t \in TIds : b[t] # NoBid}
        Cheapest(b) ==
            CHOOSE t \in {u \in Bidders(b) : \A v \in Bidders(b) : b[u] <= b[v]} :
                \A v \in Bidders(b) : b[v] = b[t] => t <= v
    IN /\ \A f \in pending : f.t = Cheapest(f.bids)
       /\ \A t \in TIds : \A i \in DOMAIN chans[t] :
              Bidders(chans[t][i].bids) # {} => t = Cheapest(chans[t][i].bids)

\* Once started, the engine takes every message a transport's stream
\* yields, unless a stream error has failed it: none is left behind
\* because the engine parked with the other stream not ready.
IngressDrained ==
    \A t \in TIds :
        (engine = "taken" /\ avail[t] > 0)
            ~> (avail[t] = 0 \/ engine_res = "failed" \/ panicked)

\* Each run of Engine::poll ends: once both streams are drained and not
\* ready the engine parks (spec 4.6), rather than keep the thread.
EngineParks == polling ~> ~polling

=============================================================================
