---------------------------- MODULE FutuDataClient ----------------------------
(* The Futu data client (adapters/futu/data.py with the push handlers of         *)
(* parsing/market_data.py): what it tracks, what OpenD has subscribed for the    *)
(* session, and the quota entries of its subscription manager, if it was given   *)
(* one.  A subscribe or unsubscribe runs without giving way, so it is one step;  *)
(* pushes come from an SDK thread and pass through _queue.  OpenD is external.   *)
EXTENDS FutuSubscriptionManager, Sequences

LOCAL INSTANCE Functions

CONSTANTS
  Subscriptions,     \* [instrument, dataType, name]; a bar type is one of KLINE
  NoHandler,
  MaxQueue, MaxRefusals    \* bounds

\* No two bar types of an instrument map to one K-line subtype of OpenD, and but for
\* bars an instrument has one subscription of a data type.
ASSUME DataClientAssumption ==
  /\ Subscriptions \subseteq [instrument : InstrumentIds, dataType : DataTypes, name : STRING]
  /\ \A s, t \in Subscriptions :
       s.dataType # "KLINE" /\ s.dataType = t.dataType /\ s.instrument = t.instrument => s = t
  /\ {MaxQueue, MaxRefusals} \subseteq Nat

VARIABLES
  quoteCtx,        \* _quote_ctx: "none", "ready" or "lost"
  pushing,         \* the push loop runs: between _connect and _disconnect
  tracked,         \* _quote_tick_subs, _trade_tick_subs, _order_book_subs, _bar_subs
  atOpenD,         \* subscriptions of the session
  klineHandler,    \* the bar type of the session's CurKlineHandler
  pushed,          \* _queue
  managed,         \* a subscription manager was passed
  refusals,        \* subscriptions OpenD refused (counted for the bound)
  unrestored       \* tracked subscriptions OpenD refused on reconnect (history)

dataVars == <<subs, clock, quoteCtx, pushing, tracked, atOpenD, klineHandler, pushed,
              managed, refusals, unrestored>>

IsBar(s) == s.dataType = "KLINE"
Row == {"good", "malformed", "blank"}

DataInit ==
  /\ Init
  /\ quoteCtx = "none" /\ pushing = FALSE
  /\ tracked = {} /\ atOpenD = {} /\ klineHandler = NoHandler
  /\ pushed = <<>>
  /\ managed \in BOOLEAN
  /\ refusals = 0 /\ unrestored = {}

-----------------------------------------------------------------------------
(* Connection *)

\* _connect: a session, the handlers, the push loop, every tracked subscription
\* again, whatever OpenD answers, and the handler of the last bar type.
Restored(refused) == atOpenD' = tracked \ refused
DataConnect ==
  /\ ~pushing
  /\ pushing' = TRUE /\ quoteCtx' = "ready"
  /\ \E refused \in SUBSET tracked :
       /\ refusals + Cardinality(refused) <= MaxRefusals
       /\ refusals' = refusals + Cardinality(refused)
       /\ Restored(refused)
       /\ unrestored' = refused
  /\ LET bars == {s \in tracked : IsBar(s)}
     IN IF bars = {} THEN UNCHANGED klineHandler ELSE klineHandler' \in bars
  /\ UNCHANGED <<subs, clock, tracked, pushed, managed>>

\* _disconnect: the push loop ends, OpenD is told to forget everything; what is
\* tracked, queued and counted by the manager stays.
DataDisconnect ==
  /\ pushing
  /\ pushing' = FALSE /\ quoteCtx' = "none" /\ atOpenD' = {}
  /\ UNCHANGED <<subs, clock, tracked, klineHandler, pushed, managed, refusals, unrestored>>

QuoteSessionDrops ==
  /\ quoteCtx = "ready"
  /\ quoteCtx' = "lost" /\ atOpenD' = {} /\ klineHandler' = NoHandler
  /\ UNCHANGED <<subs, clock, pushing, tracked, pushed, managed, refusals, unrestored>>

-----------------------------------------------------------------------------
(* The four subscribe and the four unsubscribe handlers *)

\* What the manager may answer and leave behind; without one everything goes.
Answers(s) ==
  LET m == subs[s.dataType]
  IN IF managed THEN SubscribeOutcomes(m, s.dataType, s.instrument, FALSE)
     ELSE {[ok |-> TRUE, map |-> m]}
Release(m, s) == IF managed THEN Without(m, s.instrument) ELSE m

\* The manager first, then OpenD; if OpenD does not take it the quota is released.
\* The engine does not ask again for what it has.
SubscribeTaken(s) ==
  /\ quoteCtx = "ready"
  /\ \E answer \in Answers(s) :
       /\ answer.ok
       /\ subs' = [subs EXCEPT ![s.dataType] = answer.map]
  /\ tracked' = tracked \cup {s} /\ atOpenD' = atOpenD \cup {s}
  /\ unrestored' = unrestored \ {s}
  /\ klineHandler' = IF IsBar(s) THEN s ELSE klineHandler
  /\ UNCHANGED <<clock, quoteCtx, pushing, pushed, managed, refusals>>

SubscribeFailed(s) ==
  /\ quoteCtx # "none" /\ refusals < MaxRefusals
  /\ refusals' = refusals + 1
  /\ s \notin tracked
  /\ \E answer \in Answers(s) :
       subs' = [subs EXCEPT ![s.dataType] =
                  IF answer.ok THEN Release(answer.map, s) ELSE answer.map]
  /\ UNCHANGED <<clock, quoteCtx, pushing, tracked, atOpenD, klineHandler, pushed, managed,
                 unrestored>>

UnsubscribeReleasesAll(s) ==                             \* mutant: for every data type
  /\ tracked' = tracked \ {s}
  /\ subs' = [dt \in DataTypes |-> Release(subs[dt], s)]
  /\ atOpenD' = atOpenD \ {s}
  /\ unrestored' = unrestored \ {s}
  /\ UNCHANGED <<clock, quoteCtx, pushing, klineHandler, pushed, managed, refusals>>
UnsubscribeSub(s) ==
  /\ tracked' = tracked \ {s}
  /\ subs' = [subs EXCEPT ![s.dataType] = Release(@, s)]
  /\ atOpenD' = IF quoteCtx = "ready" THEN atOpenD \ {s} ELSE atOpenD
  /\ unrestored' = unrestored \ {s}
  /\ UNCHANGED <<clock, quoteCtx, pushing, klineHandler, pushed, managed, refusals>>

-----------------------------------------------------------------------------
(* Pushes *)

\* Tick and book handlers skip a malformed row; one malformed K-line row costs the
\* whole batch.  A blank K-line is no bar.  A bar gets the handler's bar type.
Parsed(s, rows) ==
  IF ~IsBar(s) THEN [i \in 1..Len(SelectSeq(rows, LAMBDA r : r # "malformed")) |-> s]
  ELSE IF "malformed" \in Range(rows) THEN <<>>
  ELSE [i \in 1..Len(SelectSeq(rows, LAMBDA r : r = "good")) |-> klineHandler]

Pushes(s, rows) ==
  /\ s \in atOpenD
  /\ IsBar(s) => klineHandler # NoHandler
  /\ Len(pushed) + Len(rows) <= MaxQueue
  /\ pushed' = pushed \o Parsed(s, rows)
  /\ UNCHANGED <<subs, clock, quoteCtx, pushing, tracked, atOpenD, klineHandler, managed,
                 refusals, unrestored>>

\* _run_push_loop, one item.
HandleData ==
  /\ pushing /\ pushed # <<>>
  /\ pushed' = Tail(pushed)
  /\ UNCHANGED <<subs, clock, quoteCtx, pushing, tracked, atOpenD, klineHandler, managed,
                 refusals, unrestored>>

-----------------------------------------------------------------------------

DataNext ==
  \/ DataConnect \/ DataDisconnect \/ QuoteSessionDrops \/ HandleData
  \/ \E s \in Subscriptions :
       \/ SubscribeTaken(s) \/ SubscribeFailed(s) \/ UnsubscribeSub(s)
       \/ \E rows \in {<<r>> : r \in Row} \cup {<<"malformed", "good">>} : Pushes(s, rows)

DataSpec == DataInit /\ [][DataNext]_dataVars

-----------------------------------------------------------------------------
(* Properties *)

\* Over refusals, lost sessions and reconnects: while the client has a session,
\* every subscription it tracks stands at OpenD, unless OpenD refused to restore
\* it; and, bars apart, the manager still has its quota entry.
TrackedAreLive == pushing /\ quoteCtx = "ready" => tracked \subseteq atOpenD \cup unrestored
QuotaCovers ==
  managed => \A s \in tracked : ~IsBar(s) => subs[s.dataType][s.instrument].active
SubscriptionsKept == TrackedAreLive /\ QuotaCovers
=============================================================================
