--------------------------- MODULE FutuContextCache ---------------------------
(* The cache of OpenD connections (adapters/futu/connection.py): one context per *)
(* key, shared by the threads that ask for one.  What is done under _CACHE_LOCK  *)
(* is one step; waiting for READY, installing the disconnect handler and closing *)
(* an invalidated context happen outside it.  Notifications arrive on a thread   *)
(* of the SDK.  Quote and trade contexts have caches and keys of their own and   *)
(* differ in nothing else that matters here.                                     *)
EXTENDS Integers, FiniteSets

CONSTANTS
  CtxKeys, Threads,
  Contexts,        \* contexts that can be opened (a bound): an initial part of Nat
  NoContext

ASSUME CacheAssumption ==
  /\ Contexts \subseteq Nat /\ NoContext \notin Contexts
  /\ \A c \in Contexts : 0..c \subseteq Contexts

VARIABLES
  cached,      \* _QUOTE_CACHE or _TRADE_CACHE
  ctxState,    \* per context: "unused", "connecting", "ready", "down" or "closed"
  ctxKey,      \* the key a context was opened for
  watched,     \* contexts with a _FutuDisconnectHandler
  getter,      \* what a thread is doing in get_cached_futu_*_context
  held,        \* the context a thread was last given
  notices,     \* contexts whose disconnect notification is under way
  closing      \* contexts taken out of the cache that are still to be closed

cacheVars == <<cached, ctxState, ctxKey, watched, getter, held, notices, closing>>

CtxStates == {"unused", "connecting", "ready", "down", "closed"}
Connected == {"connecting", "ready", "down"}    \* uses a connection, or tries to
Resting == [at |-> "rest", ctx |-> NoContext]

CacheInit ==
  /\ cached = [k \in CtxKeys |-> NoContext]
  /\ ctxState = [c \in Contexts |-> "unused"]
  /\ ctxKey \in [Contexts -> CtxKeys]
  /\ watched = {} /\ notices = {} /\ closing = {}
  /\ getter = [t \in Threads |-> Resting]
  /\ held = [t \in Threads |-> NoContext]

-----------------------------------------------------------------------------
(* get_cached_futu_quote_context and get_cached_futu_trade_context *)

GetReady(t, k) ==
  /\ getter[t] = Resting
  /\ cached[k] # NoContext /\ ctxState[cached[k]] = "ready"
  /\ held' = [held EXCEPT ![t] = cached[k]]
  /\ UNCHANGED <<cached, ctxState, ctxKey, watched, getter, notices, closing>>

\* A cached context that is not READY is closed and another one opened.
ReplacedNotClosed(k, c) ==                               \* mutant: the old one stays open
  [ctxState EXCEPT ![c] = "connecting"]
Replaced(k, c) ==
  [x \in Contexts |-> IF x = c THEN "connecting"
                      ELSE IF x = cached[k] THEN "closed" ELSE ctxState[x]]

GetAnew(t, k, c) ==
  /\ getter[t] = Resting
  /\ cached[k] # NoContext => ctxState[cached[k]] # "ready"
  /\ ctxState[c] = "unused" /\ \A d \in 0..(c - 1) : ctxState[d] # "unused"
  /\ ctxState' = Replaced(k, c)
  /\ ctxKey' = [ctxKey EXCEPT ![c] = k]
  /\ cached' = [cached EXCEPT ![k] = c]
  /\ getter' = [getter EXCEPT ![t] = [at |-> "wait", ctx |-> c]]
  /\ UNCHANGED <<watched, held, notices, closing>>

\* _wait_for_ready, three ways out: READY, closed by somebody else, or too late.
\* After the last two the context stays where it is, cached or not, unwatched.
Ready(t) ==
  /\ getter[t].at = "wait" /\ ctxState[getter[t].ctx] = "ready"
  /\ getter' = [getter EXCEPT ![t].at = "watch"]
  /\ UNCHANGED <<cached, ctxState, ctxKey, watched, held, notices, closing>>
GivesUp(t) ==
  /\ getter[t].at = "wait" /\ ctxState[getter[t].ctx] # "ready"
  /\ getter' = [getter EXCEPT ![t] = Resting]
  /\ UNCHANGED <<cached, ctxState, ctxKey, watched, held, notices, closing>>

SetHandler(t) ==
  /\ getter[t].at = "watch"
  /\ watched' = watched \cup {getter[t].ctx}
  /\ held' = [held EXCEPT ![t] = getter[t].ctx]
  /\ getter' = [getter EXCEPT ![t] = Resting]
  /\ UNCHANGED <<cached, ctxState, ctxKey, notices, closing>>

-----------------------------------------------------------------------------
(* Disconnects *)

\* _invalidate_context: whatever is cached under the key of the handler, which
\* may be a later context than the one the notification is about.
PoppedForgotten(c) == UNCHANGED closing                  \* mutant: not closed
Popped(c) == closing' = closing \cup ({cached[ctxKey[c]]} \ {NoContext})

OnRecvRsp(c) ==
  /\ c \in notices
  /\ notices' = notices \ {c}
  /\ Popped(c)
  /\ cached' = [cached EXCEPT ![ctxKey[c]] = NoContext]
  /\ UNCHANGED <<ctxState, ctxKey, watched, getter, held>>

CloseContext(c) ==
  /\ c \in closing
  /\ closing' = closing \ {c}
  /\ ctxState' = [ctxState EXCEPT ![c] = "closed"]
  /\ UNCHANGED <<cached, ctxKey, watched, getter, held, notices>>

\* _connect of both clients: a context of theirs that is not READY is closed; it
\* may still be in the cache.
ClientCloses(t) ==
  /\ getter[t] = Resting
  /\ held[t] # NoContext /\ ctxState[held[t]] # "ready"
  /\ ctxState' = [ctxState EXCEPT ![held[t]] = "closed"]
  /\ held' = [held EXCEPT ![t] = NoContext]
  /\ UNCHANGED <<cached, ctxKey, watched, getter, notices, closing>>

CloseFutuContexts ==
  /\ closing' = closing \cup {cached[k] : k \in {j \in CtxKeys : cached[j] # NoContext}}
  /\ cached' = [k \in CtxKeys |-> NoContext]
  /\ UNCHANGED <<ctxState, ctxKey, watched, getter, held, notices>>

\* The SDK: connects, loses the connection or the login, and connects again.
Connects(c) ==
  /\ ctxState[c] \in {"connecting", "down"}
  /\ ctxState' = [ctxState EXCEPT ![c] = "ready"]
  /\ UNCHANGED <<cached, ctxKey, watched, getter, held, notices, closing>>
Drops(c) ==
  /\ ctxState[c] = "ready"
  /\ ctxState' = [ctxState EXCEPT ![c] = "down"]
  /\ notices' = notices \cup ({c} \cap watched)
  /\ UNCHANGED <<cached, ctxKey, watched, getter, held, closing>>

-----------------------------------------------------------------------------

CacheNext ==
  \/ \E t \in Threads :
       \/ \E k \in CtxKeys : GetReady(t, k) \/ \E c \in Contexts : GetAnew(t, k, c)
       \/ Ready(t) \/ GivesUp(t) \/ SetHandler(t) \/ ClientCloses(t)
  \/ \E c \in Contexts : OnRecvRsp(c) \/ CloseContext(c) \/ Connects(c) \/ Drops(c)
  \/ CloseFutuContexts

\* Handlers of the SDK run, and a thread that took a context out closes it.
CacheFairness ==
  \A c \in Contexts : WF_cacheVars(OnRecvRsp(c)) /\ WF_cacheVars(CloseContext(c))

CacheSpec == CacheInit /\ [][CacheNext]_cacheVars /\ CacheFairness

-----------------------------------------------------------------------------
(* Properties *)

CacheTypeOK ==
  /\ cached \in [CtxKeys -> Contexts \cup {NoContext}]
  /\ ctxState \in [Contexts -> CtxStates]
  /\ ctxKey \in [Contexts -> CtxKeys]
  /\ {watched, notices, closing} \subseteq SUBSET Contexts
  /\ getter \in [Threads -> {Resting} \cup [at : {"wait", "watch"}, ctx : Contexts]]
  /\ held \in [Threads -> Contexts \cup {NoContext}]

\* No connection is lost track of: between getters that replace a context, late
\* notifications and clients that close on their own, a context that uses a
\* connection to OpenD is the cached one of its key or on its way to be closed.
ContextsAccounted ==
  \A c \in Contexts : ctxState[c] \in Connected => cached[ctxKey[c]] = c \/ c \in closing

\* A watched context that loses its login ends up closed, or has been before.
DisconnectIsActedOn == \A c \in Contexts : c \in notices ~> ctxState[c] = "closed"
=============================================================================
