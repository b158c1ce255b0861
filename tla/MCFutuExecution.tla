---------------------------- MODULE MCFutuExecution ----------------------------
(* FutuExecution for TLC: an entry with its exit as a list, and behind them an   *)
(* order that cannot be translated; two paper accounts share one of the markets. *)
(* Beside it the connection cache: in a behaviour one of the two moves, the      *)
(* other rests.                                                                  *)
EXTENDS FutuExecution, FutuContextCache

CONSTANTS o1, o2, o3, hk, us, a1, a2

VARIABLE moving

EntryAndExits == {<<o1, o2, o3>>}
OrderVenue == [o \in Orders |-> IF o = o1 THEN hk ELSE us]
TwoAccounts == <<[id |-> a1, venues |-> {hk, us}], [id |-> a2, venues |-> {us}]>>

FutuInit ==
  /\ moving \in {"execution", "cache"} /\ Init /\ CacheInit
  /\ moving = "execution" => ctxKey = [c \in Contexts |-> CHOOSE k \in CtxKeys : TRUE]
\* A bound: what raises does so at once.
RaisesAtOnce ==
  (\E s \in started : todo[s] # <<>> /\ Head(todo[s]) \in Unmapped) =>
    \E s \in Submissions : SubmitRaises(s)
ExecutionStep == moving = "execution" /\ Next /\ RaisesAtOnce /\ UNCHANGED <<cacheVars, moving>>
CacheStep == moving = "cache" /\ CacheNext /\ UNCHANGED <<vars, moving>>
FutuNext == ExecutionStep \/ CacheStep

\* What rests has nothing that fairness would make it do.
FutuSpec == FutuInit /\ [][FutuNext]_<<vars, cacheVars, moving>> /\ Fairness /\ CacheFairness
=============================================================================
