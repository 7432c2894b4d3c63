------------------------- MODULE IdempotentExecution -------------------------
(***************************************************************************)
(* What an IdempotencyStore promises its callers, with nothing said about  *)
(* how concurrent calls are held back.  For every key the store either has *)
(* an execution in progress, or remembers the response of the last one, or *)
(* knows nothing.  README.md, "Application-owned storage": execute() must  *)
(* "atomically run or replay an operation and reject conflicting reuse of  *)
(* the key", and results are kept for at least one hour.                   *)
(***************************************************************************)
EXTENDS Naturals, NoValue

CONSTANTS Tasks,      \* one execute() invocation each
          Keys,       \* (principal, Idempotency-Key) pairs
          Requests,   \* (command, request hash) pairs
          Retention   \* how long a response is kept at least

VARIABLES now,        \* the store's clock
          executing,  \* executing[k]: the task running the operation of k
          memo,       \* memo[k]: the response remembered for k
          answer      \* answer[t]: what the invocation t returned

absVars == <<now, executing, memo, answer>>

\* A response carries the request it answers, the task that computed it and the
\* instant it was created: two executions never produce the same response.
Response == [request : Requests, by : Tasks, at : Nat]

Answer == [state : {"created", "replayed"}, key : Keys, response : Response]
            \cup [state : {"conflict"}, key : Keys]
            \cup [state : {"failed"}]

AbsInit ==
  /\ now = 0
  /\ executing = [k \in Keys |-> None]
  /\ memo = [k \in Keys |-> None]
  /\ answer = [t \in Tasks |-> None]

AbsTick == now' = now + 1 /\ UNCHANGED <<executing, memo, answer>>

\* A response older than the retention may be forgotten, for any set of keys,
\* and a fresh one never is.
Forgotten(kept) ==
  \A k \in Keys :
    \/ kept[k] = memo[k]
    \/ /\ memo[k] # None
       /\ now > memo[k].at + Retention
       /\ kept[k] = None

\* An execution starts only where nothing is remembered and nothing runs.
AbsBegin(t, k) ==
  /\ answer[t] = None
  /\ executing[k] = None
  /\ \A j \in Keys : executing[j] # t
  /\ Forgotten(memo')
  /\ memo'[k] = None
  /\ executing' = [executing EXCEPT ![k] = t]
  /\ UNCHANGED <<now, answer>>

\* It ends with a response that every later call of the key will see ...
AbsSucceed(t, k, r) ==
  LET response == [request |-> r, by |-> t, at |-> now] IN
  /\ executing[k] = t
  /\ executing' = [executing EXCEPT ![k] = None]
  /\ memo' = [memo EXCEPT ![k] = response]
  /\ answer' = [answer EXCEPT ![t] =
                  [state |-> "created", key |-> k, response |-> response]]
  /\ UNCHANGED now

\* ... or with an exception, and then it leaves no trace in the store.
AbsFail(t) ==
  /\ answer[t] = None
  /\ executing' = [k \in Keys |-> IF executing[k] = t THEN None ELSE executing[k]]
  /\ answer' = [answer EXCEPT ![t] = [state |-> "failed"]]
  /\ UNCHANGED <<now, memo>>

\* A remembered response answers the same request and refuses another one.
AbsLookup(t, k, r) ==
  /\ answer[t] = None
  /\ \A j \in Keys : executing[j] # t
  /\ Forgotten(memo')
  /\ memo'[k] # None
  /\ answer' = [answer EXCEPT ![t] =
       IF memo[k].request = r
         THEN [state |-> "replayed", key |-> k, response |-> memo[k]]
         ELSE [state |-> "conflict", key |-> k]]
  /\ UNCHANGED <<now, executing>>

\* Looking at the store without an outcome may still discard old responses.
AbsForget == Forgotten(memo') /\ UNCHANGED <<now, executing, answer>>

AbsNext ==
  \/ AbsTick
  \/ AbsForget
  \/ \E t \in Tasks : AbsFail(t)
  \/ \E t \in Tasks, k \in Keys : AbsBegin(t, k)
  \/ \E t \in Tasks, k \in Keys, r \in Requests : AbsSucceed(t, k, r) \/ AbsLookup(t, k, r)

AbsSpec == AbsInit /\ [][AbsNext]_absVars
=============================================================================
