------------------------- MODULE TransactionWindow -------------------------
(***************************************************************************)
(* The sliding window of transactions in Redis (app/api/transaction.py):   *)
(* append_to_redis writes a hash with a time to live and two sorted sets   *)
(* per transaction and trims the sets; get_volume and                      *)
(* get_customer_transaction_volume count in them.  All of them are retried *)
(* from their first command on (app/api/retry.py), within one call of the  *)
(* circuit breaker.  Requests of any number of API processes interleave    *)
(* between any two commands, and a failing command may have been executed. *)
(* There is one clock; the sorted sets keep one score per token, and a     *)
(* token belongs to one request.                                           *)
(***************************************************************************)
EXTENDS Integers, Sequences

CONSTANTS
  Requests,    \* calls of append_to_redis
  Batch,       \* per request: the tokens of its transactions
  CustomerOf,  \* per token: its customer
  Readers,     \* calls of the two counting functions
  Window,      \* WINDOW_SECONDS, in ticks
  MaxAttempts, \* max_retries of retry_with_backoff
  MaxClock,    \* bound: the last tick
  MaxFaults    \* bound: commands that fail in a behaviour

Tokens == DOMAIN CustomerOf
Customers == {CustomerOf[k] : k \in Tokens}

ASSUME WindowAssumption ==
  /\ Batch \in [Requests -> Seq(Tokens)]
  /\ \A k \in Tokens : \E a \in Requests : \E i \in DOMAIN Batch[a] : Batch[a][i] = k
  /\ \A a, b \in Requests : \A i \in DOMAIN Batch[a], j \in DOMAIN Batch[b] :
       Batch[a][i] = Batch[b][j] => a = b /\ i = j
  /\ "all" \notin Customers
  /\ Window \in Nat \ {0} /\ MaxAttempts \in Nat \ {0}
  /\ MaxClock \in Nat /\ MaxFaults \in Nat

VARIABLES
  clock,
  data,          \* per token: when its hash txn:<token> expires
  index,         \* the sorted set "transactions": the score of each token
  customerIndex, \* the sorted sets customer_index:<customer>, likewise
  request,       \* per request: the command it is at, the transaction, the attempt
  stamp,         \* per token: "now" when its transaction was last begun
  reader,        \* per reader: likewise, and its "now"
  faults         \* commands that failed and processes that died

redisVars == <<data, index, customerIndex>>
vars == <<clock, redisVars, request, stamp, reader, faults>>

NoScore == -1
Absent == -1
Forever == MaxClock + Window + 1
Commands == {"hset", "expire", "zadd", "zaddCustomer", "trimCustomer", "trim"}

TypeOK ==
  /\ clock \in 0..MaxClock
  /\ data \in [Tokens -> Absent..Forever]
  /\ index \in [Tokens -> NoScore..MaxClock]
  /\ customerIndex \in [Tokens -> NoScore..MaxClock]
  /\ stamp \in [Tokens -> 0..MaxClock]
  /\ request \in [Requests -> [at : Commands \cup {"idle", "sleep", "done", "raised"},
                               position : Nat \ {0}, attempt : 1..MaxAttempts]]
  /\ \A a \in Requests : request[a].at \in Commands \ {"trim"} =>
       request[a].position \in DOMAIN Batch[a]
  /\ reader \in [Readers -> [at : {"idle", "count"}, attempt : 1..MaxAttempts,
                             now : 0..MaxClock]]
  /\ faults \in 0..MaxFaults

NewRequest == [at |-> "idle", position |-> 1, attempt |-> 1]
NewReader == [at |-> "idle", attempt |-> 1, now |-> 0]

Init ==
  /\ clock = 0 /\ faults = 0
  /\ data = [k \in Tokens |-> Absent]
  /\ index = [k \in Tokens |-> NoScore] /\ customerIndex = index
  /\ request = [a \in Requests |-> NewRequest]
  /\ stamp = [k \in Tokens |-> 0]
  /\ reader = [r \in Readers |-> NewReader]

-----------------------------------------------------------------------------
(* A command is answered, refused, or executed without its reply arriving.  *)

Outcomes == {"ok", "refused", "replyLost"}
Fault == faults < MaxFaults /\ faults' = faults + 1
Redis(o) == IF o = "ok" THEN UNCHANGED faults ELSE Fault
Executed(o, new, old) == IF o = "refused" THEN old ELSE new

HasData(k) == data[k] # Absent /\ (data[k] = Forever \/ clock <= data[k])

\* Mutant: the window is cut one tick short.
Older_Early(set, time) == {k \in Tokens : set[k] <= time - Window + 1}

\* ZREMRANGEBYSCORE removes what is a window old.
Older(set, time) == {k \in Tokens : set[k] <= time - Window}
Without(set, S) == [k \in Tokens |-> IF k \in S THEN NoScore ELSE set[k]]

-----------------------------------------------------------------------------
(* append_to_redis                                                          *)

At(a, p) == request[a].at = p
Token(a) == Batch[a][request[a].position]

\* The loop is at its i-th transaction: "now" is read; after the last, trim.
Begin(a, i, attempt) ==
  IF i \in DOMAIN Batch[a]
    THEN /\ request' = [request EXCEPT ![a] = [at |-> "hset", position |-> i, attempt |-> attempt]]
         /\ stamp' = [stamp EXCEPT ![Batch[a][i]] = clock]
    ELSE /\ request' = [request EXCEPT ![a] = [at |-> "trim", position |-> i, attempt |-> attempt]]
         /\ UNCHANGED stamp

Start(a) ==
  /\ At(a, "idle") /\ Begin(a, 1, 1)
  /\ UNCHANGED <<clock, redisVars, reader, faults>>

\* Mutant: the retry goes on behind the transaction that failed.
Resumed_Behind(a) == request[a].position + 1

\* The operation is repeated from its first transaction on.
Resumed(a) == 1

Retry(a) ==
  /\ At(a, "sleep") /\ Begin(a, Resumed(a), request[a].attempt + 1)
  /\ UNCHANGED <<clock, redisVars, reader, faults>>

\* retry_with_backoff: after a failure sleep and try again, or raise.
Fails(a) ==
  /\ request' = [request EXCEPT ![a].at =
       IF request[a].attempt < MaxAttempts THEN "sleep" ELSE "raised"]
  /\ UNCHANGED stamp

\* The command at c; the next one follows, or a retry.
Send(a, c, next, o) ==
  /\ At(a, c) /\ Redis(o)
  /\ IF o = "ok" THEN request' = [request EXCEPT ![a].at = next] /\ UNCHANGED stamp ELSE Fails(a)
  /\ UNCHANGED <<clock, reader>>

\* HSET keeps the time to live of a hash that is there.
HSet(a, o) ==
  /\ Send(a, "hset", "expire", o)
  /\ data' = Executed(o, [data EXCEPT ![Token(a)] = IF HasData(Token(a)) THEN @ ELSE Forever], data)
  /\ UNCHANGED <<index, customerIndex>>

\* EXPIRE of a hash that is gone does nothing.
Expire(a, o) ==
  /\ Send(a, "expire", "zadd", o)
  /\ data' = Executed(o,
       [data EXCEPT ![Token(a)] = IF HasData(Token(a)) THEN clock + Window ELSE @], data)
  /\ UNCHANGED <<index, customerIndex>>

\* Mutants: the score is the time of the ZADD, or the end of the window.
Score_Fresh(k) == clock
Score_End(k) == stamp[k] + Window

\* The score is the time the transaction was begun, before its hash was written.
Score(k) == stamp[k]

ZAdd(a, o) ==
  /\ Send(a, "zadd", "zaddCustomer", o)
  /\ index' = Executed(o, [index EXCEPT ![Token(a)] = Score(Token(a))], index)
  /\ UNCHANGED <<data, customerIndex>>

ZAddCustomer(a, o) ==
  /\ Send(a, "zaddCustomer", "trimCustomer", o)
  /\ customerIndex' = Executed(o, [customerIndex EXCEPT ![Token(a)] = Score(Token(a))], customerIndex)
  /\ UNCHANGED <<data, index>>

\* This customer's set is trimmed up to the time the transaction was begun; the
\* loop goes on.
TrimCustomer(a, o) ==
  /\ At(a, "trimCustomer") /\ Redis(o)
  /\ LET stale == {k \in Older(customerIndex, stamp[Token(a)]) :
                     CustomerOf[k] = CustomerOf[Token(a)]}
     IN  customerIndex' = Executed(o, Without(customerIndex, stale), customerIndex)
  /\ IF o = "ok" THEN Begin(a, request[a].position + 1, request[a].attempt) ELSE Fails(a)
  /\ UNCHANGED <<clock, data, index, reader>>

\* The global set is trimmed once, with the time of the command.
Trim(a, o) ==
  /\ Send(a, "trim", "done", o)
  /\ index' = Executed(o, Without(index, Older(index, clock)), index)
  /\ UNCHANGED <<data, customerIndex>>

\* The breaker is open, or the API process dies in the middle of a batch.  Every
\* failure leaves append_to_redis as an exception: "except redis.RedisError"
\* looks for the class in app.shared.redis, which has none.
Abandon(a) ==
  /\ request[a].at \in Commands \cup {"idle", "sleep"}
  /\ Fault
  /\ request' = [request EXCEPT ![a].at = "raised", ![a].position = 1]
  /\ UNCHANGED <<clock, redisVars, stamp, reader>>

-----------------------------------------------------------------------------
(* get_volume ("all") and get_customer_transaction_volume: what is counted  *)
(* makes no difference to the steps.                                        *)

\* "now" is read before the first attempt and kept for all of them.
Ask(r) ==
  /\ reader[r].at = "idle"
  /\ reader' = [reader EXCEPT ![r] = [at |-> "count", attempt |-> 1, now |-> clock]]
  /\ UNCHANGED <<clock, redisVars, request, stamp, faults>>

\* The answer is returned and kept nowhere, the call's locals go, and the reader
\* may call again.
Return(r) ==
  /\ reader' = [reader EXCEPT ![r] = NewReader]
  /\ UNCHANGED <<clock, redisVars, request, stamp>>

\* Mutant: the window ends before "now".
Counted_Exclusive(set, now) ==
  {k \in Tokens : set[k] # NoScore /\ set[k] >= now - Window /\ set[k] < now}

\* ZCOUNT from now - WINDOW_SECONDS to now, both included.
Counted(set, now) == {k \in Tokens : set[k] # NoScore /\ set[k] >= now - Window /\ set[k] <= now}

\* The tokens whose number Redis answers when asked about c.
Answer(r, c) ==
  IF c = "all" THEN Counted(index, reader[r].now)
  ELSE {k \in Counted(customerIndex, reader[r].now) : CustomerOf[k] = c}

Count(r) == reader[r].at = "count" /\ Return(r) /\ UNCHANGED faults

\* The breaker is open, or the last attempt failed: the answer is 0.
GiveUp(r) ==
  /\ reader[r].at = "count" /\ reader[r].attempt \in {1, MaxAttempts}
  /\ Fault /\ Return(r)

\* After the sleep the same command is sent again; time passes before any command.
CountFails(r) ==
  /\ reader[r].at = "count" /\ reader[r].attempt < MaxAttempts
  /\ Fault
  /\ reader' = [reader EXCEPT ![r].attempt = @ + 1]
  /\ UNCHANGED <<clock, redisVars, request, stamp>>

-----------------------------------------------------------------------------
Tick ==
  /\ clock < MaxClock /\ clock' = clock + 1
  /\ UNCHANGED <<redisVars, request, stamp, reader, faults>>

AppendStep(a) ==
  \/ Start(a) \/ Retry(a) \/ Abandon(a)
  \/ \E o \in Outcomes :
       \/ HSet(a, o) \/ Expire(a, o) \/ ZAdd(a, o) \/ ZAddCustomer(a, o)
       \/ TrimCustomer(a, o) \/ Trim(a, o)

ReadStep(r) == Ask(r) \/ Count(r) \/ CountFails(r) \/ GiveUp(r)

Next == Tick \/ (\E a \in Requests : AppendStep(a)) \/ (\E r \in Readers : ReadStep(r))

Spec == Init /\ [][Next]_vars

-----------------------------------------------------------------------------
(* Properties                                                               *)

Appended(k) == \E a \in Requests : At(a, "done") /\ \E i \in DOMAIN Batch[a] : Batch[a][i] = k

InWindow(score, time) == score # NoScore /\ score + Window > time

\* A transaction whose append has returned stays in both sorted sets for the
\* whole window: neither the trims of other requests, made with other times,
\* nor a retry that repeats half of a batch takes it out
\* (transaction.py:60-63 under retry.py:23-26).
KeptForTheWindow ==
  \A k \in Tokens : Appended(k) /\ InWindow(stamp[k], clock) =>
    index[k] = stamp[k] /\ customerIndex[k] = stamp[k]

\* What the global set still counts has its details: the hash, whose time to
\* live is set by a command of its own, outlives the entry (transaction.py:49-55).
\* On a retry the old time to live may end between HSET and EXPIRE.
IndexedHasData ==
  \A a \in Requests : \A i \in DOMAIN Batch[a] :
    LET k == Batch[a][i] IN
    request[a].attempt = 1 /\ index[k] # NoScore /\ index[k] + Window >= clock => HasData(k)

\* An append that returned leaves no hash without a time to live, although a
\* failing EXPIRE does (transaction.py:49-50).
NothingKeptForever ==
  \A k \in Tokens : Appended(k) => data[k] # Forever

\* A customer's volume is part of the global one, between any two commands of
\* any request: what counts for the customer counts at least as long globally
\* (transaction.py:55-60).
CustomerWithinGlobal ==
  \A k \in Tokens : InWindow(customerIndex[k], clock) => index[k] >= customerIndex[k]

\* The answer to a reader holds every transaction that was begun before it asked,
\* whose append has returned and whose window has not ended, although "now" was
\* read before the first of several attempts (transaction.py:87-93, 112-118).
ReadIsComplete ==
  \A r \in Readers, k \in Tokens :
    /\ reader[r].at = "count"
    /\ Appended(k) /\ stamp[k] <= reader[r].now /\ InWindow(stamp[k], clock)
    => k \in Answer(r, "all") /\ k \in Answer(r, CustomerOf[k])
=============================================================================
