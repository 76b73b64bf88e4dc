---------------------- MODULE TransactionWindow_proofs ----------------------
(***************************************************************************)
(* Safety of the sliding window for any requests, batches, customers,      *)
(* readers, window, number of attempts and number of failing commands.     *)
(***************************************************************************)
EXTENDS TransactionWindow, TLAPS

-----------------------------------------------------------------------------
(* The inductive invariant.                                                 *)

\* The i-th transaction of a request has got to one of the commands in S, or is
\* behind, in the attempt under way.
Reached(a, i, S) ==
  /\ request[a].at \in Commands \cup {"done"}
  /\ i < request[a].position \/ (i = request[a].position /\ request[a].at \in S)

\* Its HSET is still to come, or its EXPIRE is next.
Ahead(a, i) ==
  /\ request[a].at \in Commands \cup {"idle"}
  /\ \/ i > request[a].position
     \/ i = request[a].position /\ request[a].at \in {"idle", "hset"}

Expiring(a, i) == request[a].at = "expire" /\ i = request[a].position

Dated == {"zadd", "zaddCustomer", "trimCustomer"}
Indexed == {"zaddCustomer", "trimCustomer"}

\* Where a request stands in its batch and in its attempts.
Placed ==
  \A a \in Requests :
    /\ request[a].at \in Commands \ {"trim"} => request[a].position \in DOMAIN Batch[a]
    /\ request[a].at \in {"trim", "done"} => request[a].position = Len(Batch[a]) + 1
    /\ request[a].at = "idle" => request[a].position = 1 /\ request[a].attempt = 1
    /\ request[a].at = "sleep" => request[a].attempt < MaxAttempts

\* Nothing is dated after the clock, no score after its transaction was begun.
Timed ==
  /\ \A k \in Tokens : /\ index[k] <= stamp[k] /\ customerIndex[k] <= stamp[k]
                       /\ stamp[k] <= clock
  /\ \A r \in Readers : reader[r].now <= clock

\* What the commands of the attempt under way have written is there: the time to
\* live, and while the window lasts the two scores.
Written(a, i) ==
  LET k == Batch[a][i] IN
  /\ Reached(a, i, Dated) => data[k] # Forever
  /\ Reached(a, i, Indexed) /\ InWindow(stamp[k], clock) => index[k] = stamp[k]
  /\ Reached(a, i, {"trimCustomer"}) /\ InWindow(stamp[k], clock) =>
       customerIndex[k] = stamp[k]

\* In the first attempt no hash is there before its HSET, so that EXPIRE finds
\* the one just written, and the hash outlives its entry in the index.
First(a, i) ==
  LET k == Batch[a][i] IN
  request[a].attempt = 1 =>
       /\ Ahead(a, i) => data[k] = Absent
       /\ Expiring(a, i) => data[k] = Forever
       /\ Reached(a, i, Dated) => data[k] >= stamp[k] + Window
       /\ index[k] # NoScore => data[k] >= index[k] + Window

Entries == \A a \in Requests : \A i \in DOMAIN Batch[a] : Written(a, i) /\ First(a, i)

IInv == TypeOK /\ Placed /\ Timed /\ Entries /\ CustomerWithinGlobal

-----------------------------------------------------------------------------
(* Constants and records.                                                   *)

\* Batches are lists of tokens, and a token has one place in one of them.
LEMMA Batches ==
  /\ \A a \in Requests : Len(Batch[a]) \in Nat /\ DOMAIN Batch[a] = 1..Len(Batch[a])
  /\ \A a \in Requests : \A i \in DOMAIN Batch[a] : Batch[a][i] \in Tokens
  /\ \A a, b \in Requests : \A i \in DOMAIN Batch[a], j \in DOMAIN Batch[b] :
       Batch[a][i] = Batch[b][j] => a = b /\ i = j
  <1>1. \A a \in Requests : Batch[a] \in Seq(Tokens)
    BY WindowAssumption
  <1>2. \A a \in Requests : \A i \in 1..Len(Batch[a]) : Batch[a][i] \in Tokens
    BY <1>1
  <1> QED BY <1>1, <1>2, WindowAssumption

\* The times a token may carry.
LEMMA Times ==
  /\ Window \in Nat /\ Window > 0 /\ MaxClock \in Nat /\ MaxAttempts \in Nat /\ MaxAttempts >= 1
  /\ Forever \in Nat /\ Forever > MaxClock + Window /\ NoScore = -1 /\ Absent = -1
  BY WindowAssumption DEF Forever, NoScore, Absent

States == Commands \cup {"idle", "sleep", "done", "raised"}
Records == [at : States, position : Nat \ {0}, attempt : 1..MaxAttempts]

\* A request that is changed in its place only.
LEMMA Rerouted ==
  ASSUME NEW a \in Requests, NEW p \in States, TypeOK,
         request' = [request EXCEPT ![a].at = p]
  PROVE  /\ request' \in [Requests -> Records]
         /\ request'[a].at = p /\ request'[a].position = request[a].position
         /\ request'[a].attempt = request[a].attempt
         /\ \A b \in Requests : b # a => request'[b] = request[b]
  BY DEF TypeOK, Records, States

\* What a command does to its request: the next place if it is answered, and
\* otherwise the sleep before another attempt, or the exception.
LEMMA Sent ==
  ASSUME NEW a \in Requests, NEW c \in Commands, NEW next \in States, NEW o \in Outcomes,
         TypeOK, Send(a, c, next, o)
  PROVE  /\ request[a].at = c /\ stamp' = stamp /\ clock' = clock /\ reader' = reader
         /\ request'[a].at = IF o = "ok" THEN next
                            ELSE IF request[a].attempt < MaxAttempts THEN "sleep" ELSE "raised"
         /\ request'[a].position = request[a].position
         /\ request'[a].attempt = request[a].attempt
         /\ \A b \in Requests : b # a => request'[b] = request[b]
         /\ request' \in [Requests -> Records]
         /\ faults' \in 0..MaxFaults
  <1>1. faults' \in 0..MaxFaults
    BY WindowAssumption DEF Send, Redis, Fault, TypeOK
  <1> DEFINE p == IF o = "ok" THEN next
                  ELSE IF request[a].attempt < MaxAttempts THEN "sleep" ELSE "raised"
  <1>2. p \in States
    BY DEF States
  <1>3. request' = [request EXCEPT ![a].at = p] /\ stamp' = stamp
    BY DEF Send, Fails
  <1> HIDE DEF p
  <1>4. /\ request'[a].at = p /\ request'[a].position = request[a].position
        /\ request'[a].attempt = request[a].attempt
        /\ \A b \in Requests : b # a => request'[b] = request[b]
        /\ request' \in [Requests -> Records]
    BY <1>2, <1>3, Rerouted
  <1> QED BY <1>1, <1>3, <1>4 DEF Send, At, p

-----------------------------------------------------------------------------
(* Initially.                                                               *)

\* No command has been sent.
LEMMA InitIInv == Init => IInv
  <1> SUFFICES ASSUME Init PROVE IInv
    OBVIOUS
  <1> USE Times, Batches
  <1>1. TypeOK
    BY WindowAssumption DEF Init, TypeOK, NewRequest, NewReader, Commands
  <1>2. Placed
    BY DEF Init, Placed, NewRequest, Commands
  <1>3. Timed
    BY DEF Init, Timed, NewReader
  <1>4. Entries
    <2> SUFFICES ASSUME NEW a \in Requests, NEW i \in DOMAIN Batch[a]
                 PROVE Written(a, i) /\ First(a, i)
      BY DEF Entries
    <2>1. Batch[a][i] \in Tokens /\ request[a].at = "idle"
      BY DEF Init, NewRequest
    <2> QED BY <2>1 DEF Init, Written, First, Reached, Ahead, Expiring, Commands
  <1>5. CustomerWithinGlobal
    BY DEF Init, CustomerWithinGlobal, InWindow
  <1> QED BY <1>1, <1>2, <1>3, <1>4, <1>5 DEF IInv

-----------------------------------------------------------------------------
(* What a step leaves to the transactions it does not write.                *)

\* A request has got no further with its i-th transaction than before.
NoFurther(a, i) ==
  /\ \A S \in {Dated, Indexed, {"trimCustomer"}} : Reached(a, i, S)' => Reached(a, i, S)
  /\ request'[a].attempt = 1 =>
       /\ request[a].attempt = 1
       /\ Ahead(a, i)' => Ahead(a, i)
       /\ Expiring(a, i)' => Expiring(a, i)

\* A sorted set keeps the score of k, or has lost it at the end of the window.
Outlived(set, new, k) == new[k] = set[k] \/ (new[k] = NoScore /\ set[k] <= clock - Window)

\* A transaction keeps what is written of it through a step that writes nothing
\* of it, takes out of the sorted sets only what is a window old, and dates it
\* again only when the request begins with it.
LEMMA Kept ==
  ASSUME IInv, NEW a \in Requests, NEW i \in DOMAIN Batch[a],
         NEW k, k = Batch[a][i],
         NoFurther(a, i), clock' = clock, data'[k] = data[k],
         Outlived(index, index', k), Outlived(customerIndex, customerIndex', k),
         stamp'[k] = stamp[k] \/ ~ Reached(a, i, Dated)'
  PROVE  Written(a, i)' /\ First(a, i)'
  <1>1. k \in Tokens /\ Written(a, i) /\ First(a, i)
    BY Batches DEF IInv, Entries
  <1>2. /\ clock \in Int /\ Window \in Int /\ data[k] \in Int /\ stamp[k] \in Int
        /\ index[k] \in Int /\ customerIndex[k] \in Int
    BY <1>1, Times DEF IInv, TypeOK
  <1>3. /\ Reached(a, i, Dated)' => Reached(a, i, Dated)
        /\ Reached(a, i, Indexed)' => Reached(a, i, Indexed)
        /\ Reached(a, i, {"trimCustomer"})' => Reached(a, i, {"trimCustomer"})
    BY DEF NoFurther
  <1>4. /\ Reached(a, i, Indexed)' => Reached(a, i, Dated)'
        /\ Reached(a, i, {"trimCustomer"})' => Reached(a, i, Dated)'
    BY DEF Reached, Dated, Indexed
  <1>5. Written(a, i)'
    <2>1. Reached(a, i, Dated)' => data'[k] # Forever
      BY <1>1, <1>3 DEF Written
    <2>2. ASSUME Reached(a, i, Indexed)', InWindow(stamp'[k], clock') PROVE index'[k] = stamp'[k]
      <3>1. stamp'[k] = stamp[k] /\ index[k] = stamp[k]
        BY <1>1, <1>3, <1>4, <2>2 DEF Written
      <3> QED BY <1>2, <2>2, <3>1 DEF InWindow, Outlived
    <2>3. ASSUME Reached(a, i, {"trimCustomer"})', InWindow(stamp'[k], clock')
          PROVE customerIndex'[k] = stamp'[k]
      <3>1. stamp'[k] = stamp[k] /\ customerIndex[k] = stamp[k]
        BY <1>1, <1>3, <1>4, <2>3 DEF Written
      <3> QED BY <1>2, <2>3, <3>1 DEF InWindow, Outlived
    <2> QED BY <2>1, <2>2, <2>3 DEF Written
  <1>6. First(a, i)'
    <2> SUFFICES ASSUME request'[a].attempt = 1
                 PROVE  /\ Ahead(a, i)' => data'[k] = Absent
                        /\ Expiring(a, i)' => data'[k] = Forever
                        /\ Reached(a, i, Dated)' => data'[k] >= stamp'[k] + Window
                        /\ index'[k] # NoScore => data'[k] >= index'[k] + Window
      BY DEF First
    <2>1. request[a].attempt = 1
      BY DEF NoFurther
    <2>2. Reached(a, i, Dated)' => data'[k] >= stamp'[k] + Window
      BY <1>1, <1>3, <2>1 DEF First
    <2>3. index'[k] # NoScore => data'[k] >= index'[k] + Window
      BY <1>1, <2>1 DEF First, Outlived
    <2> QED BY <1>1, <2>1, <2>2, <2>3 DEF First, NoFurther
  <1> QED BY <1>5, <1>6

\* A request that takes no part in a step is where it was.
LEMMA Untouched ==
  ASSUME NEW a \in Requests, NEW i \in DOMAIN Batch[a], request'[a] = request[a]
  PROVE  NoFurther(a, i)
  BY DEF NoFurther, Reached, Ahead, Expiring

\* A command of request a writes of one transaction, the one a is at: it is
\* enough to look at that one.
LEMMA Others ==
  ASSUME IInv, NEW a \in Requests, request[a].at \in Commands \ {"trim"},
         request'[a].position = request[a].position,
         request'[a].attempt = request[a].attempt,
         request'[a].at # "idle",
         \A b \in Requests : b # a => request'[b] = request[b],
         clock' = clock, stamp' = stamp,
         \A k \in Tokens : k # Token(a) =>
           data'[k] = data[k] /\ index'[k] = index[k] /\ customerIndex'[k] = customerIndex[k],
         Written(a, request[a].position)', First(a, request[a].position)'
  PROVE  Entries'
  <1> SUFFICES ASSUME NEW b \in Requests, NEW i \in DOMAIN Batch[b]
               PROVE  Written(b, i)' /\ First(b, i)'
    BY DEF Entries
  <1>1. request[a].position \in DOMAIN Batch[a] /\ request[a].position \in Nat
    BY DEF IInv, TypeOK
  <1>2. CASE b = a /\ i = request[a].position
    BY <1>2
  <1>3. CASE ~ (b = a /\ i = request[a].position)
    <2>1. Batch[b][i] \in Tokens /\ Batch[b][i] # Token(a)
      BY <1>1, <1>3, Batches DEF Token
    <2>2. NoFurther(b, i)
      <3>1. CASE b # a
        BY <3>1, Untouched
      <3>2. CASE b = a
        BY <1>3, <3>2 DEF NoFurther, Reached, Ahead, Expiring
      <3> QED BY <3>1, <3>2
    <2> QED BY <2>1, <2>2, Kept DEF Outlived
  <1> QED BY <1>2, <1>3

-----------------------------------------------------------------------------
(* The commands for one transaction.                                        *)

\* A request sends its commands one after the other, for the same transaction.
LEMMA SentPlaced ==
  ASSUME IInv, NEW a \in Requests, NEW c \in Commands, NEW next \in States, NEW o \in Outcomes,
         Send(a, c, next, o),
         \/ c # "trim" /\ next \in Commands \ {"trim"}
         \/ c = "trim" /\ next = "done",
         data' \in [Tokens -> Absent..Forever],
         index' \in [Tokens -> NoScore..MaxClock],
         customerIndex' \in [Tokens -> NoScore..MaxClock]
  PROVE  TypeOK' /\ Placed' /\ request'[a].at # "idle"
  <1>1. TypeOK /\ Placed
    BY DEF IInv
  <1> DEFINE p == IF o = "ok" THEN next
                  ELSE IF request[a].attempt < MaxAttempts THEN "sleep" ELSE "raised"
  <1>2. /\ request[a].at = c /\ stamp' = stamp /\ clock' = clock /\ reader' = reader
        /\ request'[a].at = p
        /\ request'[a].position = request[a].position
        /\ request'[a].attempt = request[a].attempt
        /\ \A b \in Requests : b # a => request'[b] = request[b]
        /\ request' \in [Requests -> Records]
        /\ faults' \in 0..MaxFaults
    BY <1>1, Sent
  <1>3. p = "sleep" => request[a].attempt < MaxAttempts
    BY DEF Commands
  <1>4. p \in Commands => c # "trim" /\ p # "trim"
    BY DEF Commands
  <1>5. p = "done" => c = "trim"
    BY DEF Commands
  <1>6. p # "idle"
    BY DEF Commands
  <1> HIDE DEF p
  <1>7. Placed'
    <2> SUFFICES ASSUME NEW b \in Requests
        PROVE /\ request'[b].at \in Commands \ {"trim"} => request'[b].position \in DOMAIN Batch[b]
              /\ request'[b].at \in {"trim", "done"} => request'[b].position = Len(Batch[b]) + 1
              /\ request'[b].at = "idle" => request'[b].position = 1 /\ request'[b].attempt = 1
              /\ request'[b].at = "sleep" => request'[b].attempt < MaxAttempts
      BY DEF Placed
    <2>1. CASE b # a
      BY <1>1, <1>2, <2>1 DEF Placed
    <2>2. CASE b = a
      BY <1>1, <1>2, <1>3, <1>4, <1>5, <1>6, <2>2 DEF Placed, Commands
    <2> QED BY <2>1, <2>2
  <1>8. TypeOK'
    BY <1>1, <1>2, <1>7 DEF TypeOK, Placed, Records, States
  <1> QED BY <1>2, <1>6, <1>7, <1>8

\* HSET creates the hash, or leaves the time to live of an earlier attempt.
LEMMA HSetIInv ==
  ASSUME IInv, NEW a \in Requests, NEW o \in Outcomes, HSet(a, o)
  PROVE  IInv'
  <1> DEFINE k == Token(a)
  <1>1. /\ TypeOK /\ Placed /\ Timed /\ Entries /\ CustomerWithinGlobal
        /\ Send(a, "hset", "expire", o) /\ "hset" \in Commands /\ "expire" \in States
        /\ index' = index /\ customerIndex' = customerIndex
    BY DEF IInv, HSet, Commands, States
  <1>2. /\ request[a].at = "hset" /\ stamp' = stamp /\ clock' = clock /\ reader' = reader
        /\ request'[a].at \in {"expire", "sleep", "raised"}
        /\ o # "ok" => request'[a].at # "expire"
        /\ request'[a].position = request[a].position
        /\ request'[a].attempt = request[a].attempt
        /\ \A b \in Requests : b # a => request'[b] = request[b]
    BY <1>1, Sent
  <1>3. request[a].position \in DOMAIN Batch[a] /\ request[a].position \in Nat /\ k \in Tokens
    BY <1>1, <1>2, Batches DEF TypeOK, Token, Commands
  <1>4. /\ data' \in [Tokens -> Absent..Forever]
        /\ \A m \in Tokens : m # k => data'[m] = data[m]
        /\ data'[k] = data[k] \/ data'[k] = Forever
        /\ o = "ok" => data'[k] = IF HasData(k) THEN data[k] ELSE Forever
    BY <1>1, <1>3, Times DEF HSet, Executed, TypeOK
  <1>5. TypeOK' /\ Placed' /\ request'[a].at # "idle"
    BY <1>1, <1>4, SentPlaced DEF TypeOK, Commands
  <1>6. Timed' /\ CustomerWithinGlobal'
    BY <1>1, <1>2 DEF Timed, CustomerWithinGlobal, InWindow
  <1>7. Written(a, request[a].position)'
    BY <1>2, <1>3 DEF Written, Reached, Commands, Dated, Indexed
  <1>8. First(a, request[a].position)'
    <2>1. First(a, request[a].position) /\ k = Batch[a][request[a].position]
      BY <1>1, <1>3 DEF Entries, Token
    <2> SUFFICES ASSUME request'[a].attempt = 1
                 PROVE  /\ o = "ok" => data'[k] = Forever
                        /\ index[k] # NoScore => data'[k] >= index[k] + Window
      BY <1>1, <1>2, <1>3, <2>1 DEF First, Ahead, Expiring, Reached, Commands, Dated
    <2>2. Ahead(a, request[a].position)
      BY <1>2 DEF Ahead, Commands
    <2>3. data[k] = Absent
      BY <1>2, <2>1, <2>2 DEF First
    <2>4. ~ HasData(k)
      BY <2>3 DEF HasData
    <2>5. index[k] # NoScore => data[k] >= index[k] + Window
      BY <1>2, <2>1 DEF First
    <2>6. index[k] \in Int /\ index[k] <= MaxClock
      BY <1>1, <1>3, Times DEF TypeOK
    <2> QED BY <1>4, <2>4, <2>5, <2>6, Times
  <1>9. Entries'
    BY <1>1, <1>2, <1>4, <1>5, <1>7, <1>8, Others DEF Commands
  <1> QED BY <1>5, <1>6, <1>9 DEF IInv

\* EXPIRE gives the hash the whole window, counted from a time no earlier than
\* the stamp.
LEMMA ExpireIInv ==
  ASSUME IInv, NEW a \in Requests, NEW o \in Outcomes, Expire(a, o)
  PROVE  IInv'
  <1> DEFINE k == Token(a)
  <1>1. /\ TypeOK /\ Placed /\ Timed /\ Entries /\ CustomerWithinGlobal
        /\ Send(a, "expire", "zadd", o) /\ "expire" \in Commands /\ "zadd" \in States
        /\ index' = index /\ customerIndex' = customerIndex
    BY DEF IInv, Expire, Commands, States
  <1>2. /\ request[a].at = "expire" /\ stamp' = stamp /\ clock' = clock /\ reader' = reader
        /\ request'[a].at \in {"zadd", "sleep", "raised"}
        /\ o # "ok" => request'[a].at # "zadd"
        /\ request'[a].position = request[a].position
        /\ request'[a].attempt = request[a].attempt
        /\ \A b \in Requests : b # a => request'[b] = request[b]
    BY <1>1, Sent
  <1>3. request[a].position \in DOMAIN Batch[a] /\ request[a].position \in Nat /\ k \in Tokens
    BY <1>1, <1>2, Batches DEF TypeOK, Token, Commands
  <1>4. /\ clock \in 0..MaxClock /\ index[k] \in Int /\ stamp[k] \in Int /\ data[k] \in Int
        /\ index[k] <= clock /\ stamp[k] <= clock
    BY <1>1, <1>3, Times DEF TypeOK, Timed
  <1>5. clock + Window \in Absent..Forever /\ clock + Window # Forever
    BY <1>4, Times
  <1>6. /\ data' \in [Tokens -> Absent..Forever]
        /\ \A m \in Tokens : m # k => data'[m] = data[m]
        /\ data'[k] = data[k] \/ data'[k] = clock + Window
        /\ o = "ok" => data'[k] = IF HasData(k) THEN clock + Window ELSE data[k]
    BY <1>1, <1>3, <1>5 DEF Expire, Executed, TypeOK
  <1>7. TypeOK' /\ Placed' /\ request'[a].at # "idle"
    BY <1>1, <1>6, SentPlaced DEF TypeOK, Commands
  <1>8. Timed' /\ CustomerWithinGlobal'
    BY <1>1, <1>2 DEF Timed, CustomerWithinGlobal, InWindow
  <1>9. k = Batch[a][request[a].position] /\ First(a, request[a].position)
    BY <1>1, <1>3 DEF Entries, Token
  <1>10. Written(a, request[a].position)'
    <2>1. o = "ok" => data'[k] # Forever
      <3>1. data[k] = Forever => HasData(k)
        BY Times DEF HasData
      <3> QED BY <1>5, <1>6, <3>1
    <2>2. Reached(a, request[a].position, Dated)' => o = "ok"
      BY <1>2 DEF Reached, Commands
    <2>3. ~ Reached(a, request[a].position, Indexed)'
      BY <1>2, <1>3 DEF Reached, Commands, Indexed
    <2>4. ~ Reached(a, request[a].position, {"trimCustomer"})'
      BY <1>2, <1>3 DEF Reached, Commands
    <2> QED BY <1>2, <1>9, <2>1, <2>2, <2>3, <2>4 DEF Written
  <1>11. First(a, request[a].position)'
    <2> SUFFICES ASSUME request'[a].attempt = 1
                 PROVE  /\ o = "ok" => data'[k] >= stamp[k] + Window
                        /\ index[k] # NoScore => data'[k] >= index[k] + Window
      BY <1>1, <1>2, <1>3, <1>9 DEF First, Ahead, Expiring, Reached, Commands, Dated
    <2>1. data[k] = Forever
      BY <1>2, <1>9 DEF First, Expiring
    <2>2. HasData(k)
      BY <2>1, Times DEF HasData
    <2>3. index[k] # NoScore => data[k] >= index[k] + Window
      BY <1>2, <1>9 DEF First
    <2> QED BY <1>4, <1>6, <2>2, <2>3, Times
  <1>12. Entries'
    BY <1>1, <1>2, <1>6, <1>7, <1>10, <1>11, Others DEF Commands
  <1> QED BY <1>7, <1>8, <1>12 DEF IInv

\* ZADD enters the transaction in the global set under its stamp.
LEMMA ZAddIInv ==
  ASSUME IInv, NEW a \in Requests, NEW o \in Outcomes, ZAdd(a, o)
  PROVE  IInv'
  <1> DEFINE k == Token(a)
             p == request[a].position
  <1>1. /\ TypeOK /\ Placed /\ Timed /\ Entries /\ CustomerWithinGlobal
        /\ Send(a, "zadd", "zaddCustomer", o) /\ "zadd" \in Commands /\ "zaddCustomer" \in States
        /\ data' = data /\ customerIndex' = customerIndex
    BY DEF IInv, ZAdd, Commands, States
  <1>2. /\ request[a].at = "zadd" /\ stamp' = stamp /\ clock' = clock /\ reader' = reader
        /\ request'[a].at \in {"zaddCustomer", "sleep", "raised"}
        /\ o # "ok" => request'[a].at # "zaddCustomer"
        /\ request'[a].position = p
        /\ request'[a].attempt = request[a].attempt
        /\ \A b \in Requests : b # a => request'[b] = request[b]
    BY <1>1, Sent
  <1>3. p \in DOMAIN Batch[a] /\ p \in Nat /\ k \in Tokens /\ k = Batch[a][p]
    BY <1>1, <1>2, Batches DEF TypeOK, Token, Commands
  <1>4. /\ clock \in Int /\ index[k] \in Int /\ data[k] \in Int /\ stamp[k] \in NoScore..MaxClock
        /\ stamp[k] <= clock /\ customerIndex[k] <= stamp[k]
    BY <1>1, <1>3, Times DEF TypeOK, Timed
  <1>5. /\ index' \in [Tokens -> NoScore..MaxClock]
        /\ \A m \in Tokens : m # k => index'[m] = index[m]
        /\ index'[k] = index[k] \/ index'[k] = stamp[k]
        /\ o = "ok" => index'[k] = stamp[k]
    BY <1>1, <1>3, <1>4 DEF ZAdd, Executed, Score, TypeOK
  <1>6. TypeOK' /\ Placed' /\ request'[a].at # "idle"
    BY <1>1, <1>5, SentPlaced DEF TypeOK, Commands
  <1>7. Timed'
    BY <1>1, <1>2, <1>4, <1>5 DEF Timed
  <1>8. CustomerWithinGlobal'
    BY <1>1, <1>2, <1>4, <1>5 DEF CustomerWithinGlobal, InWindow
  <1>9. /\ Written(a, p) /\ First(a, p) /\ Reached(a, p, Dated)
        /\ Reached(a, p, Dated)' => o = "ok"
        /\ Reached(a, p, Indexed)' => o = "ok"
        /\ ~ Reached(a, p, {"trimCustomer"})'
    BY <1>1, <1>2, <1>3 DEF Entries, Reached, Dated, Indexed, Commands
  <1>10. Written(a, p)'
    BY <1>1, <1>2, <1>3, <1>5, <1>9 DEF Written
  <1>11. First(a, p)'
    <2>1. ~ Ahead(a, p)' /\ ~ Expiring(a, p)'
      BY <1>2, <1>3 DEF Ahead, Expiring, Commands
    <2> SUFFICES ASSUME request'[a].attempt = 1
                 PROVE  /\ data[k] >= stamp[k] + Window
                        /\ index'[k] # NoScore => data[k] >= index'[k] + Window
      BY <1>1, <1>2, <1>3, <2>1 DEF First
    <2>2. /\ data[k] >= stamp[k] + Window
          /\ index[k] # NoScore => data[k] >= index[k] + Window
      BY <1>2, <1>3, <1>9 DEF First
    <2> QED BY <1>5, <2>2
  <1>12. Entries'
    BY <1>1, <1>2, <1>5, <1>6, <1>10, <1>11, Others DEF Commands
  <1> QED BY <1>6, <1>7, <1>8, <1>12 DEF IInv

\* ZADD enters it in its customer's set, the global entry being there.
LEMMA ZAddCustomerIInv ==
  ASSUME IInv, NEW a \in Requests, NEW o \in Outcomes, ZAddCustomer(a, o)
  PROVE  IInv'
  <1> DEFINE k == Token(a)
             p == request[a].position
  <1>1. /\ TypeOK /\ Placed /\ Timed /\ Entries /\ CustomerWithinGlobal
        /\ Send(a, "zaddCustomer", "trimCustomer", o)
        /\ "zaddCustomer" \in Commands /\ "trimCustomer" \in States
        /\ data' = data /\ index' = index
    BY DEF IInv, ZAddCustomer, Commands, States
  <1>2. /\ request[a].at = "zaddCustomer" /\ stamp' = stamp /\ clock' = clock /\ reader' = reader
        /\ request'[a].at \in {"trimCustomer", "sleep", "raised"}
        /\ o # "ok" => request'[a].at # "trimCustomer"
        /\ request'[a].position = p
        /\ request'[a].attempt = request[a].attempt
        /\ \A b \in Requests : b # a => request'[b] = request[b]
    BY <1>1, Sent
  <1>3. p \in DOMAIN Batch[a] /\ p \in Nat /\ k \in Tokens /\ k = Batch[a][p]
    BY <1>1, <1>2, Batches DEF TypeOK, Token, Commands
  <1>4. stamp[k] \in NoScore..MaxClock /\ stamp[k] \in Int /\ customerIndex[k] \in Int
    BY <1>1, <1>3, Times DEF TypeOK
  <1>5. /\ customerIndex' \in [Tokens -> NoScore..MaxClock]
        /\ \A m \in Tokens : m # k => customerIndex'[m] = customerIndex[m]
        /\ customerIndex'[k] = customerIndex[k] \/ customerIndex'[k] = stamp[k]
        /\ o = "ok" => customerIndex'[k] = stamp[k]
    BY <1>1, <1>3, <1>4 DEF ZAddCustomer, Executed, Score, TypeOK
  <1>6. TypeOK' /\ Placed' /\ request'[a].at # "idle"
    BY <1>1, <1>5, SentPlaced DEF TypeOK, Commands
  <1>7. Timed'
    BY <1>1, <1>2, <1>4, <1>5 DEF Timed
  <1>8. /\ Written(a, p) /\ First(a, p) /\ Reached(a, p, Dated) /\ Reached(a, p, Indexed)
        /\ Reached(a, p, {"trimCustomer"})' => o = "ok"
    BY <1>1, <1>2, <1>3 DEF Entries, Reached, Dated, Indexed, Commands
  <1>9. InWindow(stamp[k], clock) => index[k] = stamp[k]
    BY <1>3, <1>8 DEF Written
  <1>10. CustomerWithinGlobal'
    BY <1>1, <1>2, <1>4, <1>5, <1>9 DEF CustomerWithinGlobal, InWindow
  <1>11. Written(a, p)'
    BY <1>1, <1>2, <1>3, <1>5, <1>8 DEF Written
  <1>12. First(a, p)'
    <2>1. ~ Ahead(a, p)' /\ ~ Expiring(a, p)'
      BY <1>2, <1>3 DEF Ahead, Expiring, Commands
    <2> QED BY <1>1, <1>2, <1>3, <1>8, <2>1 DEF First
  <1>13. Entries'
    BY <1>1, <1>2, <1>5, <1>6, <1>11, <1>12, Others DEF Commands
  <1> QED BY <1>6, <1>7, <1>10, <1>13 DEF IInv

-----------------------------------------------------------------------------
(* The trims.                                                               *)

\* A trim up to a time that is not after the clock costs a sorted set only what
\* is a window old.
LEMMA Trimmed ==
  ASSUME TypeOK, NEW set \in [Tokens -> NoScore..MaxClock], NEW time \in Int, time <= clock,
         NEW S \in SUBSET Older(set, time)
  PROVE  /\ Without(set, S) \in [Tokens -> NoScore..MaxClock]
         /\ \A k \in Tokens : Outlived(set, Without(set, S), k)
         /\ \A k \in Tokens : Without(set, S)[k] <= set[k]
  <1>1. NoScore \in NoScore..MaxClock /\ clock \in Int /\ Window \in Int
    BY Times DEF TypeOK
  <1>2. \A k \in Tokens : set[k] \in Int /\ set[k] >= NoScore
    BY <1>1, Times
  <1>3. \A k \in S : k \in Tokens /\ set[k] <= time - Window
    BY DEF Older
  <1>4. \A k \in Tokens : Without(set, S)[k] = IF k \in S THEN NoScore ELSE set[k]
    BY DEF Without
  <1>5. Without(set, S) \in [Tokens -> NoScore..MaxClock]
    BY <1>1 DEF Without
  <1>6. \A k \in Tokens : Outlived(set, Without(set, S), k)
    <2> SUFFICES ASSUME NEW k \in Tokens, k \in S PROVE set[k] <= clock - Window
      BY <1>4 DEF Outlived
    <2> QED BY <1>1, <1>2, <1>3
  <1> QED BY <1>2, <1>4, <1>5, <1>6

\* The last trim takes from the global set what is out of the window only.
LEMMA TrimIInv ==
  ASSUME IInv, NEW a \in Requests, NEW o \in Outcomes, Trim(a, o)
  PROVE  IInv'
  <1>1. /\ TypeOK /\ Placed /\ Timed /\ Entries /\ CustomerWithinGlobal
        /\ Send(a, "trim", "done", o) /\ "trim" \in Commands /\ "done" \in States
        /\ data' = data /\ customerIndex' = customerIndex
    BY DEF IInv, Trim, Commands, States
  <1>2. /\ request[a].at = "trim" /\ stamp' = stamp /\ clock' = clock /\ reader' = reader
        /\ request'[a].at \in {"done", "sleep", "raised"}
        /\ request'[a].position = request[a].position
        /\ request'[a].attempt = request[a].attempt
        /\ \A b \in Requests : b # a => request'[b] = request[b]
    BY <1>1, Sent
  <1>3. /\ index' \in [Tokens -> NoScore..MaxClock]
        /\ \A k \in Tokens : Outlived(index, index', k) /\ index'[k] <= index[k]
    <2>1. CASE o = "refused"
      BY <1>1, <2>1, Times DEF Trim, Executed, TypeOK, Outlived
    <2>2. CASE o # "refused"
      <3>1. clock \in Int /\ clock <= clock /\ index \in [Tokens -> NoScore..MaxClock]
        BY <1>1, Times DEF TypeOK
      <3>2. index' = Without(index, Older(index, clock))
        BY <2>2 DEF Trim, Executed
      <3> QED BY <1>1, <3>1, <3>2, Trimmed
    <2> QED BY <2>1, <2>2
  <1>4. TypeOK' /\ Placed' /\ request'[a].at # "idle"
    BY <1>1, <1>3, SentPlaced DEF TypeOK, Commands
  <1>5. \A k \in Tokens : /\ index[k] \in Int /\ index'[k] \in Int /\ stamp[k] \in Int
                          /\ customerIndex[k] \in Int
    BY <1>1, <1>3, Times DEF TypeOK
  <1>6. clock \in Int /\ Window \in Int
    BY <1>1, Times DEF TypeOK
  <1>7. Timed'
    BY <1>1, <1>2, <1>3, <1>5 DEF Timed
  <1>8. CustomerWithinGlobal'
    BY <1>1, <1>2, <1>3, <1>5, <1>6 DEF CustomerWithinGlobal, InWindow, Outlived
  <1>9. Entries'
    <2> SUFFICES ASSUME NEW b \in Requests, NEW i \in DOMAIN Batch[b]
                 PROVE  Written(b, i)' /\ First(b, i)'
      BY DEF Entries
    <2>1. Batch[b][i] \in Tokens /\ i \in Int
      BY Batches
    <2>2. NoFurther(b, i)
      <3>1. CASE b # a
        BY <1>2, <3>1, Untouched
      <3>2. CASE b = a
        <4>1. i < request[a].position /\ request[a].position \in Int
          BY <1>1, <1>2, <3>2, Batches DEF Placed
        <4> QED BY <1>2, <2>1, <3>2, <4>1 DEF NoFurther, Reached, Ahead, Expiring, Commands
      <3> QED BY <3>1, <3>2
    <2>3. Outlived(customerIndex, customerIndex', Batch[b][i])
      BY <1>1 DEF Outlived
    <2> QED BY <1>1, <1>2, <1>3, <2>1, <2>2, <2>3, Kept
  <1> QED BY <1>4, <1>7, <1>8, <1>9 DEF IInv

-----------------------------------------------------------------------------
(* The loop over the batch.                                                 *)

\* A request that comes to its i-th transaction, or to the end of its batch.
LEMMA Begun ==
  ASSUME TypeOK, NEW a \in Requests, NEW i \in Nat \ {0}, NEW n \in 1..MaxAttempts, Begin(a, i, n)
  PROVE  /\ request'[a].at = IF i \in DOMAIN Batch[a] THEN "hset" ELSE "trim"
         /\ request'[a].position = i /\ request'[a].attempt = n
         /\ \A b \in Requests : b # a => request'[b] = request[b]
         /\ request' \in [Requests -> Records]
         /\ stamp' \in [Tokens -> 0..MaxClock]
         /\ \A k \in Tokens :
              \/ stamp'[k] = stamp[k]
              \/ i \in DOMAIN Batch[a] /\ k = Batch[a][i] /\ stamp'[k] = clock
  <1> DEFINE s == [at |-> IF i \in DOMAIN Batch[a] THEN "hset" ELSE "trim",
                   position |-> i, attempt |-> n]
  <1>1. request' = [request EXCEPT ![a] = s]
    BY DEF Begin
  <1>2. s \in Records /\ request \in [Requests -> Records]
    BY DEF Records, States, Commands, TypeOK
  <1>3. /\ stamp' \in [Tokens -> 0..MaxClock]
        /\ \A k \in Tokens :
             \/ stamp'[k] = stamp[k]
             \/ i \in DOMAIN Batch[a] /\ k = Batch[a][i] /\ stamp'[k] = clock
    <2>1. CASE i \in DOMAIN Batch[a]
      <3>1. Batch[a][i] \in Tokens
        BY <2>1, Batches
      <3>2. stamp' = [stamp EXCEPT ![Batch[a][i]] = clock]
        BY <2>1 DEF Begin
      <3> QED BY <2>1, <3>1, <3>2 DEF TypeOK
    <2>2. CASE i \notin DOMAIN Batch[a]
      BY <2>2 DEF Begin, TypeOK
    <2> QED BY <2>1, <2>2
  <1>4. /\ s.at = IF i \in DOMAIN Batch[a] THEN "hset" ELSE "trim"
        /\ s.position = i /\ s.attempt = n
    OBVIOUS
  <1> HIDE DEF s
  <1>5. /\ request'[a] = s /\ \A b \in Requests : b # a => request'[b] = request[b]
        /\ request' \in [Requests -> Records]
    BY <1>1, <1>2
  <1> QED BY <1>3, <1>4, <1>5

\* It dates only a transaction it has written nothing of in the attempt under
\* way, and may leave a trimmed set of its customer behind.
LEMMA BeginIInv ==
  ASSUME IInv, NEW a \in Requests, NEW i \in 1..(Len(Batch[a]) + 1), NEW n \in 1..MaxAttempts,
         Begin(a, i, n),
         \A j \in DOMAIN Batch[a] : NoFurther(a, j),
         clock' = clock, data' = data, index' = index, reader' = reader,
         faults' \in 0..MaxFaults,
         customerIndex' \in [Tokens -> NoScore..MaxClock],
         \A k \in Tokens : Outlived(customerIndex, customerIndex', k) /\ customerIndex'[k] <= customerIndex[k]
  PROVE  IInv'
  <1>1. /\ TypeOK /\ Placed /\ Timed /\ Entries /\ CustomerWithinGlobal
        /\ i \in Nat \ {0} /\ Len(Batch[a]) \in Nat
    BY Batches DEF IInv
  <1>2. /\ request'[a].at = IF i \in DOMAIN Batch[a] THEN "hset" ELSE "trim"
        /\ request'[a].position = i
        /\ \A b \in Requests : b # a => request'[b] = request[b]
        /\ request' \in [Requests -> Records]
        /\ stamp' \in [Tokens -> 0..MaxClock]
        /\ \A k \in Tokens :
             \/ stamp'[k] = stamp[k]
             \/ i \in DOMAIN Batch[a] /\ k = Batch[a][i] /\ stamp'[k] = clock
    BY <1>1, Begun
  <1>3. Placed'
    <2>1. i \notin DOMAIN Batch[a] => i = Len(Batch[a]) + 1
      BY <1>1, Batches
    <2> QED BY <1>1, <1>2, <2>1 DEF Placed, Commands
  <1>4. TypeOK'
    BY <1>1, <1>2, <1>3 DEF TypeOK, Placed, Records, States
  <1>5. \A k \in Tokens : /\ index[k] \in Int /\ customerIndex[k] \in Int
                          /\ customerIndex'[k] \in Int /\ stamp[k] \in Int /\ stamp'[k] \in Int
    BY <1>1, <1>2, Times DEF TypeOK
  <1>6. clock \in Int /\ Window \in Int
    BY <1>1, Times DEF TypeOK
  <1>7. Timed'
    <2>1. \A k \in Tokens : stamp'[k] = stamp[k] \/ stamp'[k] = clock
      BY <1>2
    <2>2. /\ \A k \in Tokens : index[k] <= stamp[k] /\ customerIndex[k] <= stamp[k] /\ stamp[k] <= clock
          /\ \A r \in Readers : reader'[r].now <= clock'
      BY <1>1 DEF Timed
    <2>3. ASSUME NEW k \in Tokens
          PROVE  index'[k] <= stamp'[k] /\ customerIndex'[k] <= stamp'[k] /\ stamp'[k] <= clock'
      <3>1. index'[k] = index[k] /\ customerIndex'[k] <= customerIndex[k] /\ clock' = clock
        OBVIOUS
      <3> QED BY <2>1, <2>2, <1>5, <1>6, <3>1
    <2> QED BY <2>2, <2>3 DEF Timed
  <1>8. CustomerWithinGlobal'
    BY <1>1, <1>5, <1>6 DEF CustomerWithinGlobal, InWindow, Outlived
  <1>9. Entries'
    <2> SUFFICES ASSUME NEW b \in Requests, NEW j \in DOMAIN Batch[b]
                 PROVE  Written(b, j)' /\ First(b, j)'
      BY DEF Entries
    <2>1. Batch[b][j] \in Tokens /\ j \in Int
      BY Batches
    <2>2. NoFurther(b, j)
      BY <1>2, Untouched
    <2>3. stamp'[Batch[b][j]] = stamp[Batch[b][j]] \/ ~ Reached(b, j, Dated)'
      <3> SUFFICES ASSUME i \in DOMAIN Batch[a], Batch[b][j] = Batch[a][i]
                   PROVE  ~ Reached(b, j, Dated)'
        BY <1>2, <2>1
      <3>1. b = a /\ j = i
        BY Batches
      <3> QED BY <1>2, <2>1, <3>1 DEF Reached, Dated
    <2>4. Outlived(index, index', Batch[b][j])
      BY DEF Outlived
    <2> QED BY <2>1, <2>2, <2>3, <2>4, Kept
  <1> QED BY <1>3, <1>4, <1>7, <1>8, <1>9 DEF IInv

\* An attempt, the first or a later one, begins with the first transaction.
LEMMA StartIInv ==
  ASSUME IInv, NEW a \in Requests, Start(a) \/ Retry(a)
  PROVE  IInv'
  <1> DEFINE n == IF request[a].at = "idle" THEN 1 ELSE request[a].attempt + 1
  <1>1. TypeOK /\ Placed /\ Len(Batch[a]) \in Nat
    BY Batches DEF IInv
  <1>2. request[a].attempt \in 1..MaxAttempts
    BY <1>1 DEF TypeOK
  <1>3. /\ \/ request[a].at = "idle"
           \/ request[a].at = "sleep" /\ request[a].attempt < MaxAttempts
        /\ Begin(a, 1, n)
        /\ clock' = clock /\ data' = data /\ index' = index /\ customerIndex' = customerIndex
        /\ reader' = reader /\ faults' = faults
    <2>1. CASE Start(a)
      <3>1. request[a].at = "idle" /\ n = 1 /\ Begin(a, 1, 1)
        BY <2>1 DEF Start, At
      <3>2. Begin(a, 1, n)
        BY <3>1 DEF Begin
      <3>3. UNCHANGED <<clock, redisVars, reader, faults>>
        BY <2>1 DEF Start
      <3> HIDE DEF n
      <3> QED BY <3>1, <3>2, <3>3 DEF redisVars
    <2>2. CASE Retry(a)
      <3>1. request[a].at = "sleep" /\ n = request[a].attempt + 1 /\ Begin(a, 1, n)
        BY <2>2 DEF Retry, At, Resumed
      <3> HIDE DEF n
      <3> QED BY <1>1, <2>2, <3>1 DEF Retry, Placed, redisVars
    <2> QED BY <2>1, <2>2
  <1>4. n \in 1..MaxAttempts /\ 1 \in 1..(Len(Batch[a]) + 1) /\ 1 \in Nat \ {0}
    BY <1>1, <1>2, <1>3, Times
  <1>5. request[a].at # "idle" => n # 1
    BY <1>2
  <1> HIDE DEF n
  <1>6. /\ request'[a].at \in {"hset", "trim"} /\ request'[a].position = 1
        /\ request'[a].attempt = n
        /\ request'[a].at = "hset" \/ DOMAIN Batch[a] = {}
    <2>1. 1 \notin DOMAIN Batch[a] => DOMAIN Batch[a] = {}
      BY Batches
    <2> QED BY <1>1, <1>3, <1>4, <2>1, Begun
  <1>7. ASSUME NEW j \in DOMAIN Batch[a] PROVE NoFurther(a, j)
    <2>1. j \in Int /\ j >= 1
      BY Batches
    <2>2. \A S \in {Dated, Indexed, {"trimCustomer"}} : ~ Reached(a, j, S)'
      BY <1>6, <2>1 DEF Reached, Dated, Indexed
    <2>3. CASE request[a].at = "idle"
      <3>1. request[a].position = 1 /\ request[a].attempt = 1
        BY <1>1, <2>3 DEF Placed
      <3>2. Ahead(a, j)
        BY <2>1, <2>3, <3>1 DEF Ahead
      <3> QED BY <1>6, <2>2, <3>1, <3>2 DEF NoFurther, Expiring
    <2>4. CASE request[a].at # "idle"
      BY <1>5, <1>6, <2>2, <2>4 DEF NoFurther
    <2> QED BY <2>3, <2>4
  <1>8. \A k \in Tokens : Outlived(customerIndex, customerIndex', k) /\ customerIndex'[k] <= customerIndex[k]
    BY <1>1, <1>3, Times DEF Outlived, TypeOK
  <1> QED BY <1>1, <1>3, <1>4, <1>7, <1>8, BeginIInv DEF TypeOK

\* The trim of one customer's set goes back to the time the transaction was
\* begun, and the loop goes on with the next one.
LEMMA TrimCustomerIInv ==
  ASSUME IInv, NEW a \in Requests, NEW o \in Outcomes, TrimCustomer(a, o)
  PROVE  IInv'
  <1> DEFINE k == Token(a)
             p == request[a].position
             stale == {m \in Older(customerIndex, stamp[k]) : CustomerOf[m] = CustomerOf[k]}
  <1>1. /\ TypeOK /\ Placed /\ Timed /\ Entries /\ CustomerWithinGlobal
        /\ request[a].at = "trimCustomer"
        /\ clock' = clock /\ data' = data /\ index' = index /\ reader' = reader
    BY DEF IInv, TrimCustomer, At
  <1>2. /\ p \in DOMAIN Batch[a] /\ p \in Nat \ {0} /\ k \in Tokens
        /\ p + 1 \in 1..(Len(Batch[a]) + 1) /\ request[a].attempt \in 1..MaxAttempts
    BY <1>1, Batches DEF TypeOK, Token, Commands
  <1>3. faults' \in 0..MaxFaults
    BY <1>1, WindowAssumption DEF TrimCustomer, Redis, Fault, TypeOK
  <1>4. \A m \in Tokens : /\ customerIndex[m] \in Int /\ stamp[m] \in Int /\ stamp[m] <= clock
                          /\ index[m] \in Int
    BY <1>1, Times DEF TypeOK, Timed
  <1>5. /\ customerIndex' \in [Tokens -> NoScore..MaxClock]
        /\ \A m \in Tokens : /\ Outlived(customerIndex, customerIndex', m)
                              /\ customerIndex'[m] <= customerIndex[m]
    <2>1. CASE o = "refused"
      <3>1. customerIndex' = customerIndex
        BY <2>1 DEF TrimCustomer, Executed
      <3> QED BY <1>1, <1>4, <3>1 DEF TypeOK, Outlived
    <2>2. CASE o # "refused"
      <3>1. customerIndex' = Without(customerIndex, stale)
        BY <2>2 DEF TrimCustomer, Executed
      <3>2. stale \in SUBSET Older(customerIndex, stamp[k])
        OBVIOUS
      <3>3. customerIndex \in [Tokens -> NoScore..MaxClock]
        BY <1>1 DEF TypeOK
      <3> HIDE DEF stale
      <3> QED BY <1>1, <1>2, <1>4, <3>1, <3>2, <3>3, Trimmed
    <2> QED BY <2>1, <2>2
  <1>6. CASE o = "ok"
    <2>1. Begin(a, p + 1, request[a].attempt)
      BY <1>6 DEF TrimCustomer
    <2>2. /\ request'[a].at \in {"hset", "trim"} /\ request'[a].position = p + 1
          /\ request'[a].attempt = request[a].attempt
      BY <1>1, <1>2, <2>1, Begun
    <2>3. ASSUME NEW j \in DOMAIN Batch[a] PROVE NoFurther(a, j)
      <3>1. j \in Int
        BY Batches
      <3>2. ASSUME NEW S \in {Dated, Indexed, {"trimCustomer"}}, Reached(a, j, S)'
            PROVE  Reached(a, j, S)
        <4>1. S = Dated \/ S = Indexed \/ S = {"trimCustomer"}
          OBVIOUS
        <4>2. "trimCustomer" \in S /\ "hset" \notin S /\ "trim" \notin S
          BY <4>1 DEF Dated, Indexed
        <4>3. j < p + 1
          BY <2>2, <3>2, <4>2 DEF Reached
        <4> QED BY <1>1, <1>2, <3>1, <4>2, <4>3 DEF Reached, Commands
      <3>3. Ahead(a, j)' => Ahead(a, j)
        BY <1>1, <1>2, <2>2, <3>1 DEF Ahead, Commands
      <3>4. ~ Expiring(a, j)'
        BY <2>2 DEF Expiring
      <3> QED BY <2>2, <3>2, <3>3, <3>4 DEF NoFurther
    <2> QED BY <1>1, <1>2, <1>3, <1>5, <2>1, <2>3, BeginIInv
  <1>7. CASE o # "ok"
    <2> DEFINE q == IF request[a].attempt < MaxAttempts THEN "sleep" ELSE "raised"
    <2>1. request' = [request EXCEPT ![a].at = q] /\ stamp' = stamp
      BY <1>7 DEF TrimCustomer, Fails
    <2>2. q \in States /\ q \notin Commands \cup {"done", "idle"}
          /\ (q = "sleep" => request[a].attempt < MaxAttempts)
      BY DEF States, Commands
    <2> HIDE DEF q
    <2>3. /\ request' \in [Requests -> Records]
          /\ request'[a].at = q /\ request'[a].position = p
          /\ request'[a].attempt = request[a].attempt
          /\ \A b \in Requests : b # a => request'[b] = request[b]
      BY <1>1, <2>1, <2>2, Rerouted
    <2>4. Placed'
      BY <1>1, <2>2, <2>3 DEF Placed, Commands
    <2>5. TypeOK'
      BY <1>1, <1>3, <1>5, <2>1, <2>3, <2>4 DEF TypeOK, Placed, Records, States
    <2>6. \A m \in Tokens : customerIndex'[m] \in Int
      BY <1>5, Times
    <2>7. Timed'
      BY <1>1, <1>4, <1>5, <2>1, <2>6 DEF Timed
    <2>8. CustomerWithinGlobal'
      BY <1>1, <1>4, <1>5, <2>6 DEF CustomerWithinGlobal, InWindow, Outlived
    <2>9. Entries'
      <3> SUFFICES ASSUME NEW b \in Requests, NEW j \in DOMAIN Batch[b]
                   PROVE  Written(b, j)' /\ First(b, j)'
        BY DEF Entries
      <3>1. Batch[b][j] \in Tokens
        BY Batches
      <3>2. NoFurther(b, j)
        <4>1. CASE b # a
          BY <2>3, <4>1, Untouched
        <4>2. CASE b = a
          BY <2>2, <2>3, <4>2 DEF NoFurther, Reached, Ahead, Expiring, Commands
        <4> QED BY <4>1, <4>2
      <3>3. Outlived(index, index', Batch[b][j])
        BY <1>1 DEF Outlived
      <3> QED BY <1>1, <1>5, <2>1, <3>1, <3>2, <3>3, Kept
    <2> QED BY <2>4, <2>5, <2>7, <2>8, <2>9 DEF IInv
  <1> QED BY <1>6, <1>7

-----------------------------------------------------------------------------
(* The rest: a request that ends, the readers and the clock.                *)

\* A request that is given up has written what it has written.
LEMMA AbandonIInv ==
  ASSUME IInv, NEW a \in Requests, Abandon(a)
  PROVE  IInv'
  <1>1. /\ TypeOK /\ Placed /\ Timed /\ Entries /\ CustomerWithinGlobal
        /\ clock' = clock /\ data' = data /\ index' = index /\ customerIndex' = customerIndex
        /\ stamp' = stamp /\ reader' = reader
    BY DEF IInv, Abandon, redisVars
  <1>2. faults' \in 0..MaxFaults
    BY <1>1, WindowAssumption DEF Abandon, Fault, TypeOK
  <1>3. /\ request'[a].at = "raised" /\ request'[a].attempt = request[a].attempt
        /\ \A b \in Requests : b # a => request'[b] = request[b]
        /\ request' \in [Requests -> Records]
    <2> DEFINE once == [request EXCEPT ![a].at = "raised"]
    <2>1. request \in [Requests -> Records]
      BY <1>1 DEF TypeOK, Records, States
    <2>2. /\ once \in [Requests -> Records]
          /\ once[a].at = "raised" /\ once[a].attempt = request[a].attempt
          /\ \A b \in Requests : b # a => once[b] = request[b]
      BY <2>1 DEF Records, States
    <2>3. request' = [once EXCEPT ![a].position = 1]
      BY DEF Abandon
    <2> HIDE DEF once
    <2> QED BY <2>2, <2>3 DEF Records
  <1>4. Placed'
    BY <1>1, <1>3 DEF Placed, Commands
  <1>5. TypeOK'
    BY <1>1, <1>2, <1>3, <1>4 DEF TypeOK, Placed, Records, States
  <1>6. Timed' /\ CustomerWithinGlobal'
    BY <1>1 DEF Timed, CustomerWithinGlobal, InWindow
  <1>7. Entries'
    <2> SUFFICES ASSUME NEW b \in Requests, NEW i \in DOMAIN Batch[b]
                 PROVE  Written(b, i)' /\ First(b, i)'
      BY DEF Entries
    <2>1. Batch[b][i] \in Tokens
      BY Batches
    <2>2. NoFurther(b, i)
      <3>1. CASE b # a
        BY <1>3, <3>1, Untouched
      <3>2. CASE b = a
        BY <1>3, <3>2 DEF NoFurther, Reached, Ahead, Expiring, Commands
      <3> QED BY <3>1, <3>2
    <2> QED BY <1>1, <2>1, <2>2, Kept DEF Outlived
  <1> QED BY <1>4, <1>5, <1>6, <1>7 DEF IInv

\* A reader writes nothing, and its time is not after the clock.
LEMMA ReadIInv ==
  ASSUME IInv, NEW r \in Readers, ReadStep(r)
  PROVE  IInv'
  <1>1. /\ TypeOK /\ Placed /\ Timed /\ Entries /\ CustomerWithinGlobal
        /\ clock' = clock /\ data' = data /\ index' = index /\ customerIndex' = customerIndex
        /\ stamp' = stamp /\ request' = request
    BY DEF IInv, ReadStep, Ask, Count, CountFails, GiveUp, Return, redisVars
  <1>2. faults' \in 0..MaxFaults
    BY <1>1, WindowAssumption DEF ReadStep, Ask, Count, CountFails, GiveUp, Fault, TypeOK
  <1>3. /\ reader' \in [Readers -> [at : {"idle", "count"}, attempt : 1..MaxAttempts, now : 0..MaxClock]]
        /\ \A s \in Readers : reader'[s].now <= clock
    <2>1. clock \in 0..MaxClock /\ 0 <= clock /\ clock <= clock
      BY <1>1, Times DEF TypeOK
    <2>2. /\ reader \in [Readers -> [at : {"idle", "count"}, attempt : 1..MaxAttempts, now : 0..MaxClock]]
          /\ \A s \in Readers : reader[s].now <= clock
      BY <1>1 DEF TypeOK, Timed
    <2>3. CASE Ask(r)
      BY <2>1, <2>2, <2>3, Times DEF Ask
    <2>4. CASE Count(r) \/ GiveUp(r)
      BY <2>1, <2>2, <2>4, Times DEF Count, GiveUp, Return, NewReader
    <2>5. CASE CountFails(r)
      BY <2>1, <2>2, <2>5, Times DEF CountFails
    <2> QED BY <2>3, <2>4, <2>5 DEF ReadStep
  <1>4. TypeOK'
    BY <1>1, <1>2, <1>3 DEF TypeOK
  <1>5. Placed' /\ Timed' /\ CustomerWithinGlobal'
    BY <1>1, <1>3 DEF Placed, Timed, CustomerWithinGlobal, InWindow
  <1>6. Entries'
    BY <1>1 DEF Entries, Written, First, Reached, Ahead, Expiring, InWindow
  <1> QED BY <1>4, <1>5, <1>6 DEF IInv

\* With the clock, hashes expire and transactions leave the window.
LEMMA TickIInv ==
  ASSUME IInv, Tick
  PROVE  IInv'
  <1>1. /\ TypeOK /\ Placed /\ Timed /\ Entries /\ CustomerWithinGlobal
        /\ clock' = clock + 1 /\ clock' \in 0..MaxClock /\ clock \in Int
        /\ data' = data /\ index' = index /\ customerIndex' = customerIndex
        /\ stamp' = stamp /\ request' = request /\ reader' = reader /\ faults' = faults
    BY Times DEF IInv, Tick, redisVars, TypeOK
  <1>2. \A k \in Tokens : /\ index[k] \in Int /\ customerIndex[k] \in Int /\ stamp[k] \in Int
    BY <1>1, Times DEF TypeOK
  <1>3. \A x \in Int : InWindow(x, clock') => InWindow(x, clock)
    BY <1>1, Times DEF InWindow
  <1>4. TypeOK' /\ Placed'
    BY <1>1 DEF TypeOK, Placed
  <1>5. Timed'
    BY <1>1, <1>2 DEF Timed, TypeOK
  <1>6. CustomerWithinGlobal'
    BY <1>1, <1>2, <1>3 DEF CustomerWithinGlobal
  <1>7. Entries'
    <2> SUFFICES ASSUME NEW a \in Requests, NEW i \in DOMAIN Batch[a]
                 PROVE  Written(a, i)' /\ First(a, i)'
      BY DEF Entries
    <2>1. Batch[a][i] \in Tokens /\ Written(a, i) /\ First(a, i)
      BY <1>1, Batches DEF Entries
    <2>2. Written(a, i)'
      BY <1>1, <1>2, <1>3, <2>1 DEF Written, Reached
    <2>3. First(a, i)'
      BY <1>1, <2>1 DEF First, Reached, Ahead, Expiring
    <2> QED BY <2>2, <2>3
  <1> QED BY <1>4, <1>5, <1>6, <1>7 DEF IInv

\* Every step preserves the invariant.
LEMMA NextIInv == IInv /\ [Next]_vars => IInv'
  <1> SUFFICES ASSUME IInv, [Next]_vars PROVE IInv'
    OBVIOUS
  <1>1. CASE UNCHANGED vars
    <2>1. /\ clock' = clock /\ data' = data /\ index' = index /\ customerIndex' = customerIndex
          /\ stamp' = stamp /\ request' = request /\ reader' = reader /\ faults' = faults
      BY <1>1 DEF vars, redisVars
    <2>2. TypeOK' /\ Placed' /\ Timed' /\ CustomerWithinGlobal'
      BY <2>1 DEF IInv, TypeOK, Placed, Timed, CustomerWithinGlobal, InWindow
    <2>3. Entries'
      BY <2>1 DEF IInv, Entries, Written, First, Reached, Ahead, Expiring, InWindow
    <2> QED BY <2>2, <2>3 DEF IInv
  <1>2. CASE Tick
    BY <1>2, TickIInv
  <1>3. ASSUME NEW a \in Requests, AppendStep(a) PROVE IInv'
    <2>1. CASE Start(a) \/ Retry(a)
      BY <2>1, StartIInv
    <2>2. CASE Abandon(a)
      BY <2>2, AbandonIInv
    <2>3. ASSUME NEW o \in Outcomes,
                 \/ HSet(a, o) \/ Expire(a, o) \/ ZAdd(a, o) \/ ZAddCustomer(a, o)
                 \/ TrimCustomer(a, o) \/ Trim(a, o)
          PROVE  IInv'
      BY <2>3, HSetIInv, ExpireIInv, ZAddIInv, ZAddCustomerIInv, TrimCustomerIInv, TrimIInv
    <2> QED BY <1>3, <2>1, <2>2, <2>3 DEF AppendStep
  <1>4. ASSUME NEW r \in Readers, ReadStep(r) PROVE IInv'
    BY <1>4, ReadIInv
  <1> QED BY <1>1, <1>2, <1>3, <1>4 DEF Next

-----------------------------------------------------------------------------
(* Theorems.                                                                *)

\* Everything the properties need holds in every state.
THEOREM WindowInvariant == Spec => []IInv
  BY InitIInv, NextIInv, PTL DEF Spec

\* The state is well formed: no request goes beyond its batch or its attempts,
\* and no time leaves its range.
THEOREM WindowTyped == Spec => []TypeOK
  <1>1. IInv => TypeOK
    BY DEF IInv
  <1> QED BY <1>1, WindowInvariant, PTL

\* An append that has returned went through every command of its last attempt.
LEMMA AppendedWritten ==
  ASSUME IInv, NEW k \in Tokens, Appended(k)
  PROVE  /\ data[k] # Forever
         /\ InWindow(stamp[k], clock) => index[k] = stamp[k] /\ customerIndex[k] = stamp[k]
  <1>1. PICK a \in Requests : At(a, "done") /\ \E i \in DOMAIN Batch[a] : Batch[a][i] = k
    BY DEF Appended
  <1>2. PICK i \in DOMAIN Batch[a] : Batch[a][i] = k
    BY <1>1
  <1>3. i < request[a].position
    BY <1>1, Batches DEF IInv, Placed, At
  <1>4. \A S \in {Dated, Indexed, {"trimCustomer"}} : Reached(a, i, S)
    BY <1>1, <1>3 DEF Reached, At
  <1>5. Written(a, i)
    BY DEF IInv, Entries
  <1> QED BY <1>2, <1>4, <1>5 DEF Written

\* Whatever the interleaving of the requests and the commands that fail, a
\* transaction whose append has returned keeps both scores for the whole window
\* (transaction.py:60-63 under retry.py:23-26).
THEOREM KeptForTheWindowHolds == Spec => []KeptForTheWindow
  <1>1. IInv => KeptForTheWindow
    BY AppendedWritten DEF KeptForTheWindow
  <1> QED BY <1>1, WindowInvariant, PTL

\* No append that has returned leaves a hash without a time to live
\* (transaction.py:49-50).
THEOREM NothingKeptForeverHolds == Spec => []NothingKeptForever
  <1>1. IInv => NothingKeptForever
    BY AppendedWritten DEF NothingKeptForever
  <1> QED BY <1>1, WindowInvariant, PTL

\* What is counted for a customer counts at least as long globally, between any
\* two commands (transaction.py:55-60).
THEOREM CustomerWithinGlobalHolds == Spec => []CustomerWithinGlobal
  <1>1. IInv => CustomerWithinGlobal
    BY DEF IInv
  <1> QED BY <1>1, WindowInvariant, PTL

\* In the first attempt an entry of the global set never outlives the hash it
\* stands for (transaction.py:49-55).
THEOREM IndexedHasDataHolds == Spec => []IndexedHasData
  <1>1. ASSUME IInv PROVE IndexedHasData
    <2> SUFFICES ASSUME NEW a \in Requests, NEW i \in DOMAIN Batch[a], NEW k, k = Batch[a][i],
                        request[a].attempt = 1, index[k] # NoScore, index[k] + Window >= clock
                 PROVE  HasData(k)
      BY DEF IndexedHasData
    <2>1. k \in Tokens /\ First(a, i)
      BY <1>1, Batches DEF IInv, Entries
    <2>2. data[k] >= index[k] + Window
      BY <2>1 DEF First
    <2>3. /\ data[k] \in Int /\ index[k] \in Int /\ clock \in Int
          /\ index[k] >= NoScore
      BY <1>1, <2>1, Times DEF IInv, TypeOK
    <2> QED BY <2>2, <2>3, Times DEF HasData
  <1> QED BY <1>1, WindowInvariant, PTL

\* An answer misses no transaction that was begun before the reader asked, whose
\* append has returned and whose window has not ended, however many attempts and
\* trims lie between the question and the answer (transaction.py:87-93, 112-118).
THEOREM ReadIsCompleteHolds == Spec => []ReadIsComplete
  <1>1. ASSUME IInv PROVE ReadIsComplete
    <2> SUFFICES ASSUME NEW r \in Readers, NEW k \in Tokens, Appended(k),
                        stamp[k] <= reader[r].now, InWindow(stamp[k], clock)
                 PROVE  k \in Answer(r, "all") /\ k \in Answer(r, CustomerOf[k])
      BY DEF ReadIsComplete
    <2>1. index[k] = stamp[k] /\ customerIndex[k] = stamp[k]
      BY <1>1, AppendedWritten
    <2>2. reader[r].now <= clock
      BY <1>1 DEF IInv, Timed
    <2>3. stamp[k] \in Nat /\ clock \in Int /\ reader[r].now \in Int
      BY <1>1, Times DEF IInv, TypeOK
    <2>4. stamp[k] # NoScore /\ stamp[k] >= reader[r].now - Window
      BY <2>2, <2>3, Times DEF InWindow
    <2>5. /\ k \in Counted(index, reader[r].now)
          /\ k \in Counted(customerIndex, reader[r].now)
      BY <2>1, <2>4 DEF Counted
    <2>6. CustomerOf[k] # "all"
      BY WindowAssumption DEF Customers
    <2> QED BY <2>5, <2>6 DEF Answer
  <1> QED BY <1>1, WindowInvariant, PTL
=============================================================================
