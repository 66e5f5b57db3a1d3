----------------------- MODULE ActiveTradesSyncProofs -----------------------
(***************************************************************************)
(* Proofs about ActiveTradesSync, for every set of users and settings.      *)
(*                                                                         *)
(* The handlers are operators on the manager's state, so the proof has one  *)
(* lemma per handler: it takes a Good state to a Good state.  The lemmas    *)
(* about actions then compose handlers the way the events do.               *)
(***************************************************************************)
EXTENDS ActiveTradesSync, TLAPS

(* What every handler keeps, for the account it runs with.                    *)
OneActive(s) ==
  /\ s.inProgress <=> s.active # 0
  /\ s.inProgress => \E r \in s.requests : r.generation = s.active
  /\ \A r, q \in s.requests : r.generation = q.generation => r = q

\* A request of the present context was sent in the present connection.
RequestsOld(s, acc) ==
  \A r \in s.requests :
    /\ 0 < r.generation /\ r.generation <= s.generation
    /\ r.context <= s.context
    /\ r.context = s.context => r.epoch = acc.epoch

FlagsHonest(s, acc) ==
  /\ s.scheduled => s.tasks > 0
  /\ s.ready => acc.connect /\ ~s.inProgress
  /\ s.refreshRequested => acc.connect /\ ~s.inProgress

Good(s, acc) ==
  s \in SyncStates /\ OneActive(s) /\ RequestsOld(s, acc) /\ FlagsHonest(s, acc)

\* A refresh the queue asked for has its delayed task.
Armed(s) == s.refreshRequested => s.tasks > 0

IInv == TypeOK /\ Good(sync, account) /\ (running => Armed(sync))

-----------------------------------------------------------------------------
(* The handlers.                                                              *)

(* schedule_sync keeps a good state, opens nothing and leaves a task behind    *)
(* whenever the account is connected.                                        *)
LEMMA ScheduleGood ==
  ASSUME NEW s, NEW acc \in Accounts, Good(s, acc)
  PROVE  /\ Good(ScheduleSync(s, acc), acc)
         /\ acc.connect => ScheduleSync(s, acc).tasks > 0
         /\ ScheduleSync(s, acc).ready = s.ready
         /\ ScheduleSync(s, acc).refreshRequested = s.refreshRequested
<1> DEFINE t == ScheduleSync(s, acc)
<1>1. CASE s.scheduled \/ ~acc.connect
  BY <1>1 DEF Good, FlagsHonest, ScheduleSync
<1>2. CASE ~(s.scheduled \/ ~acc.connect)
  <2>1. t = [s EXCEPT !.tasks = @ + 1, !.scheduled = TRUE]
    BY <1>2 DEF ScheduleSync
  <2>2. s \in SyncStates
    BY DEF Good
  <2>3. t \in SyncStates
    <3> DEFINE k == s.tasks + 1
    <3>1. k \in Nat
      BY <2>2 DEF SyncStates
    <3>2. t = [s EXCEPT !.tasks = k, !.scheduled = TRUE]
      BY <2>1, <2>2 DEF SyncStates
    <3> HIDE DEF k, t
    <3>3. QED  BY <2>2, <3>1, <3>2 DEF SyncStates
  <2>4. /\ t.tasks = s.tasks + 1 /\ t.scheduled = TRUE
        /\ t.inProgress = s.inProgress /\ t.active = s.active
        /\ t.generation = s.generation /\ t.context = s.context
        /\ t.requests = s.requests /\ t.ready = s.ready
        /\ t.refreshRequested = s.refreshRequested /\ s.tasks \in Nat
    BY <2>1, <2>2 DEF SyncStates
  <2> HIDE DEF t
  <2>5. Good(t, acc) /\ t.tasks > 0
    BY <2>3, <2>4 DEF Good, OneActive, RequestsOld, FlagsHonest
  <2>6. QED  BY <2>4, <2>5 DEF t
<1>3. QED  BY <1>1, <1>2

(* The body of request_sync: the new request is the active one.               *)
LEMMA SendGood ==
  ASSUME NEW s, NEW acc \in Accounts, Good(s, acc), acc.connect, ~s.inProgress
  PROVE  /\ Good(Send(s, acc), acc)
         /\ ~Send(s, acc).ready
         /\ ~Send(s, acc).refreshRequested
<1> DEFINE t == Send(s, acc)
           n == RequestOf(s, acc)
<1>1. s \in SyncStates
  BY DEF Good
<1>2. /\ n \in Requests
      /\ n.generation = s.generation + 1 /\ n.context = s.context
      /\ n.epoch = acc.epoch
  BY <1>1 DEF RequestOf, Requests, SyncStates, Accounts
<1>3. t = [s EXCEPT !.ready = FALSE, !.refreshRequested = FALSE, !.inProgress = TRUE,
                    !.scheduled = FALSE, !.generation = @ + 1,
                    !.active = s.generation + 1, !.requests = @ \cup {n}]
  BY <1>1 DEF Send, CloseFence, SyncStates
<1> HIDE DEF n
<1>4. t \in SyncStates
  <2> DEFINE g == s.generation + 1
             q == s.requests \cup {n}
  <2>1. g \in Nat /\ q \in SUBSET Requests
    BY <1>1, <1>2 DEF SyncStates
  <2>2. t = [s EXCEPT !.ready = FALSE, !.refreshRequested = FALSE, !.inProgress = TRUE,
                      !.scheduled = FALSE, !.generation = g, !.active = g,
                      !.requests = q]
    BY <1>1, <1>3 DEF SyncStates
  <2> HIDE DEF g, q, t
  <2>3. QED  BY <1>1, <2>1, <2>2 DEF SyncStates
<1>5. /\ t.inProgress = TRUE /\ t.scheduled = FALSE
      /\ t.generation = s.generation + 1 /\ t.active = s.generation + 1
      /\ t.context = s.context /\ t.requests = s.requests \cup {n}
      /\ t.ready = FALSE /\ t.refreshRequested = FALSE
  BY <1>1, <1>3 DEF SyncStates
<1>6. s.generation \in Nat /\ s.context \in Nat
  BY <1>1 DEF SyncStates
<1>7. \A r \in s.requests : r.generation \in Nat
  BY <1>1 DEF SyncStates, Requests
<1> HIDE DEF t
<1>8. OneActive(t)
  BY <1>2, <1>5, <1>6, <1>7 DEF Good, OneActive, RequestsOld
<1>9. RequestsOld(t, acc)
  BY <1>2, <1>5, <1>6, <1>7 DEF Good, RequestsOld
<1>10. FlagsHonest(t, acc)
  BY <1>5 DEF FlagsHonest
<1>11. QED  BY <1>4, <1>5, <1>8, <1>9, <1>10 DEF Good, t

(* request_sync keeps a good state and leaves no refresh without its task.     *)
LEMMA RequestGood ==
  ASSUME NEW s, NEW acc \in Accounts, Good(s, acc)
  PROVE  /\ Good(RequestSync(s, acc), acc)
         /\ Armed(RequestSync(s, acc))
         /\ RequestSync(s, acc).ready => s.ready
<1>1. CASE s.inProgress
  <2>1. RequestSync(s, acc) = ScheduleSync(s, acc)
    BY <1>1 DEF RequestSync
  <2>2. ~s.refreshRequested
    BY <1>1 DEF Good, FlagsHonest
  <2>3. QED  BY <2>1, <2>2, ScheduleGood DEF Armed
<1>2. CASE ~s.inProgress /\ acc.connect
  <2>1. RequestSync(s, acc) = Send(s, acc)
    BY <1>2 DEF RequestSync
  <2>2. QED  BY <1>2, <2>1, SendGood DEF Armed
<1>3. CASE ~s.inProgress /\ ~acc.connect
  <2>1. RequestSync(s, acc) = s
    BY <1>3 DEF RequestSync
  <2>2. QED  BY <1>3, <2>1 DEF Good, FlagsHonest, Armed
<1>4. s.inProgress \in BOOLEAN /\ acc.connect \in BOOLEAN
  BY DEF Good, SyncStates, Accounts
<1>5. QED  BY <1>1, <1>2, <1>3, <1>4

(* invalidate_account_context makes the state good for whatever account comes   *)
(* next: no request belongs to the new context.                              *)
LEMMA InvalidateGood ==
  ASSUME NEW s, NEW old, Good(s, old), NEW acc
  PROVE  /\ Good(Invalidate(s), acc)
         /\ Armed(Invalidate(s))
         /\ ~Invalidate(s).ready
<1> DEFINE t == Invalidate(s)
<1>1. s \in SyncStates
  BY DEF Good
<1>2. t = [s EXCEPT !.tasks = 0, !.scheduled = FALSE, !.inProgress = FALSE, !.active = 0,
                    !.generation = @ + 1, !.ready = FALSE, !.refreshRequested = FALSE,
                    !.context = @ + 1]
  BY <1>1 DEF Invalidate, CloseFence, Reset, DropTasks, SyncStates
<1>3. t \in SyncStates
  <2> DEFINE g == s.generation + 1
             c == s.context + 1
  <2>1. g \in Nat /\ c \in Nat
    BY <1>1 DEF SyncStates
  <2>2. t = [s EXCEPT !.tasks = 0, !.scheduled = FALSE, !.inProgress = FALSE,
                      !.active = 0, !.generation = g, !.ready = FALSE,
                      !.refreshRequested = FALSE, !.context = c]
    BY <1>1, <1>2 DEF SyncStates
  <2> HIDE DEF g, c, t
  <2>3. QED  BY <1>1, <2>1, <2>2 DEF SyncStates
<1>4. /\ t.inProgress = FALSE /\ t.scheduled = FALSE /\ t.active = 0
      /\ t.generation = s.generation + 1 /\ t.context = s.context + 1
      /\ t.requests = s.requests /\ t.ready = FALSE /\ t.refreshRequested = FALSE
  BY <1>1, <1>2 DEF SyncStates
<1>5. s.generation \in Nat /\ s.context \in Nat
  BY <1>1 DEF SyncStates
<1>6. \A r \in s.requests : r.generation \in Nat /\ r.context \in Nat
  BY <1>1 DEF SyncStates, Requests
<1> HIDE DEF t
<1>7. OneActive(t)
  BY <1>4 DEF Good, OneActive
<1>8. RequestsOld(t, acc)
  BY <1>4, <1>5, <1>6 DEF Good, RequestsOld
<1>9. FlagsHonest(t, acc)
  BY <1>4 DEF FlagsHonest
<1>10. QED  BY <1>3, <1>4, <1>7, <1>8, <1>9 DEF Good, Armed, t

(* The queue's refresh request on a connected account is armed at once.        *)
LEMMA RefreshGood ==
  ASSUME NEW s, NEW acc \in Accounts, Good(s, acc), Armed(s), acc.connect, ~s.inProgress
  PROVE  /\ Good(RequestRefresh(s, acc), acc)
         /\ Armed(RequestRefresh(s, acc))
         /\ RequestRefresh(s, acc).ready = s.ready
<1>1. CASE s.refreshRequested
  <2>1. RequestRefresh(s, acc) = s
    BY <1>1 DEF RequestRefresh
  <2>2. QED  BY <2>1
<1>2. CASE ~s.refreshRequested
  <2> DEFINE t == [s EXCEPT !.refreshRequested = TRUE]
  <2>1. s \in SyncStates
    BY DEF Good
  <2>2. t \in SyncStates
    BY <2>1 DEF SyncStates
  <2>3. /\ t.inProgress = s.inProgress /\ t.scheduled = s.scheduled
        /\ t.generation = s.generation /\ t.active = s.active
        /\ t.context = s.context /\ t.requests = s.requests /\ t.tasks = s.tasks
        /\ t.ready = s.ready /\ t.refreshRequested = TRUE
    BY <2>1 DEF SyncStates
  <2>4. RequestRefresh(s, acc) = ScheduleSync(t, acc)
    BY <1>2 DEF RequestRefresh
  <2> HIDE DEF t
  <2>5. Good(t, acc)
    BY <2>2, <2>3 DEF Good, OneActive, RequestsOld, FlagsHonest
  <2>6. QED  BY <2>3, <2>4, <2>5, ScheduleGood DEF Armed
<1>3. QED  BY <1>1, <1>2

(* The answer to the active request ends it; the queue asked for nothing in     *)
(* between and the fence stayed closed.                                      *)
LEMMA SettledGood ==
  ASSUME NEW s, NEW acc, Good(s, acc), NEW r \in s.requests, r.generation = s.active
  PROVE  /\ Good(Settled(s, r), acc)
         /\ ~Settled(s, r).ready /\ ~Settled(s, r).refreshRequested
         /\ ~Settled(s, r).inProgress
         /\ ~s.ready
<1> DEFINE t == Settled(s, r)
           q == s.requests \ {r}
<1>1. s \in SyncStates
  BY DEF Good
<1>2. q \in SUBSET Requests
  BY <1>1 DEF SyncStates
<1>3. t = [s EXCEPT !.requests = q, !.active = 0, !.inProgress = FALSE]
  BY <1>1 DEF Settled, Answered, SyncStates
<1> HIDE DEF q
<1>4. t \in SyncStates
  <2> HIDE DEF t
  <2>1. QED  BY <1>1, <1>2, <1>3 DEF SyncStates
<1>5. /\ t.inProgress = FALSE /\ t.active = 0 /\ t.requests = q
      /\ t.scheduled = s.scheduled /\ t.generation = s.generation
      /\ t.context = s.context /\ t.tasks = s.tasks
      /\ t.ready = s.ready /\ t.refreshRequested = s.refreshRequested
  BY <1>1, <1>3 DEF SyncStates
<1> HIDE DEF t
<1>6. s.inProgress
  <2>1. s.active # 0
    <3>1. 0 < r.generation
      BY DEF Good, RequestsOld
    <3>2. QED  BY <3>1
  <2>2. QED  BY <2>1 DEF Good, OneActive
<1>7. ~s.ready /\ ~s.refreshRequested
  BY <1>6 DEF Good, FlagsHonest
<1>8. q \subseteq s.requests
  BY DEF q
<1>9. OneActive(t) /\ RequestsOld(t, acc) /\ FlagsHonest(t, acc)
  BY <1>5, <1>7, <1>8 DEF Good, OneActive, RequestsOld, FlagsHonest
<1>10. QED  BY <1>4, <1>5, <1>7, <1>9 DEF Good, t

(* An answer to another request leaves the active one in the set.              *)
LEMMA IgnoredGood ==
  ASSUME NEW s, NEW acc, Good(s, acc), NEW r \in s.requests, r.generation # s.active
  PROVE  /\ Good(Answered(s, r), acc)
         /\ Answered(s, r).ready = s.ready
         /\ Armed(s) => Armed(Answered(s, r))
<1> DEFINE t == Answered(s, r)
           q == s.requests \ {r}
<1>1. s \in SyncStates
  BY DEF Good
<1>2. q \in SUBSET Requests
  BY <1>1 DEF SyncStates
<1>3. t = [s EXCEPT !.requests = q]
  BY DEF Answered
<1>4. \A p \in s.requests : p.generation = s.active => p \in q
  OBVIOUS
<1>5. q \subseteq s.requests
  OBVIOUS
<1> HIDE DEF q
<1>6. t \in SyncStates
  BY <1>1, <1>2, <1>3 DEF SyncStates
<1>7. /\ t.inProgress = s.inProgress /\ t.active = s.active /\ t.requests = q
      /\ t.scheduled = s.scheduled /\ t.generation = s.generation
      /\ t.context = s.context /\ t.tasks = s.tasks
      /\ t.ready = s.ready /\ t.refreshRequested = s.refreshRequested
  BY <1>1, <1>3 DEF SyncStates
<1> HIDE DEF t
<1>8. OneActive(t) /\ RequestsOld(t, acc) /\ FlagsHonest(t, acc)
  BY <1>4, <1>5, <1>7 DEF Good, OneActive, RequestsOld, FlagsHonest
<1>9. QED  BY <1>6, <1>7, <1>8 DEF Good, Armed, t

(* Opening the fence, or leaving it as it is, after an answer was settled.      *)
LEMMA OpenedGood ==
  ASSUME NEW s, NEW acc, Good(s, acc), acc.connect, ~s.inProgress, NEW b \in {s.ready, TRUE}
  PROVE  LET t == [Fresh(s) EXCEPT !.ready = b]
         IN /\ Good(t, acc) /\ ~t.refreshRequested /\ ~t.inProgress
            /\ t.ready = b /\ t.requests = s.requests
<1> DEFINE t == [Fresh(s) EXCEPT !.ready = b]
<1>1. s \in SyncStates
  BY DEF Good
<1>2. b \in BOOLEAN
  BY <1>1 DEF SyncStates
<1>3. t = [s EXCEPT !.refreshRequested = FALSE, !.ready = b]
  BY DEF Fresh
<1>4. t \in SyncStates
  <2> HIDE DEF t
  <2>1. QED  BY <1>1, <1>2, <1>3 DEF SyncStates
<1>5. /\ t.inProgress = s.inProgress /\ t.active = s.active /\ t.requests = s.requests
      /\ t.scheduled = s.scheduled /\ t.generation = s.generation
      /\ t.context = s.context /\ t.tasks = s.tasks
      /\ t.ready = b /\ t.refreshRequested = FALSE
  BY <1>1, <1>3 DEF SyncStates
<1> HIDE DEF t
<1>6. OneActive(t) /\ RequestsOld(t, acc) /\ FlagsHonest(t, acc)
  BY <1>5 DEF Good, OneActive, RequestsOld, FlagsHonest
<1>7. Good(t, acc) /\ ~t.refreshRequested /\ ~t.inProgress /\ t.ready = b
      /\ t.requests = s.requests
  BY <1>4, <1>5, <1>6 DEF Good
<1>8. QED  BY <1>7 DEF t

(* A due refresh task leaves the task list before it asks.                      *)
LEMMA DueGood ==
  ASSUME NEW s, NEW acc, Good(s, acc), s.tasks > 0
  PROVE  LET t == [s EXCEPT !.tasks = @ - 1, !.scheduled = FALSE]
         IN Good(t, acc) /\ t.ready = s.ready
<1> DEFINE k == s.tasks - 1
           t == [s EXCEPT !.tasks = k, !.scheduled = FALSE]
<1>1. s \in SyncStates
  BY DEF Good
<1>2. k \in Nat
  BY <1>1 DEF SyncStates
<1>3. [s EXCEPT !.tasks = @ - 1, !.scheduled = FALSE] = t
  BY <1>1 DEF SyncStates
<1> HIDE DEF k
<1>4. t \in SyncStates
  BY <1>1, <1>2 DEF SyncStates
<1>5. /\ t.inProgress = s.inProgress /\ t.active = s.active /\ t.requests = s.requests
      /\ t.scheduled = FALSE /\ t.generation = s.generation
      /\ t.context = s.context
      /\ t.ready = s.ready /\ t.refreshRequested = s.refreshRequested
  BY <1>1 DEF SyncStates
<1> HIDE DEF t
<1>6. OneActive(t) /\ RequestsOld(t, acc) /\ FlagsHonest(t, acc)
  BY <1>5 DEF Good, OneActive, RequestsOld, FlagsHonest
<1>7. Good(t, acc) /\ t.ready = s.ready
  BY <1>4, <1>5, <1>6 DEF Good
<1>8. QED  BY <1>3, <1>7

(* shutdown keeps everything but the tasks and the request under way.           *)
LEMMA ShutdownGood ==
  ASSUME NEW s, NEW acc, Good(s, acc)
  PROVE  /\ Good(Reset(DropTasks(s)), acc)
         /\ Reset(DropTasks(s)).ready = s.ready
<1> DEFINE g == s.generation + 1
           t == [s EXCEPT !.tasks = 0, !.scheduled = FALSE, !.inProgress = FALSE,
                          !.active = 0, !.generation = g]
<1>1. s \in SyncStates
  BY DEF Good
<1>2. g \in Nat /\ s.generation \in Nat
  BY <1>1 DEF SyncStates
<1>3. Reset(DropTasks(s)) = t
  BY <1>1 DEF SyncStates, Reset, DropTasks
<1>4. \A r \in s.requests : r.generation \in Nat /\ r.generation <= s.generation =>
        r.generation <= g
  BY <1>2
<1>5. \A r \in s.requests : r.generation \in Nat
  BY <1>1 DEF SyncStates, Requests
<1> HIDE DEF g
<1>6. t \in SyncStates
  BY <1>1, <1>2 DEF SyncStates
<1>7. /\ t.inProgress = FALSE /\ t.active = 0 /\ t.requests = s.requests
      /\ t.scheduled = FALSE /\ t.generation = g
      /\ t.context = s.context
      /\ t.ready = s.ready /\ t.refreshRequested = s.refreshRequested
  BY <1>1 DEF SyncStates
<1> HIDE DEF t
<1>8. OneActive(t) /\ FlagsHonest(t, acc)
  BY <1>7 DEF Good, OneActive, FlagsHonest
<1>9. RequestsOld(t, acc)
  BY <1>4, <1>5, <1>7 DEF Good, RequestsOld
<1>10. Good(t, acc) /\ t.ready = s.ready
  BY <1>6, <1>7, <1>8, <1>9 DEF Good
<1>11. QED  BY <1>3, <1>10

(* An account that is as connected as before, in the same connection, may       *)
(* change its user and settings without a word.                              *)
LEMMA AccountGood ==
  ASSUME NEW s, NEW acc, Good(s, acc), NEW new,
         new.epoch = acc.epoch, acc.connect => new.connect
  PROVE  Good(s, new)
BY DEF Good, RequestsOld, FlagsHonest

-----------------------------------------------------------------------------
(* The actions.  All but the acceptance of a snapshot keep a closed fence shut. *)
Kept ==
  /\ account' \in Accounts
  /\ Good(sync', account')
  /\ running' => Armed(sync')
  /\ sync'.ready => sync.ready

LEMMA ConnectedKept ==
  ASSUME IInv, running, NEW acc \in Accounts, Connected(acc),
         acc.epoch = account.epoch, ~account.connect
  PROVE  Kept
<1>1. /\ account' \in Accounts /\ account'.connect /\ account'.epoch = acc.epoch
      BY DEF Connected, Accounts
<1>2. Good(sync, account')
  BY <1>1, AccountGood DEF IInv
<1>3. sync' = RequestSync(sync, account')
  BY DEF Connected
<1>4. QED  BY <1>1, <1>2, <1>3, RequestGood DEF Kept

LEMMA DisconnectedKept ==
  ASSUME IInv, NEW acc \in Accounts, Disconnected(acc)
  PROVE  Kept
<1>1. account' \in Accounts
  <2>1. acc.epoch + 1 \in Nat
    BY DEF Accounts
  <2>2. account' = [acc EXCEPT !.connect = FALSE, !.epoch = acc.epoch + 1]
    BY DEF Disconnected, Accounts
  <2>3. QED  BY <2>1, <2>2 DEF Accounts
<1>2. sync' = Invalidate(sync)
  BY DEF Disconnected
<1>3. Good(sync, account)
  BY DEF IInv
<1>4. QED  BY <1>1, <1>2, <1>3, InvalidateGood DEF Kept

\* The account changes silently, or not at all, and the manager does nothing.
LEMMA SilentKept ==
  ASSUME IInv, running, UNCHANGED sync, account' \in Accounts,
         account'.epoch = account.epoch, account.connect => account'.connect
  PROVE  Kept
<1>1. Good(sync, account')
  BY AccountGood DEF IInv
<1>2. QED  BY <1>1 DEF Kept, IInv

\* The manager's context ends while the connection flag stays.
LEMMA InvalidatedKept ==
  ASSUME IInv, sync' = Invalidate(sync), account' \in Accounts
  PROVE  Kept
<1>1. Good(sync, account)
  BY DEF IInv
<1>2. QED  BY <1>1, InvalidateGood DEF Kept

(* What AuthManager does.                                                      *)
LEMMA AuthKept ==
  ASSUME IInv, AuthStep
  PROVE  Kept
<1>1. account \in Accounts
  BY DEF IInv, TypeOK
<1>2. CASE ConnectRequest
  BY <1>1, <1>2, SilentKept DEF ConnectRequest, Live
<1>3. ASSUME NEW c \in Settings, BeginConnect(c)  PROVE Kept
  <2> DEFINE fresh == [account EXCEPT !.user = NoUser, !.settings = c]
  <2>1. fresh \in Accounts /\ fresh.connect = account.connect /\ fresh.epoch = account.epoch
    BY <1>1 DEF Accounts
  <2>2. CASE account.connect /\ Disconnected(fresh)
    <3> HIDE DEF fresh
    <3>1. QED  BY <2>1, <2>2, DisconnectedKept
  <2>3. CASE ~account.connect /\ account' = fresh /\ UNCHANGED <<sync, balance>>
    <3> HIDE DEF fresh
    <3>1. running
      BY <1>3 DEF BeginConnect, Live
    <3>2. QED  BY <2>1, <2>3, <3>1, SilentKept
  <2>4. QED  BY <1>3, <2>2, <2>3 DEF BeginConnect
<1>4. ASSUME NEW c \in Settings, SwitchSettings(c)  PROVE Kept
  <2>1. /\ account' \in Accounts
        /\ sync' = RequestSync(Invalidate(sync), account')
    BY <1>1, <1>4 DEF SwitchSettings, Accounts
  <2>2. Good(sync, account)
    BY DEF IInv
  <2>3. Good(Invalidate(sync), account') /\ ~Invalidate(sync).ready
    BY <2>2, InvalidateGood
  <2>4. QED  BY <2>1, <2>3, RequestGood DEF Kept
<1>5. ASSUME NEW c \in Settings, AuthSucceeded(c)  PROVE Kept
  <2> DEFINE known == [account EXCEPT !.settings = c]
  <2>1. known \in Accounts /\ known.connect = account.connect /\ known.epoch = account.epoch
    BY <1>1 DEF Accounts
  <2>2. running
    BY <1>5 DEF AuthSucceeded, Live
  <2>3. CASE ~account.connect /\ Connected(known)
    <3> HIDE DEF known
    <3>1. QED  BY <2>1, <2>2, <2>3, ConnectedKept
  <2>4. CASE account.connect /\ account' = known /\ UNCHANGED <<sync, balance>>
    <3> HIDE DEF known
    <3>1. QED  BY <2>1, <2>2, <2>4, SilentKept
  <2>5. QED  BY <1>5, <2>3, <2>4 DEF AuthSucceeded
<1>6. ASSUME NEW u \in Users, LoginKnown(u)  PROVE Kept
  <2>1. /\ account' \in Accounts /\ account'.epoch = account.epoch
        /\ account'.connect = account.connect
    BY <1>1, <1>6 DEF LoginKnown, Accounts
  <2>2. QED  BY <1>6, <2>1, SilentKept DEF LoginKnown, Live
<1>7. CASE AuthRefused \/ DisconnectRequest
  <2>1. sync' = Invalidate(sync) /\ account' \in Accounts
    BY <1>1, <1>7 DEF AuthRefused, DisconnectRequest
  <2>2. QED  BY <2>1, InvalidatedKept
<1>8. CASE AuthLost
  BY <1>1, <1>8, DisconnectedKept DEF AuthLost
<1>9. CASE AuthAbandoned
  BY <1>1, <1>9, SilentKept DEF AuthAbandoned, Live
<1>10. CASE Leave
  <2>1. CASE Disconnected(account)
    BY <1>1, <2>1, DisconnectedKept
  <2>2. CASE ~account.connect /\ UNCHANGED <<account, sync, balance>>
    BY <1>1, <1>10, <2>2, SilentKept DEF Leave, Live
  <2>3. QED  BY <1>10, <2>1, <2>2 DEF Leave
<1>11. ASSUME NEW c \in Settings, AuthDataGiven(c)  PROVE Kept
  <2>1. CASE sync' = Invalidate(sync)
    BY <1>1, <1>11, <2>1, InvalidatedKept DEF AuthDataGiven
  <2>2. CASE sync' = sync
    BY <1>1, <1>11, <2>2, SilentKept DEF AuthDataGiven, Live
  <2>3. QED  BY <1>11, <2>1, <2>2 DEF AuthDataGiven
<1>12. QED  BY <1>2, <1>3, <1>4, <1>5, <1>6, <1>7, <1>8, <1>9, <1>10, <1>11 DEF AuthStep

(* What BalanceManager and TradeManager do.                                     *)
LEMMA AccountKept ==
  ASSUME IInv, AccountStep
  PROVE  Kept
<1>1. account \in Accounts /\ Good(sync, account)
  BY DEF IInv, TypeOK
<1>2. CASE BalanceProved \/ TradeReplyProves
  <2>1. running /\ ~account.connect /\ Connected(account)
    BY <1>2 DEF BalanceProved, TradeReplyProves, Live
  <2>2. QED  BY <1>1, <2>1, ConnectedKept
<1>3. CASE BalanceProvedOdd
  <2>1. /\ account' \in Accounts /\ account'.epoch = account.epoch /\ account'.connect
        /\ sync' = RequestSync(RequestSync(sync, account'), account')
    BY <1>1, <1>3 DEF BalanceProvedOdd, Accounts
  <2> DEFINE once == RequestSync(sync, account')
  <2>2. Good(sync, account')
    BY <1>1, <2>1, AccountGood
  <2>3. Good(once, account') /\ (once.ready => sync.ready)
    BY <2>1, <2>2, RequestGood
  <2> HIDE DEF once
  <2>4. sync' = RequestSync(once, account')
    BY <2>1 DEF once
  <2>5. QED  BY <2>1, <2>3, <2>4, RequestGood DEF Kept
<1>4. CASE BalanceOdd
  <2>1. sync' = RequestSync(sync, account) /\ account' = account
    BY <1>4 DEF BalanceOdd
  <2>2. QED  BY <1>1, <2>1, RequestGood DEF Kept
<1>5. CASE ConnectionLost
  BY <1>1, <1>5, DisconnectedKept DEF ConnectionLost
<1>6. QED  BY <1>2, <1>3, <1>4, <1>5 DEF AccountStep

(* The answers.  The last one may open the fence.                               *)
LEMMA ReplyKept ==
  ASSUME IInv, NEW r \in sync.requests, Reply(r), ~ReplyAccepted(r)
  PROVE  Kept
<1>1. /\ account \in Accounts /\ account' = account /\ running
      /\ Good(sync, account) /\ Armed(sync)
  BY DEF IInv, TypeOK, Reply
<1>2. CASE ReplyIgnored(r)
  <2>1. r.generation # sync.active /\ sync' = Answered(sync, r)
    BY <1>2 DEF ReplyIgnored
  <2>2. QED  BY <1>1, <2>1, IgnoredGood DEF Kept
<1> DEFINE ended == Settled(sync, r)
<1>3. ASSUME r.generation = sync.active
      PROVE  Good(ended, account) /\ ~ended.ready /\ ~ended.refreshRequested
             /\ ~ended.inProgress
  BY <1>1, <1>3, SettledGood
<1>4. CASE ReplyRejected(r)
  <2>1. r.generation = sync.active /\ sync' = ended
    BY <1>4 DEF ReplyRejected
  <2> HIDE DEF ended
  <2>2. QED  BY <1>1, <1>3, <2>1 DEF Kept, Armed
<1>5. CASE ReplyFailed(r)
  <2>1. r.generation = sync.active /\ sync' = ScheduleSync(ended, account)
    BY <1>5 DEF ReplyFailed, Applies
  <2> HIDE DEF ended
  <2>2. Good(sync', account) /\ ~sync'.ready /\ ~sync'.refreshRequested
    BY <1>1, <1>3, <2>1, ScheduleGood
  <2>3. QED  BY <1>1, <2>2 DEF Kept, Armed
<1>6. CASE ReplySkipped(r)
  <2>1. /\ r.generation = sync.active /\ account.connect
        /\ sync' = RequestRefresh(Fresh(ended), account)
    BY <1>6 DEF ReplySkipped, Applies
  <2> DEFINE fresh == [Fresh(ended) EXCEPT !.ready = ended.ready]
  <2> HIDE DEF ended
  <2>2. Good(fresh, account) /\ ~fresh.refreshRequested /\ ~fresh.inProgress
        /\ ~fresh.ready
    BY <1>3, <2>1, OpenedGood
  <2>3. ended \in SyncStates
    BY <1>3, <2>1 DEF Good
  <2>4. fresh = Fresh(ended)
    BY <2>3 DEF Fresh, SyncStates
  <2>5. sync' = RequestRefresh(fresh, account)
    BY <2>1, <2>4
  <2> HIDE DEF fresh
  <2>6. QED  BY <1>1, <2>1, <2>2, <2>5, RefreshGood DEF Kept, Armed
<1>7. QED  BY <1>2, <1>4, <1>5, <1>6 DEF Reply

LEMMA AcceptedKept ==
  ASSUME IInv, NEW r \in sync.requests, Reply(r), ReplyAccepted(r)
  PROVE  Good(sync', account') /\ account' \in Accounts /\ Armed(sync')
<1>1. /\ account \in Accounts /\ account' = account /\ Good(sync, account)
      /\ r.generation = sync.active /\ account.connect
  BY DEF IInv, TypeOK, Reply, ReplyAccepted, Applies
<1> DEFINE ended == Settled(sync, r)
           opened == [Fresh(ended) EXCEPT !.ready = TRUE]
<1>2. Good(ended, account) /\ ~ended.inProgress
  BY <1>1, SettledGood
<1>3. sync' \in {opened, RequestRefresh(opened, account)}
  BY DEF ReplyAccepted
<1> HIDE DEF ended
<1>4. Good(opened, account) /\ ~opened.refreshRequested /\ ~opened.inProgress
  BY <1>1, <1>2, OpenedGood
<1> HIDE DEF opened
<1>5. CASE sync' = opened
  BY <1>1, <1>4, <1>5 DEF Armed
<1>6. CASE sync' = RequestRefresh(opened, account)
  BY <1>1, <1>4, <1>6, RefreshGood DEF Armed
<1>7. QED  BY <1>3, <1>5, <1>6

(* Everything the platform's loop does, one kind of step at a time.             *)
LEMMA StepKept ==
  ASSUME IInv, Next, \A r \in sync.requests : ~(Reply(r) /\ ReplyAccepted(r))
  PROVE  Kept
<1>1. account \in Accounts /\ Good(sync, account)
  BY DEF IInv, TypeOK
<1>2. ASSUME NEW r \in sync.requests, Reply(r)  PROVE Kept
  BY <1>2, ReplyKept
<1>3. CASE RefreshDue
  <2> DEFINE due == [sync EXCEPT !.tasks = @ - 1, !.scheduled = FALSE]
  <2>1. /\ sync.tasks > 0 /\ account' = account
        /\ sync' = RequestSync(due, account)
    BY <1>3 DEF RefreshDue
  <2>2. Good(due, account) /\ due.ready = sync.ready
    BY <1>1, <2>1, DueGood
  <2> HIDE DEF due
  <2>3. QED  BY <1>1, <2>1, <2>2, RequestGood DEF Kept
<1>4. CASE QueueWantsRefresh
  <2>1. /\ sync.ready /\ account' = account /\ running
        /\ sync' = RequestRefresh(sync, account)
    BY <1>4 DEF QueueWantsRefresh
  <2>2. account.connect /\ ~sync.inProgress /\ Armed(sync)
    BY <1>1, <2>1 DEF Good, FlagsHonest, IInv
  <2>3. QED  BY <1>1, <2>1, <2>2, RefreshGood DEF Kept
<1>5. CASE Shutdown
  <2>1. /\ sync' = Reset(DropTasks(sync)) /\ account' = account /\ running' = FALSE
    BY <1>5 DEF Shutdown
  <2>2. QED  BY <1>1, <2>1, ShutdownGood DEF Kept
<1>6. CASE AuthStep
  BY <1>6, AuthKept
<1>7. CASE AccountStep
  BY <1>7, AccountKept
<1>8. QED  BY <1>2, <1>3, <1>4, <1>5, <1>6, <1>7 DEF Next, SyncStep

(* The flags of the other managers.                                             *)
LEMMA FlagsType ==
  ASSUME TypeOK, Next
  PROVE  /\ auth' \in {"none", "queued", "login", "restart"}
         /\ leaving' \in BOOLEAN
         /\ balance' \in {"none", "polling", "retrying"}
         /\ running' \in BOOLEAN
<1>1. ASSUME NEW r \in sync.requests, Reply(r)  PROVE UNCHANGED <<auth, leaving, balance, running>>
  BY <1>1 DEF Reply
<1>2. CASE SyncStep
  BY <1>1, <1>2 DEF TypeOK, SyncStep, RefreshDue, QueueWantsRefresh, Shutdown
<1>3. CASE AuthStep
  BY <1>3 DEF TypeOK, AuthStep, ConnectRequest, BeginConnect, LoginKnown, SwitchSettings,
     AuthSucceeded, AuthRefused, AuthLost, AuthAbandoned, DisconnectRequest, Leave,
     AuthDataGiven, Connected, Disconnected
<1>4. CASE AccountStep
  BY <1>4 DEF TypeOK, AccountStep, BalanceProved, BalanceProvedOdd, BalanceOdd,
     ConnectionLost, TradeReplyProves, Connected, Disconnected
<1>5. QED  BY <1>2, <1>3, <1>4 DEF Next

-----------------------------------------------------------------------------
(* The invariant.                                                               *)

LEMMA InitIInv == Init => IInv
<1> SUFFICES ASSUME Init PROVE IInv
  OBVIOUS
<1>1. account \in Accounts
  BY DEF Init, Accounts
<1>2. /\ sync.inProgress = FALSE /\ sync.active = 0 /\ sync.requests = {}
      /\ sync.scheduled = FALSE /\ sync.ready = FALSE /\ sync.refreshRequested = FALSE
  BY DEF Init
<1>3. sync \in SyncStates
  BY DEF Init, SyncStates
<1>4. Good(sync, account) /\ Armed(sync)
  BY <1>2, <1>3 DEF Good, OneActive, RequestsOld, FlagsHonest, Armed
<1>5. QED  BY <1>1, <1>3, <1>4 DEF IInv, TypeOK, Init

LEMMA NextIInv == IInv /\ [Next]_vars => IInv'
<1> SUFFICES ASSUME IInv, [Next]_vars PROVE IInv'
  OBVIOUS
<1>1. CASE UNCHANGED vars
  <2>1. /\ account' = account /\ sync' = sync /\ auth' = auth /\ leaving' = leaving
        /\ balance' = balance /\ running' = running
    BY <1>1 DEF vars
  <2>2. QED  BY <2>1 DEF IInv, TypeOK
<1>2. CASE Next
  <2>1. /\ account' \in Accounts /\ Good(sync', account')
        /\ running' => Armed(sync')
    <3>1. CASE \E r \in sync.requests : Reply(r) /\ ReplyAccepted(r)
      BY <3>1, AcceptedKept
    <3>2. CASE \A r \in sync.requests : ~(Reply(r) /\ ReplyAccepted(r))
      BY <1>2, <3>2, StepKept DEF Kept
    <3>3. QED  BY <3>1, <3>2
  <2>2. TypeOK'
    BY <1>2, <2>1, FlagsType DEF IInv, TypeOK, Good
  <2>3. QED  BY <2>1, <2>2 DEF IInv
<1>3. QED  BY <1>1, <1>2

(* The strengthened invariant holds in every reachable state.                   *)
THEOREM Inductive == Spec => []IInv
BY InitIInv, NextIInv, PTL DEF Spec

(* Every variable keeps its type, for every set of users and settings.          *)
THEOREM TypeCorrect == Spec => []TypeOK
<1>1. IInv => TypeOK
  BY DEF IInv
<1>2. QED  BY <1>1, Inductive, PTL

(* m_sync_in_progress always stands for one request whose answer is awaited.    *)
THEOREM UnderWay == Spec => []SyncUnderWay
<1>1. IInv => SyncUnderWay
  BY DEF IInv, Good, OneActive, SyncUnderWay
<1>2. QED  BY <1>1, Inductive, PTL

(* The fence is open only for a connected account with no request under way.     *)
THEOREM FenceHonest == Spec => []FenceIsHonest
<1>1. IInv => FenceIsHonest
  BY DEF IInv, Good, FlagsHonest, FenceIsHonest
<1>2. QED  BY <1>1, Inductive, PTL

(* A refresh the queue asked for has its delayed task until the manager stops.   *)
THEOREM RefreshComing == Spec => []RefreshIsComing
<1>1. IInv => RefreshIsComing
  BY DEF IInv, Armed, RefreshIsComing
<1>2. QED  BY <1>1, Inductive, PTL

(* An accepted snapshot was asked for in the present connection, for the          *)
(* present user and settings.                                                 *)
THEOREM AcceptedCurrent == Spec => AcceptedIsCurrent
<1> DEFINE Accept == ~sync.ready /\ sync'.ready =>
              \E r \in sync.requests :
                /\ r \notin sync'.requests
                /\ r.generation = sync.active
                /\ account.connect /\ r.epoch = account.epoch
                /\ r.user = account.user /\ r.settings = account.settings
<1>1. IInv /\ [Next]_vars => [Accept]_vars
  <2> SUFFICES ASSUME IInv, Next, ~sync.ready, sync'.ready PROVE Accept
    BY DEF vars
  <2>1. PICK r \in sync.requests : Reply(r) /\ ReplyAccepted(r)
    BY StepKept DEF Kept
  <2>2. Applies(r) /\ Good(sync, account) /\ account \in Accounts
    BY <2>1 DEF ReplyAccepted, IInv, TypeOK
  <2>3. r.epoch = account.epoch /\ r.user = account.user /\ r.settings = account.settings
    BY <2>2 DEF Applies, IsCurrent, Good, RequestsOld
  <2>4. r \notin sync'.requests
    <3> DEFINE opened == [Fresh(Settled(sync, r)) EXCEPT !.ready = TRUE]
    <3>1. sync' \in {opened, RequestRefresh(opened, account)}
      BY <2>1 DEF ReplyAccepted
    <3>2. sync \in SyncStates
      BY <2>2 DEF Good
    <3>3. opened.requests = sync.requests \ {r}
      BY <3>2 DEF Fresh, Settled, Answered, SyncStates
    <3> HIDE DEF opened
    <3>4. RequestRefresh(opened, account).requests = opened.requests
      BY DEF RequestRefresh, ScheduleSync
    <3>5. QED  BY <3>1, <3>3, <3>4
  <2>5. QED  BY <2>2, <2>3, <2>4 DEF Applies
<1>2. QED  BY <1>1, Inductive, PTL DEF Spec, AcceptedIsCurrent
=============================================================================
