-------------------------- MODULE ActiveTradesSync --------------------------
(***************************************************************************)
(* The synchronisation of the broker's open trades with the trade queue:    *)
(* platforms/IntradeBarPlatform/ActiveTradesSyncManager.hpp and the         *)
(* admission fence of components/.../TradeQueueManager.hpp.                 *)
(*                                                                         *)
(* The handlers call each other: an account event makes the manager drop    *)
(* its request, tell the queue that no snapshot is available and ask for a  *)
(* new one, all before notify returns.  A handler is therefore an operator  *)
(* from one state of the manager to the next, and an action is the whole    *)
(* chain that one event, answer or delayed task starts.                     *)
(*                                                                         *)
(* The manager reacts to the account that AuthManager.hpp, BalanceManager   *)
(* .hpp and TradeManager.hpp write.  Their actions keep every change those  *)
(* make to the connection flag and to the account's identity, published or  *)
(* silent, and abstract the HTTP conversations that lead to them.           *)
(***************************************************************************)
EXTENDS Integers, FiniteSets

CONSTANTS
  Users,          \* broker user identities a login may yield
  NoUser,         \* user_id 0: not known yet
  Settings,       \* pairs of account type and currency
  MaxGeneration   \* bound: snapshot generations used before events stop

ASSUME NoUserIsNone == NoUser \notin Users
ASSUME SettingsGiven == Settings # {}
ASSUME GenerationBound == MaxGeneration \in Nat

VARIABLES
  account,   \* AccountInfoData: connect, user, settings; epoch counts its losses
  sync,      \* the manager, its requests in flight and the fence it drives
  auth,      \* AuthManager: the flow under way
  leaving,   \* AuthManager: the second task of disconnect is due
  balance,   \* BalanceManager: its periodic tasks
  running    \* ActiveTradesSyncManager::shutdown has not been called

vars == <<account, sync, auth, leaving, balance, running>>

(* A snapshot request carries what its callback captured.  epoch is history:  *)
(* the connection it was sent in, which no code reads.                       *)
Requests == [generation : Nat, user : Users \cup {NoUser}, settings : Settings,
             context : Nat, epoch : Nat]

SyncStates ==
  [inProgress : BOOLEAN,        \* m_sync_in_progress
   scheduled : BOOLEAN,         \* m_refresh_scheduled
   generation : Nat,            \* m_sync_generation
   active : Nat,                \* m_active_sync_generation, 0 for none
   context : Nat,               \* m_account_context_generation
   tasks : Nat,                 \* delayed refresh tasks in m_task_manager
   requests : SUBSET Requests,  \* HTTP requests not answered
   ready : BOOLEAN,             \* queue: m_open_trades_snapshot_ready
   refreshRequested : BOOLEAN]  \* queue: m_snapshot_refresh_requested

Accounts == [connect : BOOLEAN, user : Users \cup {NoUser}, settings : Settings,
             epoch : Nat]

-----------------------------------------------------------------------------
(* The handlers of ActiveTradesSyncManager, from state s with account acc.    *)

\* Fault: only the pending refresh is forgotten, and the fence stays open.
CloseFenceNot(s) == [s EXCEPT !.refreshRequested = FALSE]

\* Fault: the fence closes and the refresh it waited for stays pending.
CloseFenceKeepsFlag(s) == [s EXCEPT !.ready = FALSE]

\* OpenTradesSnapshotAvailabilityEvent(false), as the queue handles it.
CloseFence(s) == [s EXCEPT !.ready = FALSE, !.refreshRequested = FALSE]

\* schedule_sync: one delayed task, unless the flag says there is one.
ScheduleSync(s, acc) ==
  IF s.scheduled \/ ~acc.connect THEN s
  ELSE [s EXCEPT !.tasks = @ + 1, !.scheduled = TRUE]

\* capture_account_context, in the callback of the next generation.
RequestOf(s, acc) ==
  [generation |-> s.generation + 1, user |-> acc.user, settings |-> acc.settings,
   context |-> s.context, epoch |-> acc.epoch]

\* The body of request_sync: close the fence and send a request.
Send(s, acc) ==
  [CloseFence(s) EXCEPT
     !.inProgress = TRUE, !.scheduled = FALSE,
     !.generation = @ + 1, !.active = s.generation + 1,
     !.requests = @ \cup {RequestOf(s, acc)}]

\* request_sync: one request at a time, and only for a connected account.
RequestSync(s, acc) ==
  CASE s.inProgress -> ScheduleSync(s, acc)
    [] ~s.inProgress /\ acc.connect -> Send(s, acc)
    [] OTHER -> s

\* reset_sync_state.
Reset(s) ==
  [s EXCEPT !.inProgress = FALSE, !.active = 0, !.generation = @ + 1]

\* TaskManager::shutdown drops the delayed tasks and the flag is cleared.
DropTasks(s) == [s EXCEPT !.tasks = 0, !.scheduled = FALSE]

\* invalidate_account_context.
Invalidate(s) == [CloseFence(Reset(DropTasks(s))) EXCEPT !.context = @ + 1]

\* TradeQueueManager::request_snapshot_refresh and the event's handler here.
RequestRefresh(s, acc) ==
  IF s.refreshRequested THEN s
  ELSE ScheduleSync([s EXCEPT !.refreshRequested = TRUE], acc)

\* Fault: only the generation of the context is compared.
CurrentContextOnly(s, acc, r) == r.context = s.context

\* is_account_context_current.
IsCurrent(s, acc, r) ==
  /\ r.context = s.context
  /\ r.user = acc.user
  /\ r.settings = acc.settings

\* Answered requests leave the set.
Answered(s, r) == [s EXCEPT !.requests = @ \ {r}]

\* Fault: the progress flag outlives the request.
SettledInProgress(s, r) == [Answered(s, r) EXCEPT !.active = 0]

\* The callback of the active request, up to its checks.
Settled(s, r) == [Answered(s, r) EXCEPT !.active = 0, !.inProgress = FALSE]

-----------------------------------------------------------------------------
Init ==
  /\ \E c \in Settings :
       account = [connect |-> FALSE, user |-> NoUser, settings |-> c, epoch |-> 0]
  /\ sync = [inProgress |-> FALSE, scheduled |-> FALSE, generation |-> 0,
             active |-> 0, context |-> 0, tasks |-> 0, requests |-> {},
             ready |-> FALSE, refreshRequested |-> FALSE]
  /\ auth = "none" /\ leaving = FALSE /\ balance = "none" /\ running = TRUE

\* Nothing calls the manager once the platform has shut it down; an event that
\* may start requests leaves room for two generations.
Live == running /\ sync.generation + 2 <= MaxGeneration

(* The answers to snapshot requests.                                          *)

\* An answer to a request that is no longer the active one is ignored.
ReplyIgnored(r) ==
  /\ r.generation # sync.active
  /\ sync' = Answered(sync, r)

\* An answer for another account, or for none, is ignored as well.
ReplyRejected(r) ==
  /\ r.generation = sync.active
  /\ ~(account.connect /\ IsCurrent(sync, account, r))
  /\ sync' = Settled(sync, r)

Applies(r) ==
  /\ r.generation = sync.active
  /\ account.connect
  /\ IsCurrent(sync, account, r)

ReplyFailed(r) ==
  /\ Applies(r)
  /\ sync' = ScheduleSync(Settled(sync, r), account)

\* The queue may ask for a refresh again.
Fresh(s) == [s EXCEPT !.refreshRequested = FALSE]

\* The queue skips the snapshot while it has local trades, and asks for another.
ReplySkipped(r) ==
  /\ Applies(r)
  /\ sync' = RequestRefresh(Fresh(Settled(sync, r)), account)

\* The queue accepts it; trades without a close time call for a refresh.
ReplyAccepted(r) ==
  /\ Applies(r)
  /\ LET opened == [Fresh(Settled(sync, r)) EXCEPT !.ready = TRUE]
     IN sync' \in {opened, RequestRefresh(opened, account)}

Reply(r) ==
  /\ running
  /\ ReplyIgnored(r) \/ ReplyRejected(r) \/ ReplyFailed(r)
     \/ ReplySkipped(r) \/ ReplyAccepted(r)
  /\ UNCHANGED <<account, auth, leaving, balance, running>>

(* The other calls on the manager.                                            *)

\* process: a delayed refresh task is due.
RefreshDue ==
  /\ Live
  /\ sync.tasks > 0
  /\ sync' = RequestSync([sync EXCEPT !.tasks = @ - 1, !.scheduled = FALSE], account)
  /\ UNCHANGED <<account, auth, leaving, balance, running>>

\* The close times of an accepted snapshot ran out with trades left.
QueueWantsRefresh ==
  /\ running
  /\ sync.ready
  /\ ~sync.refreshRequested
  /\ sync' = RequestRefresh(sync, account)
  /\ UNCHANGED <<account, auth, leaving, balance, running>>

Shutdown ==
  /\ running
  /\ sync' = Reset(DropTasks(sync))
  /\ running' = FALSE
  /\ UNCHANGED <<account, auth, leaving, balance>>

-----------------------------------------------------------------------------
(* What AuthManager, BalanceManager and TradeManager do to the account, and    *)
(* what the manager does in the events they publish.                         *)

\* connect = true is followed by the event CONNECTED: polling starts.
Connected(acc) ==
  /\ account' = [acc EXCEPT !.connect = TRUE]
  /\ sync' = RequestSync(sync, account')
  /\ balance' = "polling"

\* connect = false is followed by DISCONNECTED: the search for a host starts.
Disconnected(acc) ==
  /\ account' = [acc EXCEPT !.connect = FALSE, !.epoch = @ + 1]
  /\ sync' = Invalidate(sync)
  /\ balance' = "retrying"

\* connect: the flow is queued and the balance manager's tasks are dropped.
ConnectRequest ==
  /\ Live
  /\ auth' = "queued" /\ balance' = "none"
  /\ UNCHANGED <<account, sync, leaving, running>>

\* The queued task: leave the old connection, forget the user and take the
\* configured settings, before CONNECTING is published.
BeginConnect(c) ==
  /\ Live
  /\ auth = "queued" /\ auth' = "login"
  /\ LET fresh == [account EXCEPT !.user = NoUser, !.settings = c]
     IN \/ account.connect /\ Disconnected(fresh)
        \/ ~account.connect /\ account' = fresh /\ UNCHANGED <<sync, balance>>
  /\ UNCHANGED <<leaving, running>>

\* set_account_user_id, which publishes nothing.
LoginKnown(u) ==
  /\ Live
  /\ auth = "login"
  /\ account' = [account EXCEPT !.user = u]
  /\ UNCHANGED <<sync, auth, leaving, balance, running>>

\* The broker acknowledged a switch of account type or currency.
SwitchSettings(c) ==
  /\ Live
  /\ auth \in {"login", "restart"}
  /\ account' = [account EXCEPT !.settings = c]
  /\ sync' = RequestSync(Invalidate(sync), account')
  /\ UNCHANGED <<auth, leaving, balance, running>>

\* finalize_authentication: the settings are written without an event, and the
\* connection is published unless somebody else established it meanwhile.
AuthSucceeded(c) ==
  /\ Live
  /\ auth \in {"login", "restart"} /\ auth' = "none"
  /\ LET known == [account EXCEPT !.settings = c]
     IN \/ ~account.connect /\ Connected(known)
        \/ account.connect /\ account' = known /\ UNCHANGED <<sync, balance>>
  /\ UNCHANGED <<leaving, running>>

\* FAILED_TO_CONNECT: the connection flag is left alone.
AuthRefused ==
  /\ Live
  /\ \/ auth = "login"
     \/ auth = "restart" /\ ~account.connect
  /\ auth' = "none"
  /\ sync' = Invalidate(sync)
  /\ UNCHANGED <<account, leaving, balance, running>>

\* The final balance, or the profile of a restarted flow, could not be read.
AuthLost ==
  /\ Live
  /\ auth \in {"login", "restart"} /\ auth' = "none"
  /\ account.connect /\ Disconnected(account)
  /\ UNCHANGED <<leaving, running>>

\* A restarted flow fails when the account is no longer connected.
AuthAbandoned ==
  /\ Live
  /\ auth = "restart" /\ ~account.connect
  /\ auth' = "none"
  /\ UNCHANGED <<account, sync, leaving, balance, running>>

\* A balance answer in the search for a host: the account is connected again.
BalanceProved ==
  /\ Live
  /\ balance = "retrying" /\ ~account.connect
  /\ Connected(account)
  /\ UNCHANGED <<auth, leaving, running>>

\* ... and when the answer has another currency or an unexplained amount,
\* RestartAuthEvent comes on top.
BalanceProvedOdd ==
  /\ Live
  /\ balance = "retrying" /\ ~account.connect
  /\ account' = [account EXCEPT !.connect = TRUE]
  /\ sync' = RequestSync(RequestSync(sync, account'), account')
  /\ balance' = "polling" /\ auth' = "restart"
  /\ UNCHANGED <<leaving, running>>

\* The same while polling.
BalanceOdd ==
  /\ Live
  /\ balance = "polling" /\ account.connect
  /\ sync' = RequestSync(sync, account)
  /\ auth' = "restart"
  /\ UNCHANGED <<account, leaving, balance, running>>

\* The balance could not be read, the host does not answer, or (TradeManager)
\* the broker answered an order or a check with 451.
ConnectionLost ==
  /\ Live
  /\ account.connect
  /\ Disconnected(account)
  /\ UNCHANGED <<auth, leaving, running>>

\* TradeManager: the balance read after an order or a check arrives.
TradeReplyProves ==
  /\ Live
  /\ ~account.connect /\ account.epoch > 0 /\ auth # "login"
  /\ Connected(account)
  /\ UNCHANGED <<auth, leaving, running>>

\* disconnect: the manager's context ends at once, the connection flag later.
\* The queue closes the fence and drops what it knew of the snapshot.
DisconnectRequest ==
  /\ Live
  /\ auth' = "none" /\ leaving' = TRUE /\ balance' = "none"
  /\ sync' = Invalidate(sync)
  /\ UNCHANGED <<account, running>>

\* The second task of disconnect.
Leave ==
  /\ Live
  /\ leaving /\ leaving' = FALSE
  /\ \/ account.connect /\ Disconnected(account)
     \/ ~account.connect /\ UNCHANGED <<account, sync, balance>>
  /\ UNCHANGED <<auth, running>>

\* configure_auth: a flow under way is cancelled, and settings c other than the
\* connected account's end the context.
AuthDataGiven(c) ==
  /\ Live
  /\ auth' = "none"
  /\ sync' = IF account.connect /\ c # account.settings THEN Invalidate(sync) ELSE sync
  /\ UNCHANGED <<account, leaving, balance, running>>

-----------------------------------------------------------------------------
SyncStep ==
  (\E r \in sync.requests : Reply(r)) \/ RefreshDue \/ QueueWantsRefresh \/ Shutdown

AuthStep ==
  \/ ConnectRequest
  \/ \E c \in Settings : BeginConnect(c) \/ SwitchSettings(c) \/ AuthSucceeded(c)
  \/ \E u \in Users : LoginKnown(u)
  \/ AuthRefused \/ AuthLost \/ AuthAbandoned
  \/ DisconnectRequest \/ Leave
  \/ \E c \in Settings : AuthDataGiven(c)

AccountStep ==
  BalanceProved \/ BalanceProvedOdd \/ BalanceOdd \/ ConnectionLost \/ TradeReplyProves

Next == SyncStep \/ AuthStep \/ AccountStep

Spec == Init /\ [][Next]_vars

-----------------------------------------------------------------------------
TypeOK ==
  /\ account \in Accounts
  /\ sync \in SyncStates
  /\ auth \in {"none", "queued", "login", "restart"}
  /\ leaving \in BOOLEAN
  /\ balance \in {"none", "polling", "retrying"}
  /\ running \in BOOLEAN

(* While the manager believes a request is under way there is one it will      *)
(* still listen to: otherwise m_sync_in_progress would hold every later       *)
(* request back for ever.                                                    *)
SyncUnderWay ==
  /\ sync.inProgress <=> sync.active # 0
  /\ sync.inProgress => \E r \in sync.requests : r.generation = sync.active
  /\ \A r, s \in sync.requests : r.generation = s.generation => r = s

(* Trades are admitted only for a connected account, and never while a newer   *)
(* snapshot is on its way: every path that ends a connection, the silent ones  *)
(* included, passes through invalidate_account_context.                      *)
FenceIsHonest ==
  sync.ready => account.connect /\ ~sync.inProgress

(* A refresh the queue waits for is really coming while the account stays       *)
(* connected: the queue asks once and its flag keeps it from asking again,     *)
(* and the manager's own flag may say that a task is there.                   *)
RefreshIsComing ==
  running /\ account.connect /\ sync.refreshRequested =>
    sync.inProgress \/ sync.tasks > 0

(* The fence opens only by an answer to the active request, sent for the same  *)
(* user and settings and in this very connection: not by an answer that        *)
(* outlived a disconnect and a reconnect.                                    *)
AcceptedIsCurrent ==
  [][~sync.ready /\ sync'.ready =>
       \E r \in sync.requests :
         /\ r \notin sync'.requests
         /\ r.generation = sync.active
         /\ account.connect /\ r.epoch = account.epoch
         /\ r.user = account.user /\ r.settings = account.settings]_vars

(* tests/intrade_bar_api/WORKFLOWS.md: "A failed or rejected snapshot leaves    *)
(* admission fail-closed and schedules a retry".                             *)
RejectedIsRetried ==
  [][\A r \in sync.requests \ sync'.requests :
       r.generation = sync.active /\ account.connect =>
         sync'.ready \/ sync'.inProgress \/ sync'.tasks > 0]_vars

=============================================================================
