-------------------------------- MODULE Presence --------------------------------
(***************************************************************************)
(* PresenceGateway, PresenceInterceptor and PresenceService for one user   *)
(* with several sockets (browser tabs), who also sends requests over HTTP, *)
(* with or without a socket.  Handlers of one socket, of several and of    *)
(* requests interleave at every await; what they leave in Redis grows old  *)
(* and expires.                                                            *)
(***************************************************************************)
EXTENDS Naturals, FiniteSets

CONSTANTS
  Sockets,
  Requests,  \* HTTP requests the user makes with a good token
  Tenants,   \* tenants the user names, in a join or in X-Tenant-Id
  MaxOpens,  \* bound: how often sockets are opened
  InFlight   \* bound: handlers at the same time, but for those of disconnects

VARIABLES
  socket,    \* the sockets: open, tenant they have joined, tenant in socketUserMap
  key,       \* presence:<tenant>:<user>: "none", "fresh" (less than two minutes), "old"
  roster,    \* the tenants with the user in presence:tenant:<tenant>
  isOnline,  \* User.isOnline
  told,      \* the tenants whose clients were told last that the user is online
  tasks,     \* handlers that are not finished: [socket (or request), op, tenant, step]
  opens,
  called     \* the requests that have been made

vars == <<socket, key, roster, isOnline, told, tasks, opens, called>>

Nowhere == "nowhere"
Closed  == [open |-> FALSE, tenant |-> Nowhere, mapped |-> Nowhere]
Steps   == {"write key", "write roster", "write user", "tell"}
Ops     == {"join", "leave", "heartbeat", "disconnect", "request"}

Busy(s, op) == \E k \in tasks : k.socket = s /\ k.op = op
Begin(s, op, t) ==
  /\ Cardinality(tasks) < InFlight \/ op = "disconnect"
  /\ tasks' = tasks \cup {[socket |-> s, op |-> op, tenant |-> t, step |-> "write key"]}

IsUserOnline(t) == key[t] = "fresh"

\* Mutated form: everybody on the roster is online.
GetOnlineUsersAll == roster

\* getOnlineUsers and getTenantUsersPresence, as far as this user is concerned.
GetOnlineUsers == {t \in roster : IsUserOnline(t)}

-----------------------------------------------------------------------------
(* The gateway *)

\* handleConnection: the token is good and the user known; or the socket is closed.
HandleConnection(s) ==
  /\ ~socket[s].open /\ opens < MaxOpens
  /\ \A k \in tasks : k.socket # s          \* a new socket has a new id
  /\ opens' = opens + 1
  /\ socket' = [socket EXCEPT ![s] = [Closed EXCEPT !.open = TRUE]]
  /\ UNCHANGED <<key, roster, isOnline, told, tasks, called>>

\* handleJoinTenant: room and map at once, the rest after awaits.
HandleJoinTenant(s, t) ==
  /\ socket[s].open /\ ~Busy(s, "join")
  /\ socket' = [socket EXCEPT ![s] = [open |-> TRUE, tenant |-> t, mapped |-> t]]
  /\ Begin(s, "join", t)
  /\ UNCHANGED <<key, roster, isOnline, told, opens, called>>

HandleLeaveTenant(s) ==
  /\ socket[s].open /\ socket[s].tenant # Nowhere /\ ~Busy(s, "leave")
  /\ Begin(s, "leave", socket[s].tenant)
  /\ UNCHANGED <<socket, key, roster, isOnline, told, opens, called>>

\* handleDisconnect: only when the map has the socket.
HandleDisconnect(s) ==
  /\ socket[s].open
  /\ socket' = [socket EXCEPT ![s].open = FALSE]
  /\ IF socket[s].mapped # Nowhere /\ ~Busy(s, "disconnect")
     THEN Begin(s, "disconnect", socket[s].mapped) ELSE UNCHANGED tasks
  /\ UNCHANGED <<key, roster, isOnline, told, opens, called>>

HandleHeartbeat(s) ==
  /\ socket[s].open /\ socket[s].tenant # Nowhere /\ ~Busy(s, "heartbeat")
  /\ Begin(s, "heartbeat", socket[s].tenant)
  /\ UNCHANGED <<socket, key, roster, isOnline, told, opens, called>>

\* The interceptor: every authenticated request that names a tenant, whatever sockets
\* the user has; nobody waits for what it begins.
Intercept(r, t) ==
  /\ r \notin called /\ called' = called \cup {r}
  /\ Begin(r, "request", t)
  /\ UNCHANGED <<socket, key, roster, isOnline, told, opens>>

-----------------------------------------------------------------------------
(* The service: one command per step *)

After(k) ==
  CASE k.step = "write key" -> "write roster"
    [] k.step = "write roster" -> "write user"
    [] OTHER -> "tell"
Step(k)   == tasks' = (tasks \ {k}) \cup {[k EXCEPT !.step = After(k)]}
Finish(k) == tasks' = tasks \ {k}

\* updateActivity: no write to the database, nobody is told.
UpdateActivity(k) ==
  /\ k.op \in {"heartbeat", "request"}
  /\ \/ /\ k.step = "write key" /\ key' = [key EXCEPT ![k.tenant] = "fresh"] /\ Step(k)
        /\ UNCHANGED roster
     \/ /\ k.step = "write roster" /\ roster' = roster \cup {k.tenant} /\ Finish(k)
        /\ UNCHANGED key
  /\ UNCHANGED <<socket, isOnline, told>>

\* setUserOnline, and the clients of the tenant are told.
SetUserOnline(k) ==
  /\ k.op = "join"
  /\ \/ /\ k.step = "write key" /\ key' = [key EXCEPT ![k.tenant] = "fresh"] /\ Step(k)
        /\ UNCHANGED <<roster, isOnline, told>>
     \/ /\ k.step = "write roster" /\ roster' = roster \cup {k.tenant} /\ Step(k)
        /\ UNCHANGED <<key, isOnline, told>>
     \/ /\ k.step = "write user" /\ isOnline' = TRUE /\ Step(k)
        /\ UNCHANGED <<key, roster, told>>
     \/ /\ k.step = "tell" /\ told' = told \cup {k.tenant} /\ Finish(k)
        /\ UNCHANGED <<key, roster, isOnline>>
  /\ UNCHANGED socket

\* setUserOffline, the clients are told, and the socket is taken out of the map.
SetUserOffline(k) ==
  /\ k.op \in {"leave", "disconnect"}
  /\ \/ /\ k.step = "write key" /\ key' = [key EXCEPT ![k.tenant] = "none"] /\ Step(k)
        /\ UNCHANGED <<socket, roster, isOnline, told>>
     \/ /\ k.step = "write roster" /\ roster' = roster \ {k.tenant} /\ Step(k)
        /\ UNCHANGED <<socket, key, isOnline, told>>
     \/ /\ k.step = "write user" /\ isOnline' = FALSE /\ Step(k)
        /\ UNCHANGED <<socket, key, roster, told>>
     \/ /\ k.step = "tell" /\ told' = told \ {k.tenant} /\ Finish(k)
        /\ socket' = IF k.op = "leave"
                     THEN [socket EXCEPT ![k.socket].mapped = Nowhere, ![k.socket].tenant = Nowhere]
                     ELSE [socket EXCEPT ![k.socket].mapped = Nowhere]
        /\ UNCHANGED <<key, roster, isOnline>>

Handler ==
  /\ \E k \in tasks : UpdateActivity(k) \/ SetUserOnline(k) \/ SetUserOffline(k)
  /\ UNCHANGED <<opens, called>>

\* Two minutes pass without activity; the five minutes of SETEX are over.
Age ==
  /\ \E t \in Tenants :
       /\ key[t] # "none"
       /\ key' = [key EXCEPT ![t] = IF @ = "fresh" THEN "old" ELSE "none"]
  /\ UNCHANGED <<socket, roster, isOnline, told, tasks, opens, called>>

Init ==
  /\ socket = [s \in Sockets |-> Closed]
  /\ key = [t \in Tenants |-> "none"] /\ roster = {} /\ isOnline = FALSE
  /\ told = {} /\ tasks = {} /\ opens = 0 /\ called = {}

Next ==
  \/ \E s \in Sockets : \/ HandleConnection(s) \/ HandleLeaveTenant(s) \/ HandleDisconnect(s)
                        \/ HandleHeartbeat(s) \/ \E t \in Tenants : HandleJoinTenant(s, t)
  \/ \E r \in Requests, t \in Tenants : Intercept(r, t)
  \/ Handler \/ Age

TypeOK ==
  /\ socket \in [Sockets -> [open : BOOLEAN, tenant : Tenants \cup {Nowhere},
                             mapped : Tenants \cup {Nowhere}]]
  /\ key \in [Tenants -> {"none", "fresh", "old"}]
  /\ roster \subseteq Tenants /\ isOnline \in BOOLEAN /\ told \subseteq Tenants
  /\ tasks \subseteq [socket : Sockets \cup Requests, op : Ops, tenant : Tenants, step : Steps]
  /\ opens \in 0 .. MaxOpens /\ called \subseteq Requests

\* The user has no socket and no request under way.
Absent ==
  /\ \A s \in Sockets : ~socket[s].open
  /\ \A k \in tasks : k.op # "request"

\* A user who stays away is, in the end, no longer among the online users of any tenant and
\* does not come back among them: whatever the last requests and the handlers of closed
\* sockets still write in whatever order, whatever tenant the map has forgotten, and though
\* nothing is ever taken from the roster of a tenant that only requests have named.
AbsentGoesOffline == <>[]Absent => <>[](GetOnlineUsers = {})

\* A user with a joined socket is online until the socket has been idle for two minutes
\* (README, "Counterexamples": another tab is closed).
TabKeepsOnline ==
  \A t \in Tenants :
    (\E s \in Sockets : socket[s].open /\ socket[s].tenant = t /\ ~Busy(s, "join") /\ ~Busy(s, "leave"))
      => key[t] # "none"

\* The flag of a user without a socket goes back (README, "Counterexamples": a join that
\* is overtaken by the disconnect of its socket sets it for good).
FlagGoesBack ==
  (\A s \in Sockets : ~socket[s].open)
    ~> (~isOnline \/ \E s \in Sockets : socket[s].open)
=============================================================================
