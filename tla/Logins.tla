------------------------------- MODULE Logins -------------------------------
(***************************************************************************)
(* Logins, sessions and the tokens client applications get for a user      *)
(* (transport/auth.go, the session methods of service/siteservice.go and   *)
(* database/mysqldal.go, the mutex-guarded storages of login states,       *)
(* authorization codes and device codes).                                  *)
(*                                                                         *)
(* Sessions, roles and client secrets are rows of MariaDB, events rows of  *)
(* PostgreSQL, and codes live in memory.  A handler passes from one to the *)
(* next, and other requests, a failed call or a restart come in between.   *)
(* A session is named by its secret; what a cookie holds and how a secret  *)
(* is encoded is left out.                                                 *)
(***************************************************************************)
EXTENDS Naturals, FiniteSets

CONSTANTS
    Users, Apps, Scopes,
    Clients,      \* requests that can be served at the same time
    Nonces, Codes, Devices, Secrets, None,
    RoleAnswers,  \* the role sets Discord may report of a user
    Young,        \* users whose account is younger than thirty days
    AppScopes,    \* scopes an application may ask for
    CredsScopes,  \* scopes it may have for itself
    Owner,        \* OwnerUID of an application
    OpenSessions, \* the logins this instance begins with
    OpenCodes,    \* the authorizations a code may have when it begins
    MaxRequests,  \* bound: requests served
    MaxFailures,  \* bound: failed calls and restarts
    MaxLate       \* bound: sessions and codes that run out of time

\* The secrets, nonces and codes of an instance bound the logins and tokens.
People == Users \cup Apps
RoleNames == {"staff", "deleter", "god"}

\* Operations that change both databases and log what they changed.
Logged == {"login", "logout", "revoke", "endall", "secret"}
Ops == Logged \cup
    {"ban", "nuke", "credentials", "authorize", "exchange", "approve", "deny"}

ASSUME PeopleAssumption ==
    /\ Users \cap Apps = {} /\ Codes \cap Devices = {}
    /\ None \notin People \cup Secrets \cup Codes \cup Devices \cup Ops
    /\ "all" \notin Scopes /\ "identity" \in Scopes
    /\ RoleAnswers \in [Users -> SUBSET SUBSET RoleNames]
    /\ AppScopes \in [Apps -> SUBSET Scopes]
    /\ CredsScopes \in [Apps -> SUBSET Scopes]
    /\ Owner \in [Apps -> Users]

ASSUME ClientsAssumption == IsFiniteSet(Clients)
ASSUME BoundsAssumption == {MaxRequests, MaxFailures, MaxLate} \subseteq Nat

\* A grant's scopes are a set; AuthScopeAll is the scope of a login.
SessionType ==
    [secret : Secrets, uid : People, scope : SUBSET (Scopes \cup {"all"})]

ASSUME OpenAssumption ==
    /\ OpenSessions \subseteq SessionType
    /\ \A s \in OpenSessions : s.uid \in Users /\ s.scope = {"all"}
    /\ \A s, t \in OpenSessions : s.secret = t.secret => s = t

\* state "lost": the server has restarted since.
CodeType == [state : {"unused", "pending", "complete", "lost"},
             uid : Users \cup {None}, app : Apps \cup {None},
             scope : SUBSET Scopes]
DeviceType == [state : {"unused", "pending", "denied", "complete", "lost"},
               app : Apps \cup {None}, scope : SUBSET Scopes,
               token : Secrets \cup {None}]
NoCode == [state |-> "unused", uid |-> None, app |-> None, scope |-> {}]
NoDevice == [state |-> "unused", app |-> None, scope |-> {}, token |-> None]

ASSUME CodesAssumption == \A k \in OpenCodes :
    k \in CodeType /\ k.state = "pending" /\ k.uid \in Users

\* uid: who it acts for; target: whose sessions, or which application;
\* secret: the session it makes or ends; held: the token of a cloned device
\* code; again: the code had been answered for when the exchange came.
RequestType ==
    [op : Ops \cup {None}, pc : {"idle", "fetch", "store", "event",
           "commit", "gen", "save"},
     uid : People \cup {None}, target : People \cup {None},
     item : Codes \cup Devices \cup {None}, scope : SUBSET Scopes,
     roles : SUBSET RoleNames, secret : Secrets \cup {None},
     held : Secrets \cup {None}, again : BOOLEAN]
Idle == [op |-> None, pc |-> "idle", uid |-> None, target |-> None,
         item |-> None, scope |-> {}, roles |-> {}, secret |-> None,
         held |-> None, again |-> FALSE]

VARIABLES
    sessions, roles, armed,  \* MariaDB: sessions, roles, apps with a secret
    events,                  \* PostgreSQL: events of a kind and a user
    state, code, device,     \* in memory: stateKeeper, AuthCodeStorage,
                             \* DeviceFlowStorage
    req, served, failures,
    late,                    \* sessions, codes and device codes out of time
    owner,                   \* whom CreateAuthToken made a secret for
    delivered,               \* outside: how often a secret was handed out
    \* History, read by no action:
    done,                    \* committed changes of a kind and a user
    spent                    \* codes an exchange has been answered for

vars == <<sessions, roles, armed, events, state, code, device, req, served,
          failures, late, owner, done, delivered, spent>>
memory == <<state, code, device>>
mariadb == <<sessions, roles, armed>>
tally == <<done, delivered, spent>>

Counts == [Logged \cup {"newtoken", "device"} -> [People -> Nat]]

TypeOK ==
    /\ sessions \subseteq SessionType
    /\ roles \in [Users -> SUBSET RoleNames]
    /\ armed \subseteq Apps
    /\ events \in Counts
    /\ state \in [Nonces -> {"unused", "open", "gone"}]
    /\ code \in [Codes -> CodeType]
    /\ device \in [Devices -> DeviceType]
    /\ req \in [Clients -> RequestType]
    /\ served \in Nat /\ failures \in Nat
    /\ late \subseteq Secrets \cup Codes \cup Devices
    /\ owner \in [Secrets -> People \cup {None}]
    /\ done \in Counts
    /\ delivered \in [Secrets -> Nat]
    /\ spent \subseteq Codes

\* Whoever has logged in has roles, and holds the secret.  A code is not given
\* out yet, or waits to be exchanged.
Init ==
    /\ sessions = OpenSessions /\ armed = {}
    /\ roles \in [Users -> SUBSET RoleNames]
    /\ \A u \in Users : IF \E s \in OpenSessions : s.uid = u
                        THEN roles[u] \in RoleAnswers[u] ELSE roles[u] = {}
    /\ events = [k \in Logged \cup {"newtoken", "device"} |->
                    [u \in People |-> 0]]
    /\ state = [n \in Nonces |-> "unused"]
    /\ code \in [Codes -> {NoCode} \cup OpenCodes]
    /\ device = [d \in Devices |-> NoDevice]
    /\ req = [c \in Clients |-> Idle]
    /\ served = 0 /\ failures = 0
    /\ late = {}
    /\ owner = [x \in Secrets |->
                  IF \E s \in OpenSessions : s.secret = x
                  THEN (CHOOSE s \in OpenSessions : s.secret = x).uid
                  ELSE None]
    /\ done = events
    /\ delivered = [x \in Secrets |->
                      IF owner[x] = None THEN 0 ELSE 1]
    /\ spent = {}

-----------------------------------------------------------------------------
(* Sessions and the checks of the routes *)

\* loadSessionAuthInfo: the row is there and its time is not over.
Valid(s) == s \in sessions /\ s.secret \notin late

\* UserAuthMux, then RequestScope: a live session of u with the scope.
Authenticated(u) == \E s \in sessions : Valid(s) /\ s.uid = u
HasScopeAll(u) == \E s \in sessions : Valid(s) /\ s.uid = u /\ "all" \in s.scope
IsGod(u) == "god" \in roles[u]
IsDeleter(u) == "deleter" \in roles[u]

\* Staff and trial curators may log in with a young account.
MayLogIn(u, answer) == u \in Users \ Young \/ "staff" \in answer

\* A request c arrives as r.
Serve(c, r) ==
    /\ req[c].pc = "idle" /\ served < MaxRequests
    /\ req' = [req EXCEPT ![c] = r]
    /\ served' = served + 1

Answer(c) == req' = [req EXCEPT ![c] = Idle]
Goto(c, pc) == req' = [req EXCEPT ![c].pc = pc]

Count(f, kind, u) == [f EXCEPT ![kind][u] = @ + 1]

\* CreateAuthToken: a random UUID.
Fresh(x) == owner[x] = None

-----------------------------------------------------------------------------
(* Logging in with Discord *)

\* HandleDiscordAuth: a state is generated.
HandleDiscordAuth(n) ==
    /\ state[n] = "unused"
    /\ state' = [state EXCEPT ![n] = "open"]
    /\ UNCHANGED <<mariadb, events, code, device, req, served, failures, late,
                   owner, tally>>

\* Clean compares v.After(v + expirationSeconds): no state is ever too old.
TooOld(n) == FALSE

\* Consume, under its mutex, then GetServerUser: the roles of the moment decide
\* whether a young account is let in.
HandleDiscordCallback(c, n, u) ==
    /\ state[n] = "open" /\ ~TooOld(n)
    /\ state' = [state EXCEPT ![n] = "gone"]
    /\ \E answer \in RoleAnswers[u] :
         Serve(c, IF MayLogIn(u, answer)
                  THEN [Idle EXCEPT !.op = "login", !.pc = "fetch", !.uid = u]
                  ELSE Idle)
    /\ UNCHANGED <<mariadb, events, code, device, failures, late, owner, tally>>

\* SaveUser asks Discord again, before its transaction begins.
FetchRoles(c) ==
    /\ req[c].pc = "fetch"
    /\ \E answer \in RoleAnswers[req[c].uid] :
         req' = [req EXCEPT ![c].pc = "store", ![c].roles = answer]
    /\ UNCHANGED <<mariadb, memory, events, served, failures, late, owner, tally>>

\* StoreDiscordUser keeps the user's row locked until the commit.
UserLocked(u) == \E c \in Clients :
    req[c].op = "login" /\ req[c].uid = u /\ req[c].pc \in {"event", "commit"}

\* User, roles and session are written in a transaction nobody sees yet.
StoreUser(c) ==
    /\ req[c].pc = "store" /\ ~UserLocked(req[c].uid)
    /\ \E x \in Secrets :
         /\ Fresh(x)
         /\ owner' = [owner EXCEPT ![x] = req[c].uid]
         /\ req' = [req EXCEPT ![c].pc = "event", ![c].secret = x]
    /\ UNCHANGED <<mariadb, memory, events, served, failures, late, tally>>

-----------------------------------------------------------------------------
(* Two databases, one operation: the event is committed first. *)

\* Slip: MariaDB is committed first.
CommitEvent_Last(c) ==
    /\ req[c].pc = "event" /\ req[c].op \in Logged
    /\ Goto(c, "commit")
    /\ UNCHANGED <<mariadb, memory, events, served, failures, late, owner, tally>>

CommitEvent(c) ==
    /\ req[c].pc = "event" /\ req[c].op \in Logged
    /\ events' = Count(events, req[c].op, req[c].uid)
    /\ Goto(c, "commit")
    /\ UNCHANGED <<mariadb, memory, served, failures, late, owner, tally>>

\* The sessions the transaction of r deletes.
Ended(r) == CASE r.op = "logout" -> {s \in sessions : s.secret = r.secret}
              [] r.op = "revoke" -> {s \in sessions : s.uid = r.uid
                                                   /\ s.secret = r.secret}
              [] r.op \in {"endall", "ban"} ->
                     {s \in sessions : s.uid = r.target}
              [] r.op = "nuke" -> sessions
              [] OTHER -> {}

\* SaveUser answers with its session; StoreDiscordUserRoles has replaced the
\* roles by those fetched before.
CommitLogin(c) ==
    /\ req[c].pc = "commit" /\ req[c].op = "login"
    /\ sessions' = sessions \cup
         {[secret |-> req[c].secret, uid |-> req[c].uid, scope |-> {"all"}]}
    /\ roles' = [roles EXCEPT ![req[c].uid] = req[c].roles]
    /\ done' = Count(done, "login", req[c].uid)
    /\ delivered' = [delivered EXCEPT ![req[c].secret] = @ + 1]
    /\ Answer(c)
    /\ UNCHANGED <<armed, events, memory, served, failures, late, owner, spent>>

\* Logout, RevokeSession, DeleteUserSessions, SetClientAppSecret, and UserBan
\* and NukeSessionTable, which log nothing.
CommitChange(c) ==
    /\ req[c].pc = "commit" /\ req[c].op # "login"
    /\ sessions' = sessions \ Ended(req[c])
    /\ armed' = armed \cup (IF req[c].op = "secret" THEN {req[c].target} ELSE {})
    /\ done' = IF req[c].op \in Logged
               THEN Count(done, req[c].op, req[c].uid) ELSE done
    /\ Answer(c)
    /\ UNCHANGED <<roles, events, memory, served, failures, late, owner,
                   delivered, spent>>

\* HandleLogout needs a cookie and no session: it may come twice.
HandleLogout(c, x) ==
    /\ delivered[x] > 0 /\ owner[x] \in Users
    /\ Serve(c, [Idle EXCEPT !.op = "logout", !.pc = "event",
                             !.uid = owner[x], !.secret = x])
    /\ UNCHANGED <<mariadb, memory, events, failures, late, owner, tally>>

\* HandleSessionPage: the session may be someone else's, or gone.
RevokeSession(c, u, x) ==
    /\ HasScopeAll(u) /\ owner[x] # None
    /\ Serve(c, [Idle EXCEPT !.op = "revoke", !.pc = "event", !.uid = u,
                             !.secret = x])
    /\ UNCHANGED <<mariadb, memory, events, failures, late, owner, tally>>

DeleteUserSessions(c, u, target) ==
    /\ HasScopeAll(u) /\ IsGod(u)
    /\ Serve(c, [Idle EXCEPT !.op = "endall", !.pc = "event", !.uid = u,
                             !.target = target])
    /\ UNCHANGED <<mariadb, memory, events, failures, late, owner, tally>>

\* HandleOwnedClientApplication: the owner makes a new secret for the app.
SetClientAppSecret(c, a) ==
    /\ HasScopeAll(Owner[a])
    /\ Serve(c, [Idle EXCEPT !.op = "secret", !.pc = "event", !.uid = Owner[a],
                             !.target = a])
    /\ UNCHANGED <<mariadb, memory, events, failures, late, owner, tally>>

UserBan(c, u, target) ==
    /\ HasScopeAll(u) /\ IsDeleter(u)
    /\ Serve(c, [Idle EXCEPT !.op = "ban", !.pc = "commit", !.uid = u,
                             !.target = target])
    /\ UNCHANGED <<mariadb, memory, events, failures, late, owner, tally>>

NukeSessionTable(c, u) ==
    /\ HasScopeAll(u) /\ IsGod(u)
    /\ Serve(c, [Idle EXCEPT !.op = "nuke", !.pc = "commit", !.uid = u])
    /\ UNCHANGED <<mariadb, memory, events, failures, late, owner, tally>>

-----------------------------------------------------------------------------
(* Authorization codes *)

\* Slip: an app that asks for no scope gets the whole of the account.
DefaultScope_All == {"all"}

DefaultScope == {"identity"}

Asked(asked) == IF asked = {} THEN DefaultScope ELSE asked

\* HandleOauthAuthorize: the code is stored, then the event written.
HandleOauthAuthorize(c, u, a, k, asked) ==
    /\ Authenticated(u) /\ code[k].state = "unused"
    /\ code' = [code EXCEPT ![k] = [state |-> "pending", uid |-> u, app |-> a,
                                    scope |-> AppScopes[a] \cap Asked(asked)]]
    /\ Serve(c, [Idle EXCEPT !.op = "authorize", !.pc = "event", !.uid = u])
    /\ UNCHANGED <<mariadb, events, state, device, failures, late, owner, tally>>

\* AuthCodeStorage.Get: known, in time, not used.
GetCode(k) == code[k].state = "pending" /\ k \notin late

\* HandleOauthToken, grant authorization_code.
ExchangeCode(c, k) ==
    /\ GetCode(k)
    /\ Serve(c, [Idle EXCEPT !.op = "exchange", !.pc = "gen",
                             !.uid = code[k].uid, !.item = k,
                             !.scope = code[k].scope, !.again = k \in spent])
    /\ UNCHANGED <<mariadb, memory, events, failures, late, owner, tally>>

\* The clone is saved as used and the session is answered.
SaveCode(c) ==
    /\ req[c].pc = "save" /\ req[c].op = "exchange"
    /\ code' = [code EXCEPT ![req[c].item].state = "complete"]
    /\ spent' = spent \cup {req[c].item}
    /\ delivered' = [delivered EXCEPT ![req[c].secret] = @ + 1]
    /\ Answer(c)
    /\ UNCHANGED <<mariadb, events, state, device, served, failures, late, owner,
                   done>>

\* HandleOauthToken, grant client_credentials, for an app that has a secret:
\* scopes it may not have are dropped, and none asked for means identity.
ClientCredentials(c, a, asked) ==
    /\ a \in armed
    /\ Serve(c, [Idle EXCEPT !.op = "credentials", !.pc = "gen", !.uid = a,
                             !.scope = IF asked = {} THEN DefaultScope
                                       ELSE CredsScopes[a] \cap asked])
    /\ UNCHANGED <<mariadb, memory, events, failures, late, owner, tally>>

-----------------------------------------------------------------------------
(* Device codes *)

\* HandleOauthDevice: a device asks for a code, without a session.
HandleOauthDevice(d, a, asked) ==
    /\ device[d].state = "unused"
    /\ asked = {} \/ AppScopes[a] \cap asked # {}
    /\ device' = [device EXCEPT ![d] =
         [state |-> "pending", app |-> a, token |-> None,
          scope |-> IF asked = {} THEN DefaultScope
                                  ELSE AppScopes[a] \cap asked]]
    /\ UNCHANGED <<mariadb, events, state, code, req, served, failures, late,
                   owner, tally>>

\* DeviceFlowStorage.Get: known and in time, answered or not.
GetDevice(d) == device[d].state \notin {"unused", "lost"} /\ d \notin late

\* HandleOauthDeviceResponse works on a clone of what it has read.
HandleOauthDeviceResponse(c, u, d, verdict) ==
    /\ HasScopeAll(u) /\ GetDevice(d)
    /\ Serve(c, [Idle EXCEPT !.op = verdict, !.uid = u, !.item = d,
                             !.scope = device[d].scope,
                             !.held = device[d].token,
                             !.pc = IF verdict = "approve" THEN "gen"
                                                           ELSE "save"])
    /\ UNCHANGED <<mariadb, memory, events, failures, late, owner, tally>>

\* GenAuthToken: the session is committed before its code is saved.  That of
\* client credentials is answered.
GenAuthToken(c) ==
    /\ req[c].pc = "gen"
    /\ \E x \in Secrets :
         /\ Fresh(x)
         /\ owner' = [owner EXCEPT ![x] = req[c].uid]
         /\ sessions' = sessions \cup {[secret |-> x, uid |-> req[c].uid,
                                        scope |-> req[c].scope]}
         /\ IF req[c].op = "credentials"
            THEN /\ delivered' = [delivered EXCEPT ![x] = @ + 1]
                 /\ Answer(c)
            ELSE /\ req' = [req EXCEPT ![c].pc = "save", ![c].secret = x]
                 /\ UNCHANGED delivered
    /\ UNCHANGED <<roles, armed, memory, events, served, failures, late, done,
                   spent>>

\* Slip: a denial keeps the state it has read, with its token.
SaveDevice_Merged(c) ==
    /\ req[c].pc = "save" /\ req[c].op \in {"approve", "deny"}
    /\ LET d == req[c].item IN
       device' = IF req[c].op = "approve"
         THEN [device EXCEPT ![d].state = "complete", ![d].token = req[c].secret]
         ELSE [device EXCEPT ![d].token = req[c].held]
    /\ Goto(c, "event")
    /\ UNCHANGED <<mariadb, events, state, code, served, failures, late, owner,
                   tally>>

\* Save writes the whole clone: a denial puts back the token it has read,
\* though the device may have claimed it since.
SaveDevice(c) ==
    /\ req[c].pc = "save" /\ req[c].op \in {"approve", "deny"}
    /\ LET d == req[c].item IN
       device' = IF req[c].op = "approve"
         THEN [device EXCEPT ![d].state = "complete", ![d].token = req[c].secret]
         ELSE [device EXCEPT ![d].state = "denied", ![d].token = req[c].held]
    /\ Goto(c, "event")
    /\ UNCHANGED <<mariadb, events, state, code, served, failures, late, owner,
                   tally>>

\* EmitAuthNewTokenEvent, EmitAuthDeviceEvent: the code is stored already.
EmitEvent(c) ==
    /\ req[c].pc = "event" /\ req[c].op \in {"authorize", "approve", "deny"}
    /\ events' = Count(events, IF req[c].op = "authorize" THEN "newtoken"
                                                          ELSE "device",
                       req[c].uid)
    /\ Answer(c)
    /\ UNCHANGED <<mariadb, memory, served, failures, late, owner, tally>>

\* HandlePollDeviceAuth: GetUserAuthToken clones the code and clears its token
\* under the mutex, in time or not.  The other answers change nothing, save
\* that a denied code loses a token put back.
ClaimToken(d) ==
    /\ device[d].state \in {"denied", "complete"} /\ device[d].token # None
    /\ device' = [device EXCEPT ![d].token = None]
    /\ delivered' = IF device[d].state = "complete"
                    THEN [delivered EXCEPT ![device[d].token] = @ + 1]
                    ELSE delivered
    /\ UNCHANGED <<mariadb, events, state, code, req, served, failures, late,
                   owner, done, spent>>

-----------------------------------------------------------------------------
(* Time, failures, restarts *)

\* A session, code or device code reaches its ExpiresAt.
Expire(x) ==
    /\ x \in {s.secret : s \in sessions}
             \cup {k \in Codes : code[k].state = "pending"}
             \cup {d \in Devices : device[d].state = "pending"}
    /\ x \notin late /\ Cardinality(late) < MaxLate
    /\ late' = late \cup {x}
    /\ UNCHANGED <<mariadb, events, memory, req, served, failures, owner, tally>>

\* Slip: an exchange that fails puts the clone it has read back.
Fail_PutBack(c) ==
    /\ req[c].pc # "idle" /\ failures < MaxFailures
    /\ failures' = failures + 1
    /\ Answer(c)
    /\ code' = IF req[c].op = "exchange"
               THEN [code EXCEPT ![req[c].item].state = "pending"] ELSE code
    /\ UNCHANGED <<mariadb, state, device, events, served, late, owner, tally>>

\* A call of the request fails, and its open transactions are rolled back.
Fail(c) ==
    /\ req[c].pc # "idle" /\ failures < MaxFailures
    /\ failures' = failures + 1
    /\ Answer(c)
    /\ UNCHANGED <<mariadb, memory, events, served, late, owner, tally>>

\* The server stops and starts: the databases keep what is committed, states
\* and codes are lost.
Restart ==
    /\ failures < MaxFailures
    /\ failures' = failures + 1
    /\ state' = [n \in Nonces |->
                   IF state[n] = "unused" THEN "unused" ELSE "gone"]
    /\ code' = [k \in Codes |-> IF code[k].state = "unused" THEN NoCode
                                ELSE [code[k] EXCEPT !.state = "lost"]]
    /\ device' = [d \in Devices |-> IF device[d].state = "unused" THEN NoDevice
                     ELSE [device[d] EXCEPT !.state = "lost", !.token = None]]
    /\ req' = [c \in Clients |-> Idle]
    /\ UNCHANGED <<mariadb, events, served, late, owner, tally>>

-----------------------------------------------------------------------------
LogIn == \/ \E n \in Nonces : HandleDiscordAuth(n)
         \/ \E c \in Clients :
              \/ \E n \in Nonces, u \in Users : HandleDiscordCallback(c, n, u)
              \/ FetchRoles(c) \/ StoreUser(c) \/ CommitLogin(c)

EndSessions == \E c \in Clients, u \in Users :
    \/ \E x \in Secrets : HandleLogout(c, x) \/ RevokeSession(c, u, x)
    \/ \E t \in Users : DeleteUserSessions(c, u, t) \/ UserBan(c, u, t)
    \/ NukeSessionTable(c, u)

ServeApps == \E c \in Clients, a \in Apps, asked \in SUBSET Scopes :
    \/ SetClientAppSecret(c, a)
    \/ ClientCredentials(c, a, asked)
    \/ \E u \in Users, k \in Codes : HandleOauthAuthorize(c, u, a, k, asked)
    \/ \E d \in Devices : HandleOauthDevice(d, a, asked)

Answering == \E c \in Clients :
    \/ \E k \in Codes : ExchangeCode(c, k)
    \/ \E u \in Users, d \in Devices, verdict \in {"approve", "deny"} :
         HandleOauthDeviceResponse(c, u, d, verdict)
    \/ GenAuthToken(c) \/ SaveCode(c) \/ SaveDevice(c)
    \/ CommitEvent(c) \/ EmitEvent(c) \/ CommitChange(c)

Next ==
    \/ LogIn \/ EndSessions \/ ServeApps \/ Answering
    \/ \E d \in Devices : ClaimToken(d)
    \/ \E x \in Secrets \cup Codes \cup Devices : Expire(x)
    \/ \E c \in Clients : Fail(c)
    \/ Restart

Spec == Init /\ [][Next]_vars

-----------------------------------------------------------------------------
(* Properties *)

\* A change of sessions or client secrets that is in MariaDB has its event in
\* PostgreSQL, at whatever point the request failed or the server stopped: a
\* login, a logout, a revocation is never missing from the activity log.
\* (An event without its change is possible, and so are bans without event.)
LoginsAreLogged == \A k \in Logged, u \in People : done[k][u] <= events[k][u]

\* An exchange that arrives after one of the same code was answered gets
\* nothing, whatever stale clones of the code other exchanges save meanwhile.
\* (Two exchanges that both read the code before either saves it both succeed.)
CodeIsSpent == \A c \in Clients : ~req[c].again

\* A session's secret is handed out at most once: a device that polls twice,
\* or a second answer that saves an old copy of the code, does not give it out
\* again.
DeliveredOnce == \A x \in Secrets : delivered[x] <= 1
=============================================================================
