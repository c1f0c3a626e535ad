---------------------------- MODULE LoginsProofs ----------------------------
(***************************************************************************)
(* Theorems about Logins, for all users, applications, requests, failures  *)
(* and restarts.                                                           *)
(***************************************************************************)
EXTENDS Logins, FiniteSetTheorems, TLAPS

\* What an action may make of the request it serves, or of all of them.
LEMMA RequestTyped ==
    ASSUME TypeOK, NEW c \in Clients, NEW r \in RequestType,
           req' = [req EXCEPT ![c] = r]
    PROVE  req' \in [Clients -> RequestType]
BY DEF TypeOK

LEMMA CountTyped ==
    ASSUME NEW f \in Counts, NEW k \in Logged \cup {"newtoken", "device"},
           NEW u \in People
    PROVE  Count(f, k, u) \in Counts
BY DEF Count, Counts

LEMMA IdleTyped == Idle \in RequestType
BY DEF Idle, RequestType

\* What the actions that serve a request use of it.
LEMMA RequestFields ==
    ASSUME TypeOK, NEW c \in Clients
    PROVE  /\ req[c] \in RequestType
           /\ req[c].uid \in People \cup {None}
           /\ req[c].op \in Ops \cup {None}
           /\ req[c].secret \in Secrets \cup {None}
           /\ req[c].held \in Secrets \cup {None}
           /\ req[c].item \in Codes \cup Devices \cup {None}
           /\ req[c].scope \in SUBSET Scopes
           /\ req[c].target \in People \cup {None}
           /\ req[c].roles \in SUBSET RoleNames
BY DEF TypeOK, RequestType

-----------------------------------------------------------------------------
(* Requests know whom they act for. *)

\* What a request in progress is known to hold.
Sound(r) ==
    /\ r.pc # "idle" => r.op # None /\ r.uid \in People
    /\ r.op = "login" => r.uid \in Users
    /\ r.pc \in {"fetch", "store"} => r.op = "login"
    /\ r.op = "login" /\ r.pc \in {"event", "commit"} => r.secret \in Secrets
    /\ r.op = "secret" => r.target \in Apps
    /\ r.op \in {"exchange", "approve"} /\ r.pc = "save" => r.secret \in Secrets
    /\ r.op = "exchange" => r.item \in Codes
    /\ r.op \in {"approve", "deny"} => r.item \in Devices
    /\ r.pc = "gen" => r.op \in {"exchange", "approve", "credentials"}

RequestsSound == \A c \in Clients : Sound(req[c])
CodesOwned == \A k \in Codes : code[k].state = "pending" => code[k].uid \in Users

TInv == TypeOK /\ RequestsSound /\ CodesOwned

LEMMA RequestsKept ==
    ASSUME TInv, NEW c \in Clients, NEW r \in RequestType, Sound(r),
           req' = [req EXCEPT ![c] = r]
    PROVE  req' \in [Clients -> RequestType] /\ RequestsSound'
BY DEF TInv, TypeOK, RequestsSound

LEMMA IdleSound == Sound(Idle)
BY PeopleAssumption DEF Sound, Idle, Ops, Logged

LEMMA ServedKept ==
    ASSUME TInv, NEW c \in Clients, NEW r \in RequestType, Sound(r), Serve(c, r)
    PROVE  req' \in [Clients -> RequestType] /\ RequestsSound'
           /\ served' \in Nat
<1>1. req' = [req EXCEPT ![c] = r]
    BY DEF Serve
<1>2. served' \in Nat
    BY DEF Serve, TInv, TypeOK
<1>q. QED
    BY <1>1, <1>2, RequestsKept

LEMMA AnsweredKept ==
    ASSUME TInv, NEW c \in Clients, Answer(c)
    PROVE  req' \in [Clients -> RequestType] /\ RequestsSound'
BY RequestsKept, IdleTyped, IdleSound DEF Answer

LEMMA InitTyped == Init => TInv
<1> SUFFICES ASSUME Init PROVE TInv
    OBVIOUS
<1>1. \A s \in OpenSessions : s \in SessionType /\ s.uid \in People
    BY OpenAssumption DEF SessionType
<1>2. owner \in [Secrets -> People \cup {None}]
  <2>1. ASSUME NEW x \in Secrets, \E s \in OpenSessions : s.secret = x
        PROVE  (CHOOSE s \in OpenSessions : s.secret = x).uid \in People
      BY <2>1, <1>1
  <2>q. QED
      BY <2>1 DEF Init
<1>3. events \in Counts /\ done \in Counts
    BY DEF Init, Counts
<1>4. /\ \A k \in Codes : code[k] \in {NoCode} \cup OpenCodes
      /\ NoCode \in CodeType /\ NoCode.state = "unused"
    BY DEF Init, NoCode, CodeType
<1>5. code \in [Codes -> CodeType] /\ CodesOwned
    BY <1>4, CodesAssumption DEF Init, CodesOwned
<1>6. TypeOK
    BY <1>2, <1>3, <1>5, OpenAssumption, IdleTyped
    DEF Init, TypeOK, DeviceType, NoDevice
<1>q. QED
    BY <1>5, <1>6, IdleSound DEF TInv, Init, RequestsSound

LEMMA HandleLogoutTyped ==
    ASSUME TInv, NEW c \in Clients, NEW x \in Secrets,
           HandleLogout(c, x)
    PROVE  TInv'
<1> DEFINE r == [Idle EXCEPT !.op = "logout", !.pc = "event",
                             !.uid = owner[x], !.secret = x]
<1>1. r \in RequestType
    BY IdleTyped DEF RequestType, Idle, Ops, Logged, TInv, TypeOK, People, HandleLogout
<1>2. Sound(r)
    BY PeopleAssumption DEF Sound, Idle, Ops, Logged, People, TInv, People, HandleLogout
<1>3. Serve(c, r)
    BY DEF HandleLogout
<1> HIDE DEF r
<1>4. req' \in [Clients -> RequestType] /\ RequestsSound' /\ served' \in Nat
    BY <1>1, <1>2, <1>3, ServedKept
<1>q. QED
    BY <1>4 DEF HandleLogout, TInv, TypeOK, CodesOwned, mariadb, memory, tally

LEMMA RevokeSessionTyped ==
    ASSUME TInv, NEW c \in Clients, NEW u \in Users, NEW x \in Secrets,
           RevokeSession(c, u, x)
    PROVE  TInv'
<1> DEFINE r == [Idle EXCEPT !.op = "revoke", !.pc = "event",
                             !.uid = u, !.secret = x]
<1>1. r \in RequestType
    BY IdleTyped DEF RequestType, Idle, Ops, Logged, TInv, TypeOK, People
<1>2. Sound(r)
    BY PeopleAssumption DEF Sound, Idle, Ops, Logged, People, TInv, People
<1>3. Serve(c, r)
    BY DEF RevokeSession
<1> HIDE DEF r
<1>4. req' \in [Clients -> RequestType] /\ RequestsSound' /\ served' \in Nat
    BY <1>1, <1>2, <1>3, ServedKept
<1>q. QED
    BY <1>4 DEF RevokeSession, TInv, TypeOK, CodesOwned, mariadb, memory, tally

LEMMA DeleteUserSessionsTyped ==
    ASSUME TInv, NEW c \in Clients, NEW u \in Users, NEW target \in Users,
           DeleteUserSessions(c, u, target)
    PROVE  TInv'
<1> DEFINE r == [Idle EXCEPT !.op = "endall", !.pc = "event",
                             !.uid = u, !.target = target]
<1>1. r \in RequestType
    BY IdleTyped DEF RequestType, Idle, Ops, Logged, TInv, TypeOK, People
<1>2. Sound(r)
    BY PeopleAssumption DEF Sound, Idle, Ops, Logged, People, TInv, People
<1>3. Serve(c, r)
    BY DEF DeleteUserSessions
<1> HIDE DEF r
<1>4. req' \in [Clients -> RequestType] /\ RequestsSound' /\ served' \in Nat
    BY <1>1, <1>2, <1>3, ServedKept
<1>q. QED
    BY <1>4 DEF DeleteUserSessions, TInv, TypeOK, CodesOwned, mariadb, memory, tally

LEMMA SetClientAppSecretTyped ==
    ASSUME TInv, NEW c \in Clients, NEW a \in Apps,
           SetClientAppSecret(c, a)
    PROVE  TInv'
<1> DEFINE r == [Idle EXCEPT !.op = "secret", !.pc = "event",
                             !.uid = Owner[a], !.target = a]
<1>1. r \in RequestType
    BY PeopleAssumption, IdleTyped DEF RequestType, Idle, Ops, Logged, TInv, TypeOK, People
<1>2. Sound(r)
    BY PeopleAssumption, PeopleAssumption DEF Sound, Idle, Ops, Logged, People, TInv, People
<1>3. Serve(c, r)
    BY DEF SetClientAppSecret
<1> HIDE DEF r
<1>4. req' \in [Clients -> RequestType] /\ RequestsSound' /\ served' \in Nat
    BY <1>1, <1>2, <1>3, ServedKept
<1>q. QED
    BY <1>4 DEF SetClientAppSecret, TInv, TypeOK, CodesOwned, mariadb, memory, tally

LEMMA UserBanTyped ==
    ASSUME TInv, NEW c \in Clients, NEW u \in Users, NEW target \in Users,
           UserBan(c, u, target)
    PROVE  TInv'
<1> DEFINE r == [Idle EXCEPT !.op = "ban", !.pc = "commit",
                             !.uid = u, !.target = target]
<1>1. r \in RequestType
    BY IdleTyped DEF RequestType, Idle, Ops, Logged, TInv, TypeOK, People
<1>2. Sound(r)
    BY PeopleAssumption DEF Sound, Idle, Ops, Logged, People, TInv, People
<1>3. Serve(c, r)
    BY DEF UserBan
<1> HIDE DEF r
<1>4. req' \in [Clients -> RequestType] /\ RequestsSound' /\ served' \in Nat
    BY <1>1, <1>2, <1>3, ServedKept
<1>q. QED
    BY <1>4 DEF UserBan, TInv, TypeOK, CodesOwned, mariadb, memory, tally

LEMMA NukeSessionTableTyped ==
    ASSUME TInv, NEW c \in Clients, NEW u \in Users,
           NukeSessionTable(c, u)
    PROVE  TInv'
<1> DEFINE r == [Idle EXCEPT !.op = "nuke", !.pc = "commit", !.uid = u]
<1>1. r \in RequestType
    BY IdleTyped DEF RequestType, Idle, Ops, Logged, TInv, TypeOK, People
<1>2. Sound(r)
    BY PeopleAssumption DEF Sound, Idle, Ops, Logged, People, TInv, People
<1>3. Serve(c, r)
    BY DEF NukeSessionTable
<1> HIDE DEF r
<1>4. req' \in [Clients -> RequestType] /\ RequestsSound' /\ served' \in Nat
    BY <1>1, <1>2, <1>3, ServedKept
<1>q. QED
    BY <1>4 DEF NukeSessionTable, TInv, TypeOK, CodesOwned, mariadb, memory, tally

LEMMA ExchangeCodeTyped ==
    ASSUME TInv, NEW c \in Clients, NEW k \in Codes,
           ExchangeCode(c, k)
    PROVE  TInv'
<1> DEFINE r == [Idle EXCEPT !.op = "exchange", !.pc = "gen",
                             !.uid = code[k].uid, !.item = k,
                             !.scope = code[k].scope,
                             !.again = k \in spent]
<1>0. code[k].uid \in Users /\ code[k].scope \in SUBSET Scopes
    BY DEF TInv, TypeOK, CodeType, CodesOwned, ExchangeCode, GetCode
<1>1. r \in RequestType
  <2>1. (k \in spent) \in BOOLEAN
      OBVIOUS
  <2>q. QED
      BY <1>0, <2>1 DEF RequestType, Idle, Ops, Logged, People
<1>2. Sound(r)
    BY PeopleAssumption DEF Sound, Idle, Ops, Logged, People, TInv, People, CodeType, CodesOwned, ExchangeCode, GetCode
<1>3. Serve(c, r)
    BY DEF ExchangeCode
<1> HIDE DEF r
<1>4. req' \in [Clients -> RequestType] /\ RequestsSound' /\ served' \in Nat
    BY <1>1, <1>2, <1>3, ServedKept
<1>q. QED
    BY <1>4 DEF ExchangeCode, TInv, TypeOK, CodesOwned, mariadb, memory, tally

LEMMA ClientCredentialsTyped ==
    ASSUME TInv, NEW c \in Clients, NEW a \in Apps, NEW asked \in SUBSET Scopes,
           ClientCredentials(c, a, asked)
    PROVE  TInv'
<1> DEFINE r == [Idle EXCEPT !.op = "credentials", !.pc = "gen",
                             !.uid = a,
                             !.scope = IF asked = {} THEN DefaultScope
                                       ELSE CredsScopes[a] \cap asked]
<1>1. r \in RequestType
    BY PeopleAssumption, IdleTyped DEF RequestType, Idle, Ops, Logged, TInv, TypeOK, People, DefaultScope
<1>2. Sound(r)
    BY PeopleAssumption, PeopleAssumption DEF Sound, Idle, Ops, Logged, People, TInv, People, DefaultScope
<1>3. Serve(c, r)
    BY DEF ClientCredentials
<1> HIDE DEF r
<1>4. req' \in [Clients -> RequestType] /\ RequestsSound' /\ served' \in Nat
    BY <1>1, <1>2, <1>3, ServedKept
<1>q. QED
    BY <1>4 DEF ClientCredentials, TInv, TypeOK, CodesOwned, mariadb, memory, tally

LEMMA HandleOauthDeviceResponseTyped ==
    ASSUME TInv, NEW c \in Clients, NEW u \in Users, NEW d \in Devices, NEW verdict \in {"approve", "deny"},
           HandleOauthDeviceResponse(c, u, d, verdict)
    PROVE  TInv'
<1> DEFINE r == [Idle EXCEPT !.op = verdict, !.uid = u, !.item = d,
                             !.scope = device[d].scope,
                             !.held = device[d].token,
                             !.pc = IF verdict = "approve" THEN "gen"
                                                           ELSE "save"]
<1>0. /\ device[d].scope \in SUBSET Scopes
      /\ device[d].token \in Secrets \cup {None}
    BY DEF TInv, TypeOK, DeviceType
<1>1. r \in RequestType
    BY <1>0 DEF RequestType, Idle, Ops, Logged, People
<1>2. Sound(r)
    BY PeopleAssumption DEF Sound, Idle, Ops, Logged, People, TInv, People, DeviceType
<1>3. Serve(c, r)
    BY DEF HandleOauthDeviceResponse
<1> HIDE DEF r
<1>4. req' \in [Clients -> RequestType] /\ RequestsSound' /\ served' \in Nat
    BY <1>1, <1>2, <1>3, ServedKept
<1>q. QED
    BY <1>4 DEF HandleOauthDeviceResponse, TInv, TypeOK, CodesOwned, mariadb, memory, tally

LEMMA HandleOauthAuthorizeTyped ==
    ASSUME TInv, NEW c \in Clients, NEW u \in Users, NEW a \in Apps, NEW k \in Codes, NEW asked \in SUBSET Scopes,
           HandleOauthAuthorize(c, u, a, k, asked)
    PROVE  TInv'
<1> DEFINE r == [Idle EXCEPT !.op = "authorize", !.pc = "event", !.uid = u]
<1>1. r \in RequestType
    BY IdleTyped DEF RequestType, Idle, Ops, Logged, TInv, TypeOK, People
<1>2. Sound(r)
    BY PeopleAssumption DEF Sound, Idle, Ops, Logged, People, TInv, People
<1>3. Serve(c, r)
    BY DEF HandleOauthAuthorize
<1> HIDE DEF r
<1>4. req' \in [Clients -> RequestType] /\ RequestsSound' /\ served' \in Nat
    BY <1>1, <1>2, <1>3, ServedKept
<1>5. [state |-> "pending", uid |-> u, app |-> a,
       scope |-> AppScopes[a] \cap Asked(asked)] \in CodeType
    BY PeopleAssumption DEF CodeType, Asked, DefaultScope
<1>6. code' \in [Codes -> CodeType] /\ CodesOwned'
    BY <1>5 DEF HandleOauthAuthorize, TInv, TypeOK, CodesOwned
<1>q. QED
    BY <1>4, <1>6 DEF HandleOauthAuthorize, TInv, TypeOK, mariadb, memory, tally
-----------------------------------------------------------------------------
(* The steps of a request already served *)

LEMMA DiscordTyped ==
    ASSUME TInv, NEW n \in Nonces, HandleDiscordAuth(n)
    PROVE  TInv'
BY DEF HandleDiscordAuth, TInv, TypeOK, RequestsSound, CodesOwned, mariadb,
       tally

LEMMA CallbackTyped ==
    ASSUME TInv, NEW c \in Clients, NEW n \in Nonces, NEW u \in Users,
           HandleDiscordCallback(c, n, u)
    PROVE  TInv'
<1> DEFINE in == [Idle EXCEPT !.op = "login", !.pc = "fetch", !.uid = u]
<1>1. in \in RequestType
    BY IdleTyped DEF RequestType, Idle, Ops, Logged, People
<1>2. Sound(in)
    BY PeopleAssumption DEF Sound, Idle, Ops, Logged, People
<1>3. Serve(c, in) \/ Serve(c, Idle)
    BY DEF HandleDiscordCallback
<1> HIDE DEF in
<1>4. req' \in [Clients -> RequestType] /\ RequestsSound' /\ served' \in Nat
    BY <1>1, <1>2, <1>3, ServedKept, IdleTyped, IdleSound
<1>q. QED
    BY <1>4 DEF HandleDiscordCallback, TInv, TypeOK, CodesOwned, mariadb, tally

LEMMA FetchTyped ==
    ASSUME TInv, NEW c \in Clients, FetchRoles(c)
    PROVE  TInv'
<1>1. PICK answer \in RoleAnswers[req[c].uid] :
        req' = [req EXCEPT ![c].pc = "store", ![c].roles = answer]
    BY DEF FetchRoles
<1> DEFINE r == [req[c] EXCEPT !.pc = "store", !.roles = answer]
<1>2. req[c] \in RequestType /\ Sound(req[c])
    BY DEF TInv, TypeOK, RequestsSound
<1>3. req[c].uid \in Users
    BY <1>2 DEF Sound, FetchRoles
<1>4. answer \in SUBSET RoleNames
    BY <1>1, <1>3, PeopleAssumption
<1>5. r \in RequestType
    BY <1>2, <1>4 DEF RequestType
<1>6. Sound(r)
    BY <1>2, <1>3 DEF Sound, FetchRoles, RequestType
<1>7. req' = [req EXCEPT ![c] = r]
    BY <1>1
<1> HIDE DEF r
<1>8. req' \in [Clients -> RequestType] /\ RequestsSound'
    BY <1>5, <1>6, <1>7, RequestsKept
<1>q. QED
    BY <1>8 DEF FetchRoles, TInv, TypeOK, CodesOwned, mariadb, memory, tally

LEMMA StoreTyped ==
    ASSUME TInv, NEW c \in Clients, StoreUser(c)
    PROVE  TInv'
<1>1. PICK x \in Secrets :
        /\ owner' = [owner EXCEPT ![x] = req[c].uid]
        /\ req' = [req EXCEPT ![c].pc = "event", ![c].secret = x]
    BY DEF StoreUser
<1> DEFINE r == [req[c] EXCEPT !.pc = "event", !.secret = x]
<1>2. req[c] \in RequestType /\ Sound(req[c])
    BY DEF TInv, TypeOK, RequestsSound
<1>3. req[c].uid \in People
    BY <1>2 DEF Sound, StoreUser
<1>4. r \in RequestType
    BY <1>2 DEF RequestType
<1>5. Sound(r)
    BY <1>2 DEF Sound, StoreUser, RequestType
<1>6. req' = [req EXCEPT ![c] = r]
    BY <1>1
<1> HIDE DEF r
<1>7. req' \in [Clients -> RequestType] /\ RequestsSound'
    BY <1>4, <1>5, <1>6, RequestsKept
<1>8. owner' \in [Secrets -> People \cup {None}]
    BY <1>1, <1>3 DEF TInv, TypeOK
<1>q. QED
    BY <1>7, <1>8 DEF StoreUser, TInv, TypeOK, CodesOwned, mariadb, memory,
       tally

LEMMA GotoTyped ==
    ASSUME TInv, NEW c \in Clients, NEW pc \in {"event", "commit"},
           req[c].pc \in {"event", "save"},
           req[c].pc = "event" \/ req[c].op \in {"approve", "deny"},
           Goto(c, pc)
    PROVE  req' \in [Clients -> RequestType] /\ RequestsSound'
<1> DEFINE r == [req[c] EXCEPT !.pc = pc]
<1>1. req[c] \in RequestType /\ Sound(req[c])
    BY DEF TInv, TypeOK, RequestsSound
<1>2. r \in RequestType
    BY <1>1 DEF RequestType
<1>3. Sound(r)
    BY <1>1, PeopleAssumption DEF Sound, RequestType, Ops, Logged
<1>4. req' = [req EXCEPT ![c] = r]
    BY DEF Goto
<1> HIDE DEF r
<1>q. QED
    BY <1>2, <1>3, <1>4, RequestsKept

LEMMA CommitEventTyped ==
    ASSUME TInv, NEW c \in Clients, CommitEvent(c)
    PROVE  TInv'
<1>1. req' \in [Clients -> RequestType] /\ RequestsSound'
    BY GotoTyped DEF CommitEvent
<1>2. req[c].op \in Logged /\ req[c].uid \in People
    BY DEF CommitEvent, TInv, RequestsSound, Sound
<1>3. events' \in Counts
    BY <1>2, CountTyped DEF CommitEvent, TInv, TypeOK
<1>q. QED
    BY <1>1, <1>3 DEF CommitEvent, TInv, TypeOK, CodesOwned, mariadb, memory,
       tally

LEMMA EmitEventTyped ==
    ASSUME TInv, NEW c \in Clients, EmitEvent(c)
    PROVE  TInv'
<1>1. req' \in [Clients -> RequestType] /\ RequestsSound'
    BY AnsweredKept DEF EmitEvent
<1>2. req[c].uid \in People
    BY DEF EmitEvent, TInv, RequestsSound, Sound
<1>3. events' \in Counts
    BY <1>2, CountTyped DEF EmitEvent, TInv, TypeOK
<1>q. QED
    BY <1>1, <1>3 DEF EmitEvent, TInv, TypeOK, CodesOwned, mariadb, memory,
       tally

\* A secret is handed out once more.
LEMMA DeliveryTyped ==
    ASSUME TInv, NEW x \in Secrets
    PROVE  [delivered EXCEPT ![x] = @ + 1] \in [Secrets -> Nat]
BY DEF TInv, TypeOK

LEMMA CommitLoginTyped ==
    ASSUME TInv, NEW c \in Clients, CommitLogin(c)
    PROVE  TInv'
<1>1. req' \in [Clients -> RequestType] /\ RequestsSound'
    BY AnsweredKept DEF CommitLogin
<1>2. req[c] \in RequestType /\ Sound(req[c])
    BY DEF TInv, TypeOK, RequestsSound
<1>3. /\ req[c].uid \in Users /\ req[c].secret \in Secrets
      /\ req[c].roles \in SUBSET RoleNames
    BY <1>2 DEF CommitLogin, Sound, RequestType
<1>4. [secret |-> req[c].secret, uid |-> req[c].uid, scope |-> {"all"}]
        \in SessionType
    BY <1>3 DEF SessionType, People
<1>5. done' \in Counts
    BY <1>3, CountTyped DEF CommitLogin, TInv, TypeOK, Logged, People
<1>6. delivered' \in [Secrets -> Nat]
    BY <1>3, DeliveryTyped DEF CommitLogin
<1>7. sessions' \subseteq SessionType /\ roles' \in [Users -> SUBSET RoleNames]
    BY <1>3, <1>4 DEF CommitLogin, TInv, TypeOK
<1>q. QED
    BY <1>1, <1>5, <1>6, <1>7 DEF CommitLogin, TInv, TypeOK, CodesOwned, memory

LEMMA CommitChangeTyped ==
    ASSUME TInv, NEW c \in Clients, CommitChange(c)
    PROVE  TInv'
<1>1. req' \in [Clients -> RequestType] /\ RequestsSound'
    BY AnsweredKept DEF CommitChange
<1>2. Sound(req[c])
    BY DEF TInv, RequestsSound
<1>3. /\ req[c].uid \in People
      /\ req[c].op = "secret" => req[c].target \in Apps
    BY <1>2 DEF CommitChange, Sound
<1>4. done' \in Counts
    BY <1>3, CountTyped DEF CommitChange, TInv, TypeOK
<1>5. sessions' \subseteq SessionType /\ armed' \subseteq Apps
    BY <1>3 DEF CommitChange, TInv, TypeOK
<1>q. QED
    BY <1>1, <1>4, <1>5 DEF CommitChange, TInv, TypeOK, CodesOwned, memory

LEMMA SaveCodeTyped ==
    ASSUME TInv, NEW c \in Clients, SaveCode(c)
    PROVE  TInv'
<1>1. req' \in [Clients -> RequestType] /\ RequestsSound'
    BY AnsweredKept DEF SaveCode
<1>2. Sound(req[c])
    BY DEF TInv, RequestsSound
<1>3. req[c].item \in Codes /\ req[c].secret \in Secrets
    BY <1>2 DEF SaveCode, Sound
<1>4. delivered' \in [Secrets -> Nat]
    BY <1>3, DeliveryTyped DEF SaveCode
<1>5. code' \in [Codes -> CodeType] /\ CodesOwned'
    BY <1>3 DEF SaveCode, TInv, TypeOK, CodeType, CodesOwned
<1>6. spent' \subseteq Codes
    BY <1>3 DEF SaveCode, TInv, TypeOK
<1>q. QED
    BY <1>1, <1>4, <1>5, <1>6 DEF SaveCode, TInv, TypeOK, mariadb

LEMMA SaveDeviceTyped ==
    ASSUME TInv, NEW c \in Clients, SaveDevice(c)
    PROVE  TInv'
<1>1. req' \in [Clients -> RequestType] /\ RequestsSound'
    BY GotoTyped DEF SaveDevice
<1>2. req[c] \in RequestType /\ Sound(req[c])
    BY DEF TInv, TypeOK, RequestsSound
<1>3. /\ req[c].item \in Devices /\ req[c].held \in Secrets \cup {None}
      /\ req[c].op = "approve" => req[c].secret \in Secrets
    BY <1>2 DEF SaveDevice, Sound, RequestType
<1>4. device' \in [Devices -> DeviceType]
    BY <1>3 DEF SaveDevice, TInv, TypeOK, DeviceType
<1>q. QED
    BY <1>1, <1>4 DEF SaveDevice, TInv, TypeOK, CodesOwned, mariadb, tally

LEMMA GenTyped ==
    ASSUME TInv, NEW c \in Clients, GenAuthToken(c)
    PROVE  TInv'
<1>1. PICK x \in Secrets :
        /\ owner' = [owner EXCEPT ![x] = req[c].uid]
        /\ sessions' = sessions \cup {[secret |-> x, uid |-> req[c].uid,
                                       scope |-> req[c].scope]}
        /\ IF req[c].op = "credentials"
           THEN /\ delivered' = [delivered EXCEPT ![x] = @ + 1]
                /\ Answer(c)
           ELSE /\ req' = [req EXCEPT ![c].pc = "save", ![c].secret = x]
                /\ UNCHANGED delivered
    BY DEF GenAuthToken
<1> DEFINE r == [req[c] EXCEPT !.pc = "save", !.secret = x]
<1>2. req[c] \in RequestType /\ Sound(req[c])
    BY DEF TInv, TypeOK, RequestsSound
<1>3. req[c].uid \in People /\ req[c].scope \in SUBSET Scopes
    BY <1>2 DEF Sound, GenAuthToken, RequestType
<1>4. r \in RequestType
    BY <1>2 DEF RequestType
<1>5. Sound(r)
    BY <1>2 DEF Sound, GenAuthToken, RequestType
<1>6. req' = [req EXCEPT ![c] = r] \/ Answer(c)
    BY <1>1
<1> HIDE DEF r
<1>7. req' \in [Clients -> RequestType] /\ RequestsSound'
    BY <1>4, <1>5, <1>6, RequestsKept, AnsweredKept
<1>8. /\ owner' \in [Secrets -> People \cup {None}]
      /\ sessions' \subseteq SessionType
    BY <1>1, <1>3 DEF TInv, TypeOK, SessionType
<1>9. delivered' \in [Secrets -> Nat]
    BY <1>1, DeliveryTyped DEF TInv, TypeOK
<1>q. QED
    BY <1>7, <1>8, <1>9 DEF GenAuthToken, TInv, TypeOK, CodesOwned, memory

LEMMA DeviceTyped ==
    ASSUME TInv, NEW d \in Devices, NEW a \in Apps, NEW asked \in SUBSET Scopes,
           HandleOauthDevice(d, a, asked)
    PROVE  TInv'
<1>1. [state |-> "pending", app |-> a, token |-> None,
       scope |-> IF asked = {} THEN DefaultScope
                               ELSE AppScopes[a] \cap asked] \in DeviceType
    BY PeopleAssumption DEF DeviceType, DefaultScope
<1>2. device' \in [Devices -> DeviceType]
    BY <1>1 DEF HandleOauthDevice, TInv, TypeOK
<1>q. QED
    BY <1>2 DEF HandleOauthDevice, TInv, TypeOK, RequestsSound, CodesOwned,
       mariadb, tally

LEMMA ClaimTyped ==
    ASSUME TInv, NEW d \in Devices, ClaimToken(d)
    PROVE  TInv'
<1>1. device[d] \in DeviceType
    BY DEF TInv, TypeOK
<1>2. device[d].token \in Secrets
    BY <1>1 DEF ClaimToken, DeviceType
<1>3. delivered' \in [Secrets -> Nat]
    BY <1>2, DeliveryTyped DEF ClaimToken, TInv, TypeOK
<1>4. device' \in [Devices -> DeviceType]
    BY <1>1 DEF ClaimToken, TInv, TypeOK, DeviceType
<1>q. QED
    BY <1>3, <1>4 DEF ClaimToken, TInv, TypeOK, RequestsSound, CodesOwned,
       mariadb

LEMMA ExpireTyped ==
    ASSUME TInv, NEW x \in Secrets \cup Codes \cup Devices, Expire(x)
    PROVE  TInv'
BY DEF Expire, TInv, TypeOK, RequestsSound, CodesOwned, mariadb, memory, tally

LEMMA FailTyped ==
    ASSUME TInv, NEW c \in Clients, Fail(c)
    PROVE  TInv'
<1>1. req' \in [Clients -> RequestType] /\ RequestsSound'
    BY AnsweredKept DEF Fail
<1>q. QED
    BY <1>1 DEF Fail, TInv, TypeOK, CodesOwned, mariadb, memory, tally

LEMMA RestartTyped ==
    ASSUME TInv, Restart
    PROVE  TInv'
<1>1. req' \in [Clients -> RequestType] /\ RequestsSound'
    BY IdleTyped, IdleSound DEF Restart, RequestsSound
<1>2. code' \in [Codes -> CodeType] /\ CodesOwned'
  <2>1. ASSUME NEW k \in Codes
        PROVE  code'[k] \in CodeType /\ code'[k].state # "pending"
    <3>1. code[k] \in CodeType
        BY DEF TInv, TypeOK
    <3>2. code'[k] = IF code[k].state = "unused" THEN NoCode
                     ELSE [code[k] EXCEPT !.state = "lost"]
        BY DEF Restart
    <3>q. QED
        BY <3>1, <3>2 DEF CodeType, NoCode
  <2>2. code' = [k \in Codes |-> code'[k]]
      BY DEF Restart
  <2>q. QED
      BY <2>1, <2>2 DEF CodesOwned
<1>3. device' \in [Devices -> DeviceType]
    BY DEF Restart, TInv, TypeOK, DeviceType, NoDevice
<1>4. state' \in [Nonces -> {"unused", "open", "gone"}]
    BY DEF Restart, TInv, TypeOK
<1>5. failures' \in Nat
  <2>1. failures' = failures + 1
      BY DEF Restart
  <2>q. QED
      BY <2>1 DEF TInv, TypeOK
<1>6. UNCHANGED <<mariadb, events, served, late, owner, tally>>
    BY DEF Restart
<1>q. QED
    BY <1>1, <1>2, <1>3, <1>4, <1>5, <1>6 DEF TInv, TypeOK, mariadb, tally

LEMMA StepTyped == TInv /\ [Next]_vars => TInv'
<1> SUFFICES ASSUME TInv, [Next]_vars PROVE TInv'
    OBVIOUS
<1>1. CASE LogIn
    BY <1>1, DiscordTyped, CallbackTyped, FetchTyped, StoreTyped,
       CommitLoginTyped DEF LogIn
<1>2. CASE EndSessions
    BY <1>2, HandleLogoutTyped, RevokeSessionTyped, DeleteUserSessionsTyped,
       UserBanTyped, NukeSessionTableTyped DEF EndSessions
<1>3. CASE ServeApps
    BY <1>3, SetClientAppSecretTyped, ClientCredentialsTyped,
       HandleOauthAuthorizeTyped, DeviceTyped DEF ServeApps
<1>4. CASE Answering
    BY <1>4, ExchangeCodeTyped, HandleOauthDeviceResponseTyped, GenTyped,
       SaveCodeTyped, SaveDeviceTyped, CommitEventTyped, EmitEventTyped,
       CommitChangeTyped DEF Answering
<1>5. CASE UNCHANGED vars
    BY <1>5 DEF vars, TInv, TypeOK, RequestsSound, CodesOwned
<1>q. QED
    BY <1>1, <1>2, <1>3, <1>4, <1>5, ClaimTyped, ExpireTyped, FailTyped,
       RestartTyped DEF Next

\* The type invariant of sessions, codes, events and requests.
THEOREM LoginsTypeCorrect == Spec => []TypeOK
<1>1. TInv => TypeOK
    BY DEF TInv
<1>q. QED
    BY <1>1, InitTyped, StepTyped, PTL DEF Spec

-----------------------------------------------------------------------------
(* What codes, secrets and the log have in common: a request in progress is  *)
(* on its way to hand a secret out, or to commit what is logged already.     *)

\* A request that will hand its secret out, or save it for the device.
Carries(r) == \/ r.op = "login" /\ r.pc \in {"event", "commit"}
              \/ r.op \in {"exchange", "approve"} /\ r.pc = "save"
\* A request whose event is committed and whose change is not.
Committing(r) == r.op \in Logged /\ r.pc = "commit"
Plain(r) == ~r.again /\ ~Carries(r) /\ ~Committing(r)

ByRequest(c, x) == Carries(req[c]) /\ req[c].secret = x
ByDevice(d, x) == device[d].state = "complete" /\ device[d].token = x
Awaited(k, u) == {c \in Clients : Committing(req[c]) /\ req[c].op = k
                                                     /\ req[c].uid = u}

SpentInv == /\ CodeIsSpent
            /\ \A k \in spent : code[k].state \in {"complete", "lost"}

\* A secret on its way has an owner, was not handed out and has one carrier.
SecretInv ==
    /\ DeliveredOnce
    /\ \A x \in Secrets : owner[x] = None => delivered[x] = 0
    /\ \A c \in Clients, x \in Secrets : ByRequest(c, x) =>
         /\ owner[x] # None /\ delivered[x] = 0
         /\ \A b \in Clients : ByRequest(b, x) => b = c
         /\ \A d \in Devices : ~ByDevice(d, x)
    /\ \A d \in Devices, x \in Secrets : ByDevice(d, x) =>
         /\ owner[x] # None /\ delivered[x] = 0
         /\ \A e \in Devices : ByDevice(e, x) => e = d

LogInv == \A k \in Logged, u \in People :
    done[k][u] + Cardinality(Awaited(k, u)) <= events[k][u]

\* What a request does that neither carries a secret nor commits.
Still(c) == req'[c] = req[c] \/ Plain(req'[c])
NoNewCopy == \A d \in Devices, x \in Secrets : ByDevice(d, x)' => ByDevice(d, x)
Settled == \A k \in spent : code'[k].state \in {"complete", "lost"}

LEMMA AwaitedFinite ==
    ASSUME NEW k, NEW u
    PROVE  IsFiniteSet(Awaited(k, u)) /\ Cardinality(Awaited(k, u)) \in Nat
BY ClientsAssumption, FS_Subset, FS_CardinalityType DEF Awaited

LEMMA CountsAreNat ==
    ASSUME TypeOK, NEW k \in Logged, NEW u \in People
    PROVE  done[k][u] \in Nat /\ events[k][u] \in Nat
BY DEF TypeOK, Counts

\* Fewer requests that wait for their commit, no event lost.
LEMMA FewerAwaited ==
    ASSUME TypeOK, TypeOK', LogInv, UNCHANGED done,
           \A k \in Logged, u \in People : events'[k][u] >= events[k][u],
           \A k \in Logged, u \in People : Awaited(k, u)' \subseteq Awaited(k, u)
    PROVE  LogInv'
<1> SUFFICES ASSUME NEW k \in Logged, NEW u \in People
             PROVE  done'[k][u] + Cardinality(Awaited(k, u)') <= events'[k][u]
    BY DEF LogInv
<1>1. Cardinality(Awaited(k, u)') <= Cardinality(Awaited(k, u))
    BY AwaitedFinite, FS_Subset
<1>2. /\ Cardinality(Awaited(k, u)) \in Nat
      /\ Cardinality(Awaited(k, u)') \in Nat
    BY AwaitedFinite, FS_Subset, FS_CardinalityType
<1>3. done[k][u] \in Nat /\ events[k][u] \in Nat /\ events'[k][u] \in Nat
    BY CountsAreNat DEF TypeOK, Counts
<1>q. QED
    BY <1>1, <1>2, <1>3 DEF LogInv

LEMMA StillAwaited ==
    ASSUME \A c \in Clients : Still(c), NEW k \in Logged, NEW u \in People
    PROVE  Awaited(k, u)' \subseteq Awaited(k, u)
BY DEF Still, Plain, Awaited

LEMMA StillSpent ==
    ASSUME SpentInv, \A c \in Clients : Still(c), Settled, UNCHANGED spent
    PROVE  SpentInv'
BY DEF SpentInv, CodeIsSpent, Still, Plain, Settled

LEMMA StillSecret ==
    ASSUME SecretInv, \A c \in Clients : Still(c), NoNewCopy,
           UNCHANGED <<owner, delivered>>
    PROVE  SecretInv'
<1>1. ASSUME NEW c \in Clients, NEW x \in Secrets, ByRequest(c, x)'
      PROVE  ByRequest(c, x)
    BY <1>1 DEF ByRequest, Still, Plain
<1>q. QED
    BY <1>1 DEF SecretInv, DeliveredOnce, NoNewCopy

LInv == SpentInv /\ SecretInv /\ LogInv

LEMMA QuietStep ==
    ASSUME TypeOK, TypeOK', LInv, \A c \in Clients : Still(c), NoNewCopy,
           Settled, UNCHANGED <<owner, delivered, spent, done>>,
           \A k \in Logged, u \in People : events'[k][u] >= events[k][u]
    PROVE  LInv'
BY StillSpent, StillSecret, StillAwaited, FewerAwaited DEF LInv

LEMMA PlainChange ==
    ASSUME TypeOK, NEW c \in Clients, NEW r, Plain(r),
           req' = [req EXCEPT ![c] = r]
    PROVE  \A d \in Clients : Still(d)
BY DEF TypeOK, Still

LEMMA PlainIdle == Plain(Idle)
BY PeopleAssumption DEF Plain, Carries, Committing, Idle, Ops, Logged

LEMMA Memory ==
    ASSUME TypeOK, LInv
    PROVE  /\ UNCHANGED code => Settled
           /\ UNCHANGED device => NoNewCopy
           /\ UNCHANGED events =>
                \A k \in Logged, u \in People : events'[k][u] >= events[k][u]
<1>1. \A k \in Logged, u \in People : events[k][u] >= events[k][u]
    BY CountsAreNat
<1>q. QED
    BY <1>1 DEF LInv, SpentInv, Settled, NoNewCopy, ByDevice

LEMMA HandleLogoutKeeps ==
    ASSUME TInv, TInv', LInv, NEW c \in Clients, NEW x \in Secrets,
           HandleLogout(c, x)
    PROVE  LInv'
<1> DEFINE r == [Idle EXCEPT !.op = "logout", !.pc = "event",
                             !.uid = owner[x], !.secret = x]
<1>1. Plain(r)
    BY DEF Plain, Carries, Committing, Idle, Logged
<1>2. req' = [req EXCEPT ![c] = r]
    BY DEF HandleLogout, Serve
<1> HIDE DEF r
<1>3. \A b \in Clients : Still(b)
    BY <1>1, <1>2, PlainChange DEF TInv
<1>4. UNCHANGED <<code, device, events, owner, delivered, spent, done>>
    BY DEF HandleLogout, memory, tally
<1>q. QED
    BY <1>3, <1>4, Memory, QuietStep DEF TInv

LEMMA RevokeSessionKeeps ==
    ASSUME TInv, TInv', LInv, NEW c \in Clients, NEW u \in Users, NEW x \in
           Secrets, RevokeSession(c, u, x)
    PROVE  LInv'
<1> DEFINE r == [Idle EXCEPT !.op = "revoke", !.pc = "event",
                             !.uid = u, !.secret = x]
<1>1. Plain(r)
    BY DEF Plain, Carries, Committing, Idle, Logged
<1>2. req' = [req EXCEPT ![c] = r]
    BY DEF RevokeSession, Serve
<1> HIDE DEF r
<1>3. \A b \in Clients : Still(b)
    BY <1>1, <1>2, PlainChange DEF TInv
<1>4. UNCHANGED <<code, device, events, owner, delivered, spent, done>>
    BY DEF RevokeSession, memory, tally
<1>q. QED
    BY <1>3, <1>4, Memory, QuietStep DEF TInv

LEMMA DeleteUserSessionsKeeps ==
    ASSUME TInv, TInv', LInv, NEW c \in Clients, NEW u \in Users, NEW target
           \in Users, DeleteUserSessions(c, u, target)
    PROVE  LInv'
<1> DEFINE r == [Idle EXCEPT !.op = "endall", !.pc = "event",
                             !.uid = u, !.target = target]
<1>1. Plain(r)
    BY DEF Plain, Carries, Committing, Idle, Logged
<1>2. req' = [req EXCEPT ![c] = r]
    BY DEF DeleteUserSessions, Serve
<1> HIDE DEF r
<1>3. \A b \in Clients : Still(b)
    BY <1>1, <1>2, PlainChange DEF TInv
<1>4. UNCHANGED <<code, device, events, owner, delivered, spent, done>>
    BY DEF DeleteUserSessions, memory, tally
<1>q. QED
    BY <1>3, <1>4, Memory, QuietStep DEF TInv

LEMMA SetClientAppSecretKeeps ==
    ASSUME TInv, TInv', LInv, NEW c \in Clients, NEW a \in Apps,
           SetClientAppSecret(c, a)
    PROVE  LInv'
<1> DEFINE r == [Idle EXCEPT !.op = "secret", !.pc = "event",
                             !.uid = Owner[a], !.target = a]
<1>1. Plain(r)
    BY DEF Plain, Carries, Committing, Idle, Logged
<1>2. req' = [req EXCEPT ![c] = r]
    BY DEF SetClientAppSecret, Serve
<1> HIDE DEF r
<1>3. \A b \in Clients : Still(b)
    BY <1>1, <1>2, PlainChange DEF TInv
<1>4. UNCHANGED <<code, device, events, owner, delivered, spent, done>>
    BY DEF SetClientAppSecret, memory, tally
<1>q. QED
    BY <1>3, <1>4, Memory, QuietStep DEF TInv

LEMMA UserBanKeeps ==
    ASSUME TInv, TInv', LInv, NEW c \in Clients, NEW u \in Users, NEW target
           \in Users, UserBan(c, u, target)
    PROVE  LInv'
<1> DEFINE r == [Idle EXCEPT !.op = "ban", !.pc = "commit",
                             !.uid = u, !.target = target]
<1>1. Plain(r)
    BY DEF Plain, Carries, Committing, Idle, Logged
<1>2. req' = [req EXCEPT ![c] = r]
    BY DEF UserBan, Serve
<1> HIDE DEF r
<1>3. \A b \in Clients : Still(b)
    BY <1>1, <1>2, PlainChange DEF TInv
<1>4. UNCHANGED <<code, device, events, owner, delivered, spent, done>>
    BY DEF UserBan, memory, tally
<1>q. QED
    BY <1>3, <1>4, Memory, QuietStep DEF TInv

LEMMA NukeSessionTableKeeps ==
    ASSUME TInv, TInv', LInv, NEW c \in Clients, NEW u \in Users,
           NukeSessionTable(c, u)
    PROVE  LInv'
<1> DEFINE r == [Idle EXCEPT !.op = "nuke", !.pc = "commit", !.uid = u]
<1>1. Plain(r)
    BY DEF Plain, Carries, Committing, Idle, Logged
<1>2. req' = [req EXCEPT ![c] = r]
    BY DEF NukeSessionTable, Serve
<1> HIDE DEF r
<1>3. \A b \in Clients : Still(b)
    BY <1>1, <1>2, PlainChange DEF TInv
<1>4. UNCHANGED <<code, device, events, owner, delivered, spent, done>>
    BY DEF NukeSessionTable, memory, tally
<1>q. QED
    BY <1>3, <1>4, Memory, QuietStep DEF TInv

LEMMA ExchangeCodeKeeps ==
    ASSUME TInv, TInv', LInv, NEW c \in Clients, NEW k \in Codes,
           ExchangeCode(c, k)
    PROVE  LInv'
<1> DEFINE r == [Idle EXCEPT !.op = "exchange", !.pc = "gen",
                             !.uid = code[k].uid, !.item = k,
                             !.scope = code[k].scope,
                             !.again = k \in spent]
<1>0. k \notin spent
    BY DEF ExchangeCode, GetCode, LInv, SpentInv
<1>1. Plain(r)
    BY <1>0 DEF Plain, Carries, Committing, Idle, Logged
<1>2. req' = [req EXCEPT ![c] = r]
    BY DEF ExchangeCode, Serve
<1> HIDE DEF r
<1>3. \A b \in Clients : Still(b)
    BY <1>1, <1>2, PlainChange DEF TInv
<1>4. UNCHANGED <<code, device, events, owner, delivered, spent, done>>
    BY DEF ExchangeCode, memory, tally
<1>q. QED
    BY <1>3, <1>4, Memory, QuietStep DEF TInv

LEMMA ClientCredentialsKeeps ==
    ASSUME TInv, TInv', LInv, NEW c \in Clients, NEW a \in Apps, NEW asked \in
           SUBSET Scopes, ClientCredentials(c, a, asked)
    PROVE  LInv'
<1> DEFINE r == [Idle EXCEPT !.op = "credentials", !.pc = "gen",
                             !.uid = a,
                             !.scope = IF asked = {} THEN DefaultScope
                                       ELSE CredsScopes[a] \cap asked]
<1>1. Plain(r)
    BY DEF Plain, Carries, Committing, Idle, Logged
<1>2. req' = [req EXCEPT ![c] = r]
    BY DEF ClientCredentials, Serve
<1> HIDE DEF r
<1>3. \A b \in Clients : Still(b)
    BY <1>1, <1>2, PlainChange DEF TInv
<1>4. UNCHANGED <<code, device, events, owner, delivered, spent, done>>
    BY DEF ClientCredentials, memory, tally
<1>q. QED
    BY <1>3, <1>4, Memory, QuietStep DEF TInv

LEMMA HandleOauthDeviceResponseKeeps ==
    ASSUME TInv, TInv', LInv, NEW c \in Clients, NEW u \in Users, NEW d \in
           Devices, NEW verdict \in {"approve", "deny"},
           HandleOauthDeviceResponse(c, u, d, verdict)
    PROVE  LInv'
<1> DEFINE r == [Idle EXCEPT !.op = verdict, !.uid = u, !.item = d,
                             !.scope = device[d].scope,
                             !.held = device[d].token,
                             !.pc = IF verdict = "approve" THEN "gen"
                                                           ELSE "save"]
<1>1. Plain(r)
    BY DEF Plain, Carries, Committing, Idle, Logged
<1>2. req' = [req EXCEPT ![c] = r]
    BY DEF HandleOauthDeviceResponse, Serve
<1> HIDE DEF r
<1>3. \A b \in Clients : Still(b)
    BY <1>1, <1>2, PlainChange DEF TInv
<1>4. UNCHANGED <<code, device, events, owner, delivered, spent, done>>
    BY DEF HandleOauthDeviceResponse, memory, tally
<1>q. QED
    BY <1>3, <1>4, Memory, QuietStep DEF TInv

LEMMA HandleOauthAuthorizeKeeps ==
    ASSUME TInv, TInv', LInv, NEW c \in Clients, NEW u \in Users, NEW a \in
           Apps, NEW k \in Codes, NEW asked \in SUBSET Scopes,
           HandleOauthAuthorize(c, u, a, k, asked)
    PROVE  LInv'
<1> DEFINE r == [Idle EXCEPT !.op = "authorize", !.pc = "event", !.uid = u]
<1>1. Plain(r)
    BY DEF Plain, Carries, Committing, Idle, Logged
<1>2. req' = [req EXCEPT ![c] = r]
    BY DEF HandleOauthAuthorize, Serve
<1> HIDE DEF r
<1>3. \A b \in Clients : Still(b)
    BY <1>1, <1>2, PlainChange DEF TInv
<1>4. Settled /\ UNCHANGED <<device, events, owner, delivered, spent, done>>
    BY DEF HandleOauthAuthorize, tally, LInv, SpentInv, Settled, TInv,
       TypeOK
<1>q. QED
    BY <1>3, <1>4, Memory, QuietStep DEF TInv

LEMMA DiscordKeeps ==
    ASSUME TInv, TInv', LInv, NEW n \in Nonces, HandleDiscordAuth(n)
    PROVE  LInv'
<1>1. UNCHANGED <<code, device, events, owner, delivered, spent, done, req>>
    BY DEF HandleDiscordAuth, tally
<1>q. QED
    BY <1>1, Memory, QuietStep DEF TInv, Still

LEMMA CallbackKeeps ==
    ASSUME TInv, TInv', LInv, NEW c \in Clients, NEW n \in Nonces,
           NEW u \in Users, HandleDiscordCallback(c, n, u)
    PROVE  LInv'
<1> DEFINE in == [Idle EXCEPT !.op = "login", !.pc = "fetch", !.uid = u]
<1>1. Plain(in)
    BY DEF Plain, Carries, Committing, Idle
<1>2. req' = [req EXCEPT ![c] = in] \/ req' = [req EXCEPT ![c] = Idle]
    BY DEF HandleDiscordCallback, Serve
<1> HIDE DEF in
<1>3. \A b \in Clients : Still(b)
    BY <1>1, <1>2, PlainChange, PlainIdle DEF TInv
<1>4. UNCHANGED <<code, device, events, owner, delivered, spent, done>>
    BY DEF HandleDiscordCallback, tally
<1>q. QED
    BY <1>3, <1>4, Memory, QuietStep DEF TInv

\* A request that goes on and neither carries nor commits yet.
LEMMA GoneOn ==
    ASSUME TInv, LInv, NEW c \in Clients, NEW r,
           r.again = req[c].again, ~Carries(r), ~Committing(r),
           req' = [req EXCEPT ![c] = r]
    PROVE  \A b \in Clients : Still(b)
<1>1. Plain(r)
    BY DEF Plain, LInv, SpentInv, CodeIsSpent
<1>q. QED
    BY <1>1, PlainChange DEF TInv

LEMMA FetchKeeps ==
    ASSUME TInv, TInv', LInv, NEW c \in Clients, FetchRoles(c)
    PROVE  LInv'
<1>1. PICK answer \in RoleAnswers[req[c].uid] :
        req' = [req EXCEPT ![c].pc = "store", ![c].roles = answer]
    BY DEF FetchRoles
<1> DEFINE r == [req[c] EXCEPT !.pc = "store", !.roles = answer]
<1>2. /\ r.again = req[c].again /\ ~Carries(r) /\ ~Committing(r)
      /\ req' = [req EXCEPT ![c] = r]
    BY <1>1 DEF TInv, TypeOK, RequestType, Carries, Committing
<1> HIDE DEF r
<1>3. \A b \in Clients : Still(b)
    BY <1>2, GoneOn
<1>4. UNCHANGED <<code, device, events, owner, delivered, spent, done>>
    BY DEF FetchRoles, memory, tally
<1>q. QED
    BY <1>3, <1>4, Memory, QuietStep DEF TInv

LEMMA EmitEventKeeps ==
    ASSUME TInv, TInv', LInv, NEW c \in Clients, EmitEvent(c)
    PROVE  LInv'
<1>1. \A b \in Clients : Still(b)
    BY PlainChange, PlainIdle DEF EmitEvent, Answer, TInv
<1>2. UNCHANGED <<code, device, owner, delivered, spent, done>>
    BY DEF EmitEvent, memory, tally
<1>3. \A k \in Logged, u \in People : events'[k][u] = events[k][u]
    BY DEF EmitEvent, Count, TInv, TypeOK, Counts, Logged
<1>4. \A k \in Logged, u \in People : events'[k][u] >= events[k][u]
    BY <1>3, CountsAreNat DEF TInv
<1>q. QED
    BY <1>1, <1>2, <1>4, Memory, QuietStep DEF TInv

LEMMA DeviceKeeps ==
    ASSUME TInv, TInv', LInv, NEW d \in Devices, NEW a \in Apps,
           NEW asked \in SUBSET Scopes, HandleOauthDevice(d, a, asked)
    PROVE  LInv'
<1>1. UNCHANGED <<code, events, owner, delivered, spent, done, req>>
    BY DEF HandleOauthDevice, tally
<1>2. NoNewCopy
    BY DEF HandleOauthDevice, NoNewCopy, ByDevice, TInv, TypeOK
<1>q. QED
    BY <1>1, <1>2, Memory, QuietStep DEF TInv, Still

LEMMA ExpireKeeps ==
    ASSUME TInv, TInv', LInv, NEW x \in Secrets \cup Codes \cup Devices,
           Expire(x)
    PROVE  LInv'
<1>1. UNCHANGED <<code, device, events, owner, delivered, spent, done, req>>
    BY DEF Expire, memory, tally
<1>q. QED
    BY <1>1, Memory, QuietStep DEF TInv, Still

LEMMA FailKeeps ==
    ASSUME TInv, TInv', LInv, NEW c \in Clients, Fail(c)
    PROVE  LInv'
<1>1. \A b \in Clients : Still(b)
    BY PlainChange, PlainIdle DEF Fail, Answer, TInv
<1>2. UNCHANGED <<code, device, events, owner, delivered, spent, done>>
    BY DEF Fail, memory, tally
<1>q. QED
    BY <1>1, <1>2, Memory, QuietStep DEF TInv

LEMMA RestartKeeps ==
    ASSUME TInv, TInv', LInv, Restart
    PROVE  LInv'
<1>1. \A b \in Clients : Still(b)
    BY PlainIdle DEF Restart, Still
<1>2. UNCHANGED <<events, owner, delivered, spent, done>>
    BY DEF Restart, tally
<1>3. Settled
  <2>1. ASSUME NEW k \in spent
        PROVE  code'[k].state = "lost"
    <3>1. code[k] \in CodeType /\ code[k].state # "unused" /\ k \in Codes
        BY DEF TInv, TypeOK, LInv, SpentInv
    <3>2. code'[k] = IF code[k].state = "unused" THEN NoCode
                     ELSE [code[k] EXCEPT !.state = "lost"]
        BY <3>1 DEF Restart
    <3>q. QED
        BY <3>1, <3>2 DEF CodeType
  <2>q. QED
      BY <2>1 DEF Settled
<1>4. NoNewCopy
  <2>1. ASSUME NEW d \in Devices
        PROVE  device'[d].state # "complete"
    <3>1. device[d] \in DeviceType
        BY DEF TInv, TypeOK
    <3>2. device'[d] = IF device[d].state = "unused" THEN NoDevice
              ELSE [device[d] EXCEPT !.state = "lost", !.token = None]
        BY DEF Restart
    <3>q. QED
        BY <3>1, <3>2 DEF DeviceType, NoDevice
  <2>q. QED
      BY <2>1 DEF NoNewCopy, ByDevice
<1>q. QED
    BY <1>1, <1>2, <1>3, <1>4, Memory, QuietStep DEF TInv

-----------------------------------------------------------------------------
(* Secrets made, passed on and handed out *)

OldRequests == \A b \in Clients, y \in Secrets :
    ByRequest(b, y)' => ByRequest(b, y)

OneCarrier(c, x) == \A b \in Clients, y \in Secrets :
    ByRequest(b, y)' => ByRequest(b, y) \/ (b = c /\ y = x)

\* A new secret has no carrier and was not handed out.
LEMMA FreshUnseen ==
    ASSUME SecretInv, NEW x \in Secrets, Fresh(x)
    PROVE  /\ delivered[x] = 0
           /\ \A b \in Clients : ~ByRequest(b, x)
           /\ \A d \in Devices : ~ByDevice(d, x)
BY DEF SecretInv, Fresh

LEMMA Minted ==
    ASSUME TypeOK, SecretInv, NEW x \in Secrets, Fresh(x), NEW p, p # None,
           owner' = [owner EXCEPT ![x] = p], NEW c \in Clients,
           OneCarrier(c, x), NoNewCopy, UNCHANGED delivered
    PROVE  SecretInv'
<1>1. /\ delivered[x] = 0
      /\ \A b \in Clients : ~ByRequest(b, x)
      /\ \A d \in Devices : ~ByDevice(d, x)
    BY FreshUnseen
<1>2. \A y \in Secrets : owner'[y] = IF y = x THEN p ELSE owner[y]
    BY DEF TypeOK
<1>q. QED
    BY <1>1, <1>2 DEF SecretInv, DeliveredOnce, NoNewCopy, OneCarrier

LEMMA MintedAndGiven ==
    ASSUME TypeOK, SecretInv, NEW x \in Secrets, Fresh(x), NEW p, p # None,
           owner' = [owner EXCEPT ![x] = p],
           delivered' = [delivered EXCEPT ![x] = @ + 1],
           OldRequests, NoNewCopy
    PROVE  SecretInv'
<1>1. /\ delivered[x] = 0
      /\ \A b \in Clients : ~ByRequest(b, x)
      /\ \A d \in Devices : ~ByDevice(d, x)
    BY FreshUnseen
<1>2. \A y \in Secrets : /\ owner'[y] = IF y = x THEN p ELSE owner[y]
                         /\ delivered'[y] = IF y = x THEN 1 ELSE delivered[y]
    BY <1>1 DEF TypeOK
<1>q. QED
    BY <1>1, <1>2 DEF SecretInv, DeliveredOnce, NoNewCopy, OldRequests

LEMMA HandedOut ==
    ASSUME TypeOK, SecretInv, NEW x \in Secrets,
           owner[x] # None, delivered[x] = 0, UNCHANGED owner,
           delivered' = [delivered EXCEPT ![x] = @ + 1],
           OldRequests, NoNewCopy,
           \A b \in Clients : ~ByRequest(b, x)',
           \A d \in Devices : ~ByDevice(d, x)'
    PROVE  SecretInv'
<1>1. \A y \in Secrets : delivered'[y] = IF y = x THEN 1 ELSE delivered[y]
    BY DEF TypeOK
<1>q. QED
    BY <1>1 DEF SecretInv, DeliveredOnce, NoNewCopy, OldRequests

LEMMA SpentKept ==
    ASSUME TypeOK, SpentInv, NEW c \in Clients, NEW r, ~r.again,
           req' = [req EXCEPT ![c] = r], UNCHANGED spent, Settled
    PROVE  SpentInv'
BY DEF TypeOK, SpentInv, CodeIsSpent, Settled

LEMMA NeverAgain ==
    ASSUME LInv, NEW c \in Clients
    PROVE  ~req[c].again
BY DEF LInv, SpentInv, CodeIsSpent

\* A request that is not left waiting for its commit.
LEMMA NotAwaited ==
    ASSUME TypeOK, NEW c \in Clients, NEW r, ~Committing(r),
           req' = [req EXCEPT ![c] = r], NEW k \in Logged, NEW u \in People
    PROVE  Awaited(k, u)' \subseteq Awaited(k, u) \ {c}
BY DEF TypeOK, Awaited

LEMMA QuietLog ==
    ASSUME TypeOK, TypeOK', LInv, NEW c \in Clients, NEW r, ~Committing(r),
           req' = [req EXCEPT ![c] = r], UNCHANGED <<done, events>>
    PROVE  LogInv'
<1>1. \A k \in Logged, u \in People : Awaited(k, u)' \subseteq Awaited(k, u)
    BY NotAwaited
<1>q. QED
    BY <1>1, Memory, FewerAwaited DEF LInv

LEMMA StoreKeeps ==
    ASSUME TInv, TInv', LInv, NEW c \in Clients, StoreUser(c)
    PROVE  LInv'
<1>1. PICK x \in Secrets :
        /\ Fresh(x) /\ owner' = [owner EXCEPT ![x] = req[c].uid]
        /\ req' = [req EXCEPT ![c].pc = "event", ![c].secret = x]
    BY DEF StoreUser
<1> DEFINE r == [req[c] EXCEPT !.pc = "event", !.secret = x]
<1>2. /\ ~r.again /\ r.secret = x /\ ~Committing(r)
      /\ req' = [req EXCEPT ![c] = r]
    BY <1>1, NeverAgain DEF TInv, TypeOK, RequestType, Committing
<1> HIDE DEF r
<1>3. req[c].uid \in People /\ req[c].uid # None
    BY PeopleAssumption DEF StoreUser, TInv, RequestsSound, Sound
<1>4. UNCHANGED <<code, device, events, delivered, spent, done>>
    BY DEF StoreUser, memory, tally
<1>5. OneCarrier(c, x)
    BY <1>2 DEF TInv, TypeOK, OneCarrier, ByRequest
<1>6. NoNewCopy /\ Settled
    BY <1>4, Memory DEF TInv
<1>7. SecretInv'
    BY <1>1, <1>3, <1>4, <1>5, <1>6, Minted DEF LInv, TInv
<1>8. SpentInv'
    BY <1>2, <1>4, <1>6, SpentKept DEF LInv, TInv
<1>9. LogInv'
    BY <1>2, <1>4, QuietLog DEF TInv
<1>q. QED
    BY <1>7, <1>8, <1>9 DEF LInv

LEMMA GenKeeps ==
    ASSUME TInv, TInv', LInv, NEW c \in Clients, GenAuthToken(c)
    PROVE  LInv'
<1>1. PICK x \in Secrets :
        /\ Fresh(x) /\ owner' = [owner EXCEPT ![x] = req[c].uid]
        /\ IF req[c].op = "credentials"
           THEN /\ delivered' = [delivered EXCEPT ![x] = @ + 1]
                /\ Answer(c)
           ELSE /\ req' = [req EXCEPT ![c].pc = "save", ![c].secret = x]
                /\ UNCHANGED delivered
    BY DEF GenAuthToken
<1>2. req[c].uid \in People /\ req[c].uid # None
    BY PeopleAssumption DEF GenAuthToken, TInv, RequestsSound, Sound
<1>3. UNCHANGED <<code, device, events, spent, done>>
    BY DEF GenAuthToken, memory
<1>4. NoNewCopy /\ Settled
    BY <1>3, Memory DEF TInv
<1>5. CASE req[c].op = "credentials"
  <2>1. req' = [req EXCEPT ![c] = Idle]
      BY <1>1, <1>5 DEF Answer
  <2>2. Plain(Idle) /\ ~Committing(Idle) /\ ~Idle.again /\ ~Carries(Idle)
      BY PlainIdle DEF Plain
  <2>3. OldRequests
      BY <2>1, <2>2 DEF OldRequests, ByRequest, TInv, TypeOK
  <2>4. SecretInv'
      BY <1>1, <1>2, <1>4, <1>5, <2>3, MintedAndGiven DEF LInv, TInv
  <2>5. SpentInv'
      BY <1>3, <1>4, <2>1, <2>2, SpentKept DEF LInv, TInv
  <2>6. LogInv'
      BY <1>3, <2>1, <2>2, QuietLog DEF TInv
  <2>q. QED
      BY <2>4, <2>5, <2>6 DEF LInv
<1>6. CASE req[c].op # "credentials"
  <2> DEFINE r == [req[c] EXCEPT !.pc = "save", !.secret = x]
  <2>0. /\ req' = [req EXCEPT ![c].pc = "save", ![c].secret = x]
        /\ UNCHANGED delivered
      BY <1>1, <1>6
  <2>1. /\ ~r.again /\ r.secret = x /\ ~Committing(r)
        /\ req' = [req EXCEPT ![c] = r]
      BY <2>0, NeverAgain DEF TInv, TypeOK, RequestType, Committing
  <2> HIDE DEF r
  <2>2. OneCarrier(c, x)
      BY <2>1 DEF TInv, TypeOK, OneCarrier, ByRequest
  <2>3. SecretInv'
      BY <1>1, <1>2, <1>4, <2>0, <2>2, Minted DEF LInv, TInv
  <2>4. SpentInv'
      BY <1>3, <1>4, <2>1, SpentKept DEF LInv, TInv
  <2>5. LogInv'
      BY <1>3, <2>1, QuietLog DEF TInv
  <2>q. QED
      BY <2>3, <2>4, <2>5 DEF LInv
<1>q. QED
    BY <1>5, <1>6

-----------------------------------------------------------------------------
(* The two commits of a change *)

\* The event of c's change is committed: one more event, one more awaited.
LEMMA CommitEventKeeps ==
    ASSUME TInv, TInv', LInv, NEW c \in Clients, CommitEvent(c)
    PROVE  LInv'
<1> DEFINE r == [req[c] EXCEPT !.pc = "commit"]
           k0 == req[c].op
           u0 == req[c].uid
<1>1. /\ ~r.again /\ r.secret = req[c].secret /\ r.op = k0 /\ r.uid = u0
      /\ Carries(r) => Carries(req[c])
      /\ ~Committing(req[c])
      /\ req' = [req EXCEPT ![c] = r]
    BY NeverAgain DEF CommitEvent, Goto, TInv, TypeOK, RequestType, Carries,
       Committing, Logged
<1>2. k0 \in Logged /\ u0 \in People
    BY DEF CommitEvent, TInv, RequestsSound, Sound
<1> HIDE DEF r, k0, u0
<1>3. UNCHANGED <<code, device, owner, delivered, spent, done>>
    BY DEF CommitEvent, memory, tally
<1>4. NoNewCopy /\ Settled
    BY <1>3, Memory DEF TInv
<1>5. \A b \in Clients : req'[b] = IF b = c THEN r ELSE req[b]
    BY <1>1 DEF TInv, TypeOK
<1>6. OldRequests
    BY <1>1, <1>5 DEF OldRequests, ByRequest
<1>7. SecretInv'
    BY <1>3, <1>4, <1>6 DEF LInv, SecretInv, DeliveredOnce, OldRequests,
       NoNewCopy
<1>8. SpentInv'
    BY <1>1, <1>3, <1>4, SpentKept DEF LInv, TInv
<1>9. LogInv'
  <2> SUFFICES ASSUME NEW k \in Logged, NEW u \in People
               PROVE  done'[k][u] + Cardinality(Awaited(k, u)') <= events'[k][u]
      BY DEF LogInv
  <2>1. /\ done[k][u] \in Nat /\ events[k][u] \in Nat
        /\ done[k][u] + Cardinality(Awaited(k, u)) <= events[k][u]
      BY CountsAreNat DEF LInv, LogInv, TInv
  <2>2. IsFiniteSet(Awaited(k, u)) /\ Cardinality(Awaited(k, u)) \in Nat
      BY AwaitedFinite
  <2>3. events' = Count(events, k0, u0)
      BY DEF CommitEvent, k0, u0
  <2>4. CASE k = k0 /\ u = u0
    <3>1. Awaited(k, u)' \subseteq Awaited(k, u) \cup {c}
        BY <1>5 DEF Awaited
    <3>2. /\ IsFiniteSet(Awaited(k, u) \cup {c})
          /\ Cardinality(Awaited(k, u) \cup {c}) =
               IF c \in Awaited(k, u) THEN Cardinality(Awaited(k, u))
                                      ELSE Cardinality(Awaited(k, u)) + 1
        BY <2>2, FS_AddElement
    <3>3. /\ Cardinality(Awaited(k, u)') \in Nat
          /\ Cardinality(Awaited(k, u)') <= Cardinality(Awaited(k, u) \cup {c})
        BY <3>1, <3>2, FS_Subset, FS_CardinalityType
    <3>4. Cardinality(Awaited(k, u) \cup {c}) \in Nat
        BY <3>2, FS_CardinalityType
    <3>5. events'[k][u] = events[k][u] + 1
        BY <2>3, <2>4, <1>2 DEF Count, TInv, TypeOK, Counts
    <3>q. QED
        BY <1>3, <2>1, <2>2, <3>2, <3>3, <3>4, <3>5
  <2>5. CASE ~(k = k0 /\ u = u0)
    <3>1. Awaited(k, u)' = Awaited(k, u)
        BY <1>1, <1>5, <2>5 DEF Awaited
    <3>2. events'[k][u] = events[k][u]
        BY <2>3, <2>5, <1>2 DEF Count, TInv, TypeOK, Counts
    <3>q. QED
        BY <1>3, <2>1, <2>2, <3>1, <3>2
  <2>q. QED
      BY <2>4, <2>5
<1>q. QED
    BY <1>7, <1>8, <1>9 DEF LInv

\* The change of c is committed: one more done, one less awaited.
LEMMA ChangeLogged ==
    ASSUME TInv, TInv', LInv, NEW c \in Clients, Committing(req[c]),
           Answer(c), done' = Count(done, req[c].op, req[c].uid),
           UNCHANGED events
    PROVE  LogInv'
<1> DEFINE k0 == req[c].op
           u0 == req[c].uid
<1>1. k0 \in Logged /\ u0 \in People
    BY DEF Committing, TInv, RequestsSound, Sound
<1>2. req' = [req EXCEPT ![c] = Idle] /\ ~Committing(Idle)
    BY PlainIdle DEF Answer, Plain
<1> SUFFICES ASSUME NEW k \in Logged, NEW u \in People
             PROVE  done'[k][u] + Cardinality(Awaited(k, u)') <= events'[k][u]
    BY DEF LogInv
<1>3. /\ done[k][u] \in Nat /\ events[k][u] \in Nat
      /\ done[k][u] + Cardinality(Awaited(k, u)) <= events[k][u]
    BY CountsAreNat DEF LInv, LogInv, TInv
<1>4. Awaited(k, u)' \subseteq Awaited(k, u) \ {c}
    BY <1>2, NotAwaited DEF TInv
<1>5. IsFiniteSet(Awaited(k, u)) /\ Cardinality(Awaited(k, u)) \in Nat
    BY AwaitedFinite
<1>6. /\ IsFiniteSet(Awaited(k, u) \ {c})
      /\ Cardinality(Awaited(k, u) \ {c}) =
           IF c \in Awaited(k, u) THEN Cardinality(Awaited(k, u)) - 1
                                  ELSE Cardinality(Awaited(k, u))
    BY <1>5, FS_RemoveElement
<1>7. /\ Cardinality(Awaited(k, u)') <= Cardinality(Awaited(k, u) \ {c})
      /\ Cardinality(Awaited(k, u)') \in Nat
    BY <1>4, <1>6, FS_Subset, FS_CardinalityType
<1>8. Cardinality(Awaited(k, u) \ {c}) \in Nat
    BY <1>6, FS_CardinalityType
<1>9. CASE k = k0 /\ u = u0
  <2>1. c \in Awaited(k, u)
      BY <1>9 DEF Awaited
  <2>2. done'[k][u] = done[k][u] + 1
      BY <1>9, <1>1 DEF Count, TInv, TypeOK, Counts
  <2>q. QED
      BY <1>3, <1>5, <1>6, <1>7, <1>8, <2>1, <2>2
<1>10. CASE ~(k = k0 /\ u = u0)
  <2>1. done'[k][u] = done[k][u]
      BY <1>10, <1>1 DEF Count, TInv, TypeOK, Counts
  <2>q. QED
      BY <1>3, <1>5, <1>6, <1>7, <1>8, <2>1
<1>q. QED
    BY <1>9, <1>10

\* c answers, and hands out the secret it carries.
LEMMA AnswersWithSecret ==
    ASSUME TInv, LInv, NEW c \in Clients, Carries(req[c]), Answer(c),
           delivered' = [delivered EXCEPT ![req[c].secret] = @ + 1],
           UNCHANGED <<owner, device>>
    PROVE  SecretInv'
<1>1. PICK x \in Secrets : x = req[c].secret
    BY DEF Carries, TInv, RequestsSound, Sound
<1>2. ByRequest(c, x)
    BY <1>1 DEF ByRequest
<1>3. req' = [req EXCEPT ![c] = Idle] /\ ~Carries(Idle)
    BY PlainIdle DEF Answer, Plain
<1>4. OldRequests
    BY <1>3 DEF OldRequests, ByRequest, TInv, TypeOK
<1>5. /\ owner[x] # None /\ delivered[x] = 0
      /\ \A b \in Clients : ByRequest(b, x) => b = c
      /\ \A d \in Devices : ~ByDevice(d, x)
    BY <1>1, <1>2 DEF LInv, SecretInv
<1>6. NoNewCopy /\ \A d \in Devices : ~ByDevice(d, x)'
    BY <1>5, Memory DEF ByDevice, TInv
<1>7. \A b \in Clients : ~ByRequest(b, x)'
    BY <1>3, <1>5 DEF ByRequest, TInv, TypeOK
<1>8. delivered' = [delivered EXCEPT ![x] = @ + 1]
    BY <1>1
<1>q. QED
    BY <1>1, <1>4, <1>5, <1>6, <1>7, <1>8, HandedOut DEF LInv, TInv

LEMMA CommitLoginKeeps ==
    ASSUME TInv, TInv', LInv, NEW c \in Clients, CommitLogin(c)
    PROVE  LInv'
<1>1. UNCHANGED <<code, device, events, owner, spent>> /\ Answer(c)
    BY DEF CommitLogin, memory
<1>2. Carries(req[c]) /\ Committing(req[c])
    BY DEF CommitLogin, Carries, Committing, Logged
<1>3. SecretInv'
    BY <1>1, <1>2, AnswersWithSecret DEF CommitLogin
<1>4. done' = Count(done, req[c].op, req[c].uid)
    BY DEF CommitLogin
<1>5. LogInv'
    BY <1>1, <1>2, <1>4, ChangeLogged
<1>6. SpentInv'
    BY <1>1, Memory, SpentKept, PlainIdle DEF Answer, Plain, LInv, TInv
<1>q. QED
    BY <1>3, <1>5, <1>6 DEF LInv

LEMMA CommitChangeKeeps ==
    ASSUME TInv, TInv', LInv, NEW c \in Clients, CommitChange(c)
    PROVE  LInv'
<1>1. UNCHANGED <<code, device, events, owner, delivered, spent>> /\ Answer(c)
    BY DEF CommitChange, memory
<1>2. req' = [req EXCEPT ![c] = Idle] /\ Plain(Idle)
    BY <1>1, PlainIdle DEF Answer
<1>3. \A b \in Clients : Still(b)
    BY <1>2, PlainChange DEF TInv
<1>4. NoNewCopy /\ Settled
    BY <1>1, Memory DEF TInv
<1>5. SecretInv' /\ SpentInv'
    BY <1>1, <1>3, <1>4, StillSecret, StillSpent DEF LInv
<1>6. LogInv'
  <2>1. CASE req[c].op \in Logged
    <3>1. done' = Count(done, req[c].op, req[c].uid) /\ Committing(req[c])
        BY <2>1 DEF CommitChange, Committing
    <3>q. QED
        BY <1>1, <3>1, ChangeLogged
  <2>2. CASE req[c].op \notin Logged
    <3>1. UNCHANGED done /\ ~Committing(Idle)
        BY <1>2, <2>2 DEF CommitChange, Plain
    <3>q. QED
        BY <1>1, <1>2, <3>1, QuietLog DEF TInv
  <2>q. QED
      BY <2>1, <2>2
<1>q. QED
    BY <1>5, <1>6 DEF LInv

LEMMA SaveCodeKeeps ==
    ASSUME TInv, TInv', LInv, NEW c \in Clients, SaveCode(c)
    PROVE  LInv'
<1>1. UNCHANGED <<device, events, owner, done>> /\ Answer(c)
    BY DEF SaveCode
<1>2. Carries(req[c]) /\ req[c].item \in Codes
    BY DEF SaveCode, Carries, TInv, RequestsSound, Sound
<1>3. SecretInv'
    BY <1>1, <1>2, AnswersWithSecret DEF SaveCode
<1>4. req' = [req EXCEPT ![c] = Idle] /\ ~Committing(Idle) /\ ~Idle.again
    BY <1>1, PlainIdle DEF Answer, Plain
<1>5. LogInv'
    BY <1>1, <1>4, QuietLog DEF TInv
<1>6. \A k \in spent' : code'[k].state \in {"complete", "lost"}
    BY <1>2 DEF SaveCode, LInv, SpentInv, TInv, TypeOK, CodeType
<1>7. CodeIsSpent'
    BY <1>4 DEF CodeIsSpent, LInv, SpentInv, TInv, TypeOK
<1>q. QED
    BY <1>3, <1>5, <1>6, <1>7 DEF LInv, SpentInv

LEMMA SaveDeviceKeeps ==
    ASSUME TInv, TInv', LInv, NEW c \in Clients, SaveDevice(c)
    PROVE  LInv'
<1> DEFINE r == [req[c] EXCEPT !.pc = "event"]
           d0 == req[c].item
           x == req[c].secret
<1>1. /\ ~r.again /\ ~Committing(r) /\ ~Carries(r)
      /\ req' = [req EXCEPT ![c] = r]
    BY NeverAgain DEF SaveDevice, Goto, TInv, TypeOK, RequestType, Committing,
       Carries
<1>2. d0 \in Devices
    BY DEF SaveDevice, TInv, RequestsSound, Sound
<1> HIDE DEF r
<1>3. UNCHANGED <<code, events, owner, delivered, spent, done>>
    BY DEF SaveDevice, tally
<1>4. SpentInv' /\ LogInv'
    BY <1>1, <1>3, Memory, SpentKept, QuietLog DEF LInv, TInv
<1>5. CASE req[c].op = "deny"
  <2>1. NoNewCopy
      BY <1>2, <1>5 DEF SaveDevice, NoNewCopy, ByDevice, TInv, TypeOK,
         DeviceType
  <2>2. \A b \in Clients : Still(b)
      BY <1>1, PlainChange DEF Plain, TInv
  <2>3. SecretInv'
      BY <1>3, <2>1, <2>2, StillSecret DEF LInv
  <2>q. QED
      BY <1>4, <2>3 DEF LInv
<1>6. CASE req[c].op = "approve"
  <2>1. x \in Secrets /\ ByRequest(c, x)
      BY <1>6 DEF SaveDevice, ByRequest, Carries, TInv, RequestsSound, Sound
  <2>2. /\ owner[x] # None /\ delivered[x] = 0
        /\ \A b \in Clients : ByRequest(b, x) => b = c
        /\ \A d \in Devices : ~ByDevice(d, x)
      BY <2>1 DEF LInv, SecretInv
  <2>3. \A b \in Clients, y \in Secrets :
          ByRequest(b, y)' => ByRequest(b, y) /\ b # c
      BY <1>1 DEF ByRequest, TInv, TypeOK
  <2>4. \A d \in Devices, y \in Secrets :
          ByDevice(d, y)' => (d = d0 /\ y = x) \/ (d # d0 /\ ByDevice(d, y))
      BY <1>6, <1>2 DEF SaveDevice, ByDevice, TInv, TypeOK, DeviceType
  <2> HIDE DEF x, d0
  <2>5. SecretInv'
      BY <1>2, <1>3, <2>1, <2>2, <2>3, <2>4 DEF LInv, SecretInv, DeliveredOnce
  <2>q. QED
      BY <1>4, <2>5 DEF LInv
<1>q. QED
    BY <1>5, <1>6 DEF SaveDevice

LEMMA ClaimKeeps ==
    ASSUME TInv, TInv', LInv, NEW d \in Devices, ClaimToken(d)
    PROVE  LInv'
<1>1. UNCHANGED <<code, events, owner, spent, done, req>>
    BY DEF ClaimToken
<1>2. \A b \in Clients : Still(b)
    BY <1>1 DEF Still
<1>3. device[d] \in DeviceType /\ device[d].token \in Secrets
    BY DEF ClaimToken, TInv, TypeOK, DeviceType
<1>4. \A e \in Devices, y \in Secrets :
        ByDevice(e, y)' => e # d /\ ByDevice(e, y)
    BY <1>3, PeopleAssumption DEF ClaimToken, ByDevice, TInv, TypeOK, DeviceType
<1>5. NoNewCopy
    BY <1>4 DEF NoNewCopy
<1>6. SpentInv'
    BY <1>1, <1>2, StillSpent, Memory DEF LInv, TInv
<1>7. LogInv'
  <2>1. \A k \in Logged, u \in People : Awaited(k, u)' \subseteq Awaited(k, u)
      BY <1>2, StillAwaited
  <2>q. QED
      BY <1>1, <2>1, Memory, FewerAwaited DEF LInv, TInv
<1>8. SecretInv'
  <2>1. CASE device[d].state # "complete"
      BY <1>1, <1>2, <1>5, <2>1, StillSecret DEF ClaimToken, LInv
  <2>2. CASE device[d].state = "complete"
    <3>0. PICK x \in Secrets : x = device[d].token
        BY <1>3
    <3>1. /\ owner[x] # None /\ delivered[x] = 0
          /\ \A e \in Devices : ByDevice(e, x) => e = d
          /\ \A b \in Clients : ~ByRequest(b, x)
        BY <3>0, <2>2 DEF LInv, SecretInv, ByDevice
    <3>2. delivered' = [delivered EXCEPT ![x] = @ + 1]
        BY <3>0, <2>2 DEF ClaimToken
    <3>3. OldRequests /\ \A b \in Clients : ~ByRequest(b, x)'
        BY <1>1, <3>1 DEF OldRequests, ByRequest
    <3>4. \A e \in Devices : ~ByDevice(e, x)'
        BY <1>4, <3>1
    <3>q. QED
        BY <1>1, <1>5, <3>1, <3>2, <3>3, <3>4, HandedOut DEF LInv, TInv
  <2>q. QED
      BY <2>1, <2>2
<1>q. QED
    BY <1>6, <1>7, <1>8 DEF LInv

-----------------------------------------------------------------------------

LEMMA InitLogged == Init => LInv
<1> SUFFICES ASSUME Init PROVE LInv
    OBVIOUS
<1>1. \A c \in Clients : Plain(req[c])
    BY PlainIdle DEF Init
<1>2. SpentInv
    BY <1>1 DEF Init, SpentInv, CodeIsSpent, Plain
<1>3. TypeOK
    BY InitTyped DEF TInv
<1>4. SecretInv
  <2>1. \A c \in Clients, x \in Secrets : ~ByRequest(c, x)
      BY <1>1 DEF Plain, ByRequest
  <2>2. \A d \in Devices, x \in Secrets : ~ByDevice(d, x)
      BY DEF Init, ByDevice, NoDevice
  <2>3. \A x \in Secrets : /\ delivered[x] <= 1
                           /\ owner[x] = None => delivered[x] = 0
      BY DEF Init
  <2>q. QED
      BY <2>1, <2>2, <2>3 DEF SecretInv, DeliveredOnce
<1>5. LogInv
  <2> SUFFICES ASSUME NEW k \in Logged, NEW u \in People
               PROVE  done[k][u] + Cardinality(Awaited(k, u)) <= events[k][u]
      BY DEF LogInv
  <2>1. Awaited(k, u) = {}
      BY <1>1 DEF Awaited, Plain
  <2>2. Cardinality(Awaited(k, u)) = 0
      BY <2>1, FS_EmptySet
  <2>3. done[k][u] = events[k][u] /\ events[k][u] \in Nat
      BY <1>3, CountsAreNat DEF Init
  <2>q. QED
      BY <2>2, <2>3
<1>q. QED
    BY <1>2, <1>4, <1>5 DEF LInv

LEMMA StepLogged == TInv /\ LInv /\ [Next]_vars => LInv'
<1> SUFFICES ASSUME TInv, LInv, [Next]_vars PROVE LInv'
    OBVIOUS
<1>0. TInv'
    BY StepTyped
<1>1. CASE LogIn
    BY <1>0, <1>1, DiscordKeeps, CallbackKeeps, FetchKeeps, StoreKeeps,
       CommitLoginKeeps DEF LogIn
<1>2. CASE EndSessions
    BY <1>0, <1>2, HandleLogoutKeeps, RevokeSessionKeeps,
       DeleteUserSessionsKeeps, UserBanKeeps, NukeSessionTableKeeps
       DEF EndSessions
<1>3. CASE ServeApps
    BY <1>0, <1>3, SetClientAppSecretKeeps, ClientCredentialsKeeps,
       HandleOauthAuthorizeKeeps, DeviceKeeps DEF ServeApps
<1>4. CASE Answering
    BY <1>0, <1>4, ExchangeCodeKeeps, HandleOauthDeviceResponseKeeps, GenKeeps,
       SaveCodeKeeps, SaveDeviceKeeps, CommitEventKeeps, EmitEventKeeps,
       CommitChangeKeeps DEF Answering
<1>5. CASE UNCHANGED vars
  <2>1. /\ UNCHANGED <<code, device, events, owner, delivered, spent, done, req>>
        /\ \A c \in Clients : Still(c)
      BY <1>5 DEF vars, Still
  <2>q. QED
      BY <1>0, <2>1, Memory, QuietStep DEF TInv
<1>q. QED
    BY <1>0, <1>1, <1>2, <1>3, <1>4, <1>5, ClaimKeeps, ExpireKeeps, FailKeeps,
       RestartKeeps DEF Next

\* Every login, logout, revocation and change of a client's secret that is
\* committed in MariaDB has its event in PostgreSQL.
THEOREM EveryChangeLogged == Spec => []LoginsAreLogged
<1>1. TInv /\ LInv => LoginsAreLogged
  <2> SUFFICES ASSUME TInv, LInv, NEW k \in Logged, NEW u \in People
               PROVE  done[k][u] <= events[k][u]
      BY DEF LoginsAreLogged
  <2>1. /\ done[k][u] \in Nat /\ events[k][u] \in Nat
        /\ done[k][u] + Cardinality(Awaited(k, u)) <= events[k][u]
      BY CountsAreNat DEF LInv, LogInv, TInv
  <2>q. QED
      BY <2>1, AwaitedFinite
<1>q. QED
    BY <1>1, InitTyped, StepTyped, InitLogged, StepLogged, PTL DEF Spec

\* Once an exchange is answered, none that comes later makes a session.
THEOREM CodesSpentOnce == Spec => []CodeIsSpent
<1>1. LInv => CodeIsSpent
    BY DEF LInv, SpentInv
<1>q. QED
    BY <1>1, InitTyped, StepTyped, InitLogged, StepLogged, PTL DEF Spec

\* A session's secret is handed out at most once.
THEOREM SecretsDeliveredOnce == Spec => []DeliveredOnce
<1>1. LInv => DeliveredOnce
    BY DEF LInv, SecretInv
<1>q. QED
    BY <1>1, InitTyped, StepTyped, InitLogged, StepLogged, PTL DEF Spec
=============================================================================
