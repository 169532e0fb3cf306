--------------------------------- MODULE Logins ---------------------------------
(***************************************************************************)
(* The login tokens of the logic server: issuing, checking and refreshing   *)
(* them (logicserver/logic/auth.go, repo/token.go, pkg/jwt/jwt.go).         *)
(*                                                                         *)
(* A token is a signed claim of a user and of the second in which it        *)
(* expires, and nothing else: two tokens signed for a user in one second     *)
(* are the same token.  Redis holds a session for each access token, which  *)
(* names a refresh token, and one for each refresh token (a third key, by    *)
(* user, is written but never read and left out).  They expire by           *)
(* the clock of Redis, counted from when they are saved, in finer steps     *)
(* than seconds.  Time passes between any two steps of a request.           *)
(*                                                                         *)
(* Passwords and malformed or forged tokens are left out: they are refused  *)
(* without a change of state.                                              *)
(***************************************************************************)
EXTENDS Integers

CONSTANTS Device,        \* clients, each of which keeps one pair of tokens
          User,
          UserOf,        \* the user that logs in from a device
          Second,        \* steps of the clock in a second
          TokenExpire,   \* seconds an access token is good for
          RefreshExpire, \* seconds a refresh token is good for
          Faults,        \* whether commands of Redis may fail
          MaxTime,       \* bound: the clock stops there
          None           \* no token, no session

ASSUME LoginsAssumption ==
  /\ UserOf \in [Device -> User]
  /\ Second \in Nat \ {0}
  /\ TokenExpire \in Nat \ {0}
  /\ RefreshExpire \in Nat \ {0}
  /\ Faults \in BOOLEAN
  /\ MaxTime \in Nat
  /\ LET token == [user : User, exp : Nat]
     IN None \notin [access : token, refresh : token]
                     \cup [refresh : token, until : Nat] \cup [until : Nat]

VARIABLES
  now,
  access,    \* Redis, by access token: the refresh token it names, its end
  refresh,   \* Redis, by refresh token: its end
  pair,      \* the tokens each device was given last
  good,      \* history: until when the tokens of the pair are promised
  request,   \* what the server is doing for each device
  answer     \* the last answer to VerifyToken for each device

store == <<access, refresh>>
client == <<pair, good, answer>>
vars == <<now, store, client, request>>

Sec(t) == t \div Second
Token == [user : User, exp : 0..(Sec(MaxTime) + TokenExpire + RefreshExpire)]
Idle == [op |-> "idle"]

\* ParseToken: a token is good through the second in which it expires.
Parses(token) == Sec(now) <= token.exp

\* Redis forgets a key when its time is up.
Known(session) == session # None /\ now < session.until

TypeOK ==
  /\ now \in 0..MaxTime
  /\ access \in [Token -> [refresh : Token, until : Nat] \cup {None}]
  /\ refresh \in [Token -> [until : Nat] \cup {None}]
  /\ pair \in [Device -> [access : Token, refresh : Token] \cup {None}]
  /\ good \in [Device -> [access : Nat, refresh : Nat]]
  /\ answer \in [Device -> {"none", "ok", "refused"}]

Init ==
  /\ now = 0
  /\ access = [t \in Token |-> None]
  /\ refresh = [t \in Token |-> None]
  /\ pair = [d \in Device |-> None]
  /\ good = [d \in Device |-> [access |-> 0, refresh |-> 0]]
  /\ request = [d \in Device |-> Idle]
  /\ answer = [d \in Device |-> "none"]

Do(d, next) == request' = [request EXCEPT ![d] = next]
At(d, op) == request[d].op = op

Pass ==
  /\ now < MaxTime
  /\ now' = now + 1
  /\ UNCHANGED <<store, client, request>>

-----------------------------------------------------------------------------
(* Register and Login, once the user is known: issueLoginTokens.           *)

AccessTokenRoundedUp(u) == [user |-> u, exp |-> Sec(now) + TokenExpire + 1]
AccessToken(u) == [user |-> u, exp |-> Sec(now) + TokenExpire]
RefreshToken(u) == [user |-> u, exp |-> Sec(now) + RefreshExpire]

\* GenerateToken reads the clock for each of the two tokens.
SignAccess(d) ==
  /\ At(d, "idle")
  /\ Do(d, [op |-> "sign", access |-> AccessToken(UserOf[d])])
  /\ UNCHANGED <<now, store, client>>

SignRefresh(d) ==
  /\ At(d, "sign")
  /\ Do(d, [op |-> "save", access |-> request[d].access,
            refresh |-> RefreshToken(UserOf[d])])
  /\ UNCHANGED <<now, store, client>>

\* What Redis keeps of an access token: overwritten when it is there already.
AccessSession(a, r) == [refresh |-> r, until |-> now + TokenExpire * Second]

\* SaveLoginTokens, a transaction.
SaveBoth(d) ==
  LET a == request[d].access
      r == request[d].refresh
  IN /\ access' = [access EXCEPT ![a] = AccessSession(a, r)]
     /\ refresh' = [refresh EXCEPT ![r] = [until |-> now + RefreshExpire * Second]]

\* The device is given the tokens that were saved, the refresh token as a new
\* one or, by SaveAccessToken, as before.
Give(d, until) ==
  /\ pair' = [pair EXCEPT ![d] = [access |-> request[d].access,
                                  refresh |-> request[d].refresh]]
  /\ good' = [good EXCEPT ![d] = [access |-> now + TokenExpire * Second,
                                  refresh |-> until]]
  /\ Do(d, Idle)

SaveLoginTokens(d) ==
  /\ At(d, "save")
  /\ SaveBoth(d)
  /\ Give(d, now + RefreshExpire * Second)
  /\ UNCHANGED <<now, answer>>

GiveUnsaved(d) == Give(d, now + RefreshExpire * Second)
\* A failed save ends the request with an error, and the device keeps what it has.
GiveNothing(d) == Do(d, Idle) /\ UNCHANGED <<pair, good>>

\* The save may have been applied all the same.
SaveLoginTokensFails(d) ==
  /\ Faults /\ At(d, "save")
  /\ SaveBoth(d) \/ UNCHANGED store
  /\ GiveNothing(d)
  /\ UNCHANGED <<now, answer>>

-----------------------------------------------------------------------------
(* VerifyToken, with the pair that the device has.                         *)

Answer(d, a) == answer' = [answer EXCEPT ![d] = a] /\ Do(d, Idle)

\* An access token that has not expired is looked up, otherwise a new one is
\* made from the refresh token.
VerifyToken(d) ==
  /\ At(d, "idle")
  /\ pair[d] # None
  /\ Do(d, [op |-> IF Parses(pair[d].access) THEN "lookup" ELSE "renew"])
  /\ answer' = [answer EXCEPT ![d] = "none"]
  /\ UNCHANGED <<now, store, pair, good>>

\* verifyActiveAccessToken and GetAccessSession: a lookup that fails is a refusal
\* like any other.
VerifyActive(d) ==
  LET session == access[pair[d].access] IN
  /\ At(d, "lookup")
  /\ \/ Answer(d, IF Known(session) /\ session.refresh = pair[d].refresh
                  THEN "ok" ELSE "refused")
     \/ Faults /\ Answer(d, "refused")
  /\ UNCHANGED <<now, store, pair, good>>

\* refreshAccessToken, GetRefreshSession.
GetRefreshSession(d) ==
  /\ At(d, "renew")
  /\ \/ /\ Known(refresh[pair[d].refresh])
        /\ Do(d, [op |-> "resign"])
        /\ UNCHANGED answer
     \/ /\ ~Known(refresh[pair[d].refresh]) \/ Faults
        /\ Answer(d, "refused")
  /\ UNCHANGED <<now, store, pair, good>>

\* RefreshAccessToken signs a new token for the user of the refresh token.
RefreshAccessToken(d) ==
  /\ At(d, "resign")
  /\ \/ /\ Parses(pair[d].refresh)
        /\ Do(d, [op |-> "resave", access |-> AccessToken(UserOf[d]),
                  refresh |-> pair[d].refresh])
        /\ UNCHANGED answer
     \/ /\ ~Parses(pair[d].refresh)
        /\ Answer(d, "refused")
  /\ UNCHANGED <<now, store, pair, good>>

\* SaveAccessToken, a transaction.
SaveOne(d) ==
  LET a == request[d].access
  IN /\ access' = [access EXCEPT ![a] = AccessSession(a, request[d].refresh)]
     /\ UNCHANGED refresh

SaveAccessToken(d) ==
  /\ At(d, "resave")
  /\ SaveOne(d)
  /\ Give(d, good[d].refresh)
  /\ answer' = [answer EXCEPT ![d] = "ok"]
  /\ UNCHANGED now

SaveAccessTokenFails(d) ==
  /\ Faults /\ At(d, "resave")
  /\ SaveOne(d) \/ UNCHANGED store
  /\ GiveNothing(d)
  /\ UNCHANGED <<now, answer>>

-----------------------------------------------------------------------------
Next ==
  \/ Pass
  \/ \E d \in Device :
       \/ SignAccess(d) \/ SignRefresh(d)
       \/ SaveLoginTokens(d) \/ SaveLoginTokensFails(d)
       \/ VerifyToken(d) \/ VerifyActive(d)
       \/ GetRefreshSession(d) \/ RefreshAccessToken(d)
       \/ SaveAccessToken(d) \/ SaveAccessTokenFails(d)

Spec == Init /\ [][Next]_vars

-----------------------------------------------------------------------------
(* Properties.                                                             *)

\* The comment in issueLoginTokens: the server can check what it gives to a
\* client.  Redis knows the tokens a device was given last until their time is
\* up, whichever saves fail and whoever else logs in as the same user, also when
\* that saves the same tokens again.
GivenIsKnown ==
  \A d \in Device :
    /\ now < good[d].access => pair[d] # None /\ Known(access[pair[d].access])
    /\ now < good[d].refresh => pair[d] # None /\ Known(refresh[pair[d].refresh])

\* Tokens count whole seconds and sessions the clock of Redis: until the second
\* in which a token that was given out expires, its session is there.  Between the
\* two ends an access token parses that has no session, and is refused although
\* the refresh token is good (VerifyToken looks for no other way): that happens in
\* its last second only, whoever signs and saves the same token again.
KnownToTheLast ==
  \A d \in Device : pair[d] # None =>
    /\ Sec(now) < pair[d].access.exp => Known(access[pair[d].access])
    /\ Sec(now) < pair[d].refresh.exp => Known(refresh[pair[d].refresh])

\* The same comment: a device that shows the pair it was given is not refused
\* before the last second of its access token (verifyActiveAccessToken).
PairAccepted ==
  [][\A d \in Device :
       At(d, "lookup") /\ answer'[d] = "refused" =>
         Sec(now) >= pair[d].access.exp]_vars
=============================================================================
