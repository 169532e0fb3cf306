---------------------------- MODULE LoginsProofs ----------------------------
(***************************************************************************)
(* Theorems about the login tokens of any number of devices and users, for   *)
(* every length of a second and of the tokens' lives.                       *)
(***************************************************************************)
EXTENDS Logins, TLAPS

\* How long a session of Redis lasts.
AccessLife == TokenExpire * Second
RefreshLife == RefreshExpire * Second

\* A token ends within the life of a session that begins now.
DueAccess(token) == token.exp * Second <= now + AccessLife
DueRefresh(token) == token.exp * Second <= now + RefreshLife

Requests ==
  [op : {"idle", "lookup", "renew", "resign"}]
    \cup [op : {"sign"}, access : Token]
    \cup [op : {"save", "resave"}, access : Token, refresh : Token]

Typed ==
  /\ TypeOK
  /\ request \in [Device -> Requests]

\* A session saved now outlasts every other one.
Newest ==
  /\ \A t \in Token : access[t] # None => access[t].until <= now + AccessLife
  /\ \A t \in Token : refresh[t] # None => refresh[t].until <= now + RefreshLife

\* The sessions of the pair that a device has end neither before what it was
\* promised nor before the seconds its tokens name.
Held(d) ==
  /\ pair[d] = None => good[d].access = 0 /\ good[d].refresh = 0
  /\ pair[d] # None =>
       /\ access[pair[d].access] # None
       /\ good[d].access <= access[pair[d].access].until
       /\ pair[d].access.exp * Second <= access[pair[d].access].until
       /\ refresh[pair[d].refresh] # None
       /\ good[d].refresh <= refresh[pair[d].refresh].until
       /\ pair[d].refresh.exp * Second <= refresh[pair[d].refresh].until

\* What a request will save, and that a refresh is of the pair the device has.
Pending(d) ==
  /\ At(d, "sign") => DueAccess(request[d].access)
  /\ At(d, "save") => DueAccess(request[d].access) /\ DueRefresh(request[d].refresh)
  /\ request[d].op \in {"lookup", "renew", "resign", "resave"} => pair[d] # None
  /\ At(d, "resave") => /\ DueAccess(request[d].access)
                        /\ request[d].refresh = pair[d].refresh

LoginsInv == Typed /\ Newest /\ \A d \in Device : Held(d) /\ Pending(d)

-----------------------------------------------------------------------------
LEMMA Lives ==
  ASSUME LoginsAssumption
  PROVE  AccessLife \in Nat /\ RefreshLife \in Nat
BY DEF LoginsAssumption, AccessLife, RefreshLife

\* Whole seconds grow with the time and are cut off.
LEMMA SecFacts ==
  ASSUME LoginsAssumption, NEW a \in Nat, NEW b \in Nat, a <= b
  PROVE  Sec(a) \in Nat /\ Sec(b) \in Nat /\ Sec(a) <= Sec(b) /\ Sec(a) * Second <= a
<1> DEFINE x == a \div Second
           y == b \div Second
<1>1. Second \in Nat \ {0}
  BY DEF LoginsAssumption
<1>2. x \in Int /\ y \in Int
  BY <1>1
<1>3. /\ Second * x <= a /\ a < Second * x + Second
      /\ Second * y <= b /\ b < Second * y + Second
  BY <1>1
<1> HIDE DEF x, y
<1>4. x <= y
  <2> SUFFICES ASSUME x >= y + 1 PROVE FALSE
    BY <1>2
  <2>1. Second * x >= Second * (y + 1)
    BY <1>1, <1>2
  <2>2. Second * (y + 1) = Second * y + Second
    BY <1>1, <1>2
  <2> QED
    BY <1>1, <1>2, <1>3, <2>1, <2>2
<1>5. ASSUME NEW z \in Int, NEW n \in Nat, n < Second * z + Second
      PROVE  z >= 0
  <2> SUFFICES ASSUME z + 1 <= 0 PROVE FALSE
    BY <1>5
  <2>1. Second * (z + 1) <= 0
    BY <1>1
  <2>2. Second * (z + 1) = Second * z + Second
    BY <1>1
  <2> QED
    BY <1>1, <1>5, <2>1, <2>2
<1>6. x >= 0 /\ y >= 0
  BY <1>2, <1>3, <1>5
<1>7. x * Second = Second * x
  BY <1>1, <1>2
<1> QED
  BY <1>2, <1>3, <1>4, <1>6, <1>7 DEF Sec, x, y

\* A token that is signed is one of Token and due.
LEMMA SignedAccess ==
  ASSUME LoginsAssumption, now \in 0..MaxTime, NEW d \in Device
  PROVE  AccessToken(UserOf[d]) \in Token /\ DueAccess(AccessToken(UserOf[d]))
<1> DEFINE x == Sec(now)
<1>1. /\ MaxTime \in Nat /\ now \in Nat /\ now <= MaxTime
      /\ TokenExpire \in Nat /\ RefreshExpire \in Nat /\ Second \in Nat
      /\ UserOf[d] \in User
  BY DEF LoginsAssumption
<1>2. x \in Nat /\ Sec(MaxTime) \in Nat /\ x <= Sec(MaxTime) /\ x * Second <= now
  BY <1>1, SecFacts
<1> HIDE DEF x
<1>3. (x + TokenExpire) * Second = x * Second + TokenExpire * Second
  BY <1>1, <1>2
<1>4. x * Second \in Nat /\ TokenExpire * Second \in Nat
  BY <1>1, <1>2
<1>5. AccessToken(UserOf[d]) = [user |-> UserOf[d], exp |-> x + TokenExpire]
  BY DEF AccessToken, x
<1>6. (x + TokenExpire) * Second <= now + TokenExpire * Second
  BY <1>1, <1>2, <1>3, <1>4
<1> QED
  BY <1>1, <1>2, <1>5, <1>6 DEF Token, DueAccess, AccessLife

LEMMA SignedRefresh ==
  ASSUME LoginsAssumption, now \in 0..MaxTime, NEW d \in Device
  PROVE  RefreshToken(UserOf[d]) \in Token /\ DueRefresh(RefreshToken(UserOf[d]))
<1> DEFINE x == Sec(now)
<1>1. /\ MaxTime \in Nat /\ now \in Nat /\ now <= MaxTime
      /\ TokenExpire \in Nat /\ RefreshExpire \in Nat /\ Second \in Nat
      /\ UserOf[d] \in User
  BY DEF LoginsAssumption
<1>2. x \in Nat /\ Sec(MaxTime) \in Nat /\ x <= Sec(MaxTime) /\ x * Second <= now
  BY <1>1, SecFacts
<1> HIDE DEF x
<1>3. (x + RefreshExpire) * Second = x * Second + RefreshExpire * Second
  BY <1>1, <1>2
<1>4. x * Second \in Nat /\ RefreshExpire * Second \in Nat
  BY <1>1, <1>2
<1>5. RefreshToken(UserOf[d]) = [user |-> UserOf[d], exp |-> x + RefreshExpire]
  BY DEF RefreshToken, x
<1>6. (x + RefreshExpire) * Second <= now + RefreshExpire * Second
  BY <1>1, <1>2, <1>3, <1>4
<1> QED
  BY <1>1, <1>2, <1>5, <1>6 DEF Token, DueRefresh, RefreshLife

-----------------------------------------------------------------------------
(* What is saved takes nothing away.                                       *)

\* No session ends earlier than before.
Grows ==
  /\ \A t \in Token : access[t] # None =>
       access'[t] # None /\ access[t].until <= access'[t].until
  /\ \A t \in Token : refresh[t] # None =>
       refresh'[t] # None /\ refresh[t].until <= refresh'[t].until

StoreTyped ==
  /\ access \in [Token -> [refresh : Token, until : Nat] \cup {None}]
  /\ refresh \in [Token -> [until : Nat] \cup {None}]

LEMMA TokenHasSecond == Token \subseteq [user : User, exp : Nat]
BY DEF Token

LEMMA SessionIsNotNone ==
  ASSUME LoginsAssumption
  PROVE  /\ \A s \in [refresh : Token, until : Nat] : s # None
         /\ \A s \in [until : Nat] : s # None
         /\ \A s \in [access : Token, refresh : Token] : s # None
<1>1. [refresh : Token, until : Nat] \subseteq [refresh : [user : User, exp : Nat], until : Nat]
  BY TokenHasSecond
<1>2. [access : Token, refresh : Token]
        \subseteq [access : [user : User, exp : Nat], refresh : [user : User, exp : Nat]]
  BY TokenHasSecond
<1> QED
  BY <1>1, <1>2 DEF LoginsAssumption

LEMMA SaveOneGrows ==
  ASSUME LoginsAssumption, Typed, Newest, NEW d \in Device,
         request[d].op \in {"save", "resave"}, UNCHANGED now,
         access' = [access EXCEPT ![request[d].access] =
                      AccessSession(request[d].access, request[d].refresh)]
  PROVE  /\ access' \in [Token -> [refresh : Token, until : Nat] \cup {None}]
         /\ \A t \in Token : access'[t] # None => access'[t].until <= now + AccessLife
         /\ \A t \in Token : access[t] # None =>
              access'[t] # None /\ access[t].until <= access'[t].until
         /\ access'[request[d].access] # None
         /\ access'[request[d].access].until = now + AccessLife
<1> DEFINE a == request[d].access
           new == AccessSession(a, request[d].refresh)
<1>1. a \in Token /\ request[d].refresh \in Token
  BY DEF Typed, Requests
<1>2. now \in Nat /\ AccessLife \in Nat
  BY Lives DEF Typed, TypeOK, LoginsAssumption
<1>3. new \in [refresh : Token, until : Nat] /\ new.until = now + AccessLife
  BY <1>1, <1>2 DEF AccessSession, AccessLife
<1>4. new # None
  BY <1>3, SessionIsNotNone
<1> HIDE DEF new
<1>5. access' = [access EXCEPT ![a] = new]
  BY DEF new
<1> QED
  BY <1>1, <1>2, <1>3, <1>4, <1>5 DEF Typed, TypeOK, Newest

LEMMA SaveBothGrows ==
  ASSUME LoginsAssumption, Typed, Newest, NEW d \in Device,
         At(d, "save"), UNCHANGED now, SaveBoth(d)
  PROVE  /\ StoreTyped' /\ Newest' /\ Grows
         /\ access'[request[d].access] # None
         /\ access'[request[d].access].until = now + AccessLife
         /\ refresh'[request[d].refresh] # None
         /\ refresh'[request[d].refresh].until = now + RefreshLife
<1> DEFINE r == request[d].refresh
           new == [until |-> now + RefreshLife]
<1>1. /\ access' \in [Token -> [refresh : Token, until : Nat] \cup {None}]
      /\ \A t \in Token : access'[t] # None => access'[t].until <= now + AccessLife
      /\ \A t \in Token : access[t] # None =>
           access'[t] # None /\ access[t].until <= access'[t].until
      /\ access'[request[d].access] # None
      /\ access'[request[d].access].until = now + AccessLife
  BY SaveOneGrows DEF SaveBoth, At
<1>2. r \in Token
  BY DEF Typed, Requests, At
<1>3. now \in Nat /\ RefreshLife \in Nat
  BY Lives DEF Typed, TypeOK, LoginsAssumption
<1>4. new \in [until : Nat] /\ new.until = now + RefreshLife
  BY <1>3
<1>5. new # None
  BY <1>4, SessionIsNotNone
<1>6. refresh' = [refresh EXCEPT ![r] = new]
  BY DEF SaveBoth, RefreshLife
<1> HIDE DEF new
<1>7. /\ refresh' \in [Token -> [until : Nat] \cup {None}]
      /\ \A t \in Token : refresh'[t] # None => refresh'[t].until <= now + RefreshLife
      /\ \A t \in Token : refresh[t] # None =>
           refresh'[t] # None /\ refresh[t].until <= refresh'[t].until
      /\ refresh'[r] # None /\ refresh'[r].until = now + RefreshLife
  BY <1>2, <1>3, <1>4, <1>5, <1>6 DEF Typed, TypeOK, Newest
<1> QED
  BY <1>1, <1>7 DEF StoreTyped, Newest, Grows, AccessLife, RefreshLife

\* A save, applied or not, keeps what every device holds; its own pair aside.
LEMMA HeldKept ==
  ASSUME LoginsAssumption, LoginsInv, StoreTyped', Grows, NEW d \in Device,
         pair'[d] = pair[d], good'[d] = good[d]
  PROVE  Held(d)'
<1>1. CASE pair[d] = None
  BY <1>1 DEF LoginsInv, Held
<1>2. CASE pair[d] # None
  <2> DEFINE a == pair[d].access
             r == pair[d].refresh
  <2>1. a \in Token /\ r \in Token
    BY <1>2 DEF LoginsInv, Typed, TypeOK
  <2>2. /\ access[a] # None /\ access'[a] # None
        /\ refresh[r] # None /\ refresh'[r] # None
        /\ access[a].until <= access'[a].until
        /\ refresh[r].until <= refresh'[r].until
    BY <1>2, <2>1 DEF LoginsInv, Held, Grows
  <2>3. /\ access[a].until \in Nat /\ access'[a].until \in Nat
        /\ refresh[r].until \in Nat /\ refresh'[r].until \in Nat
    BY <2>1, <2>2 DEF LoginsInv, Typed, TypeOK, StoreTyped
  <2>4. /\ good[d].access \in Nat /\ good[d].refresh \in Nat
        /\ a.exp * Second \in Nat /\ r.exp * Second \in Nat
    BY <2>1, TokenHasSecond DEF LoginsInv, Typed, TypeOK, LoginsAssumption
  <2> QED
    BY <1>2, <2>2, <2>3, <2>4 DEF LoginsInv, Held
<1> QED
  BY <1>1, <1>2

-----------------------------------------------------------------------------
(* The steps.                                                              *)

\* Due tokens stay due while time passes; while it does not, a request depends on
\* itself and the pair of its device alone.
LEMMA PendingKept ==
  ASSUME LoginsAssumption, LoginsInv, NEW d \in Device,
         now' \in Nat, now <= now', request'[d] = request[d], pair'[d] = pair[d]
  PROVE  Pending(d)'
<1>1. /\ now \in Nat /\ AccessLife \in Nat /\ RefreshLife \in Nat /\ Second \in Nat
  BY Lives DEF LoginsInv, Typed, TypeOK, LoginsAssumption
<1>2. ASSUME NEW t \in Token
      PROVE  (DueAccess(t) => DueAccess(t)') /\ (DueRefresh(t) => DueRefresh(t)')
  <2>1. t.exp * Second \in Nat
    BY <1>1, TokenHasSecond
  <2> QED
    BY <1>1, <2>1 DEF DueAccess, DueRefresh, AccessLife, RefreshLife
<1>3. request[d] \in Requests /\ Pending(d)
  BY DEF LoginsInv, Typed
<1>4. /\ At(d, "sign") => request[d].access \in Token
      /\ request[d].op \in {"save", "resave"} =>
           request[d].access \in Token /\ request[d].refresh \in Token
  BY <1>3 DEF Requests, At
<1> QED
  BY <1>2, <1>3, <1>4 DEF Pending, At

LEMMA PassKeeps ==
  ASSUME LoginsAssumption, LoginsInv, Pass
  PROVE  LoginsInv'
<1>1. /\ now' = now + 1 /\ now' \in 0..MaxTime /\ now \in Nat /\ now' \in Nat
      /\ UNCHANGED <<access, refresh, pair, good, answer, request>>
  BY DEF Pass, store, client, LoginsInv, Typed, TypeOK, LoginsAssumption
<1>2. Typed'
  BY <1>1 DEF LoginsInv, Typed, TypeOK
<1>3. Newest'
  <2>1. AccessLife \in Nat /\ RefreshLife \in Nat
    BY Lives
  <2>2. /\ \A t \in Token : access[t] # None => access[t].until \in Nat
        /\ \A t \in Token : refresh[t] # None => refresh[t].until \in Nat
    BY DEF LoginsInv, Typed, TypeOK
  <2> QED
    BY <1>1, <2>1, <2>2 DEF LoginsInv, Newest, AccessLife, RefreshLife
<1>4. \A d \in Device : Held(d)'
  BY <1>1 DEF LoginsInv, Held
<1>5. \A d \in Device : Pending(d)'
  BY <1>1, PendingKept
<1> QED
  BY <1>2, <1>3, <1>4, <1>5 DEF LoginsInv

\* Every other step: what it asks of the request and of the device it is about.
LEMMA StepKeeps ==
  ASSUME LoginsAssumption, LoginsInv, UNCHANGED now,
         StoreTyped', Newest', Grows,
         pair' \in [Device -> [access : Token, refresh : Token] \cup {None}],
         good' \in [Device -> [access : Nat, refresh : Nat]],
         answer' \in [Device -> {"none", "ok", "refused"}],
         NEW d \in Device, NEW next \in Requests, Do(d, next),
         \A e \in Device \ {d} : pair'[e] = pair[e] /\ good'[e] = good[e],
         Held(d)', Pending(d)'
  PROVE  LoginsInv'
<1>1. request' = [request EXCEPT ![d] = next] /\ request \in [Device -> Requests]
  BY DEF Do, LoginsInv, Typed
<1>2. Requests' = Requests
  BY DEF Requests, Token
<1>3. Typed'
  <2>1. request' \in [Device -> Requests]
    BY <1>1
  <2>2. TypeOK'
    BY DEF LoginsInv, Typed, TypeOK, StoreTyped
  <2> QED
    BY <1>2, <2>1, <2>2 DEF Typed
<1>4. now \in Nat /\ now' = now
  BY DEF LoginsInv, Typed, TypeOK, LoginsAssumption
<1>5. ASSUME NEW e \in Device \ {d}
      PROVE  Held(e)' /\ Pending(e)'
  <2>1. request'[e] = request[e]
    BY <1>1
  <2>2. Held(e)'
    BY HeldKept
  <2>3. Pending(e)'
    BY <1>4, <2>1, PendingKept
  <2> QED
    BY <2>2, <2>3
<1> QED
  BY <1>3, <1>5 DEF LoginsInv

\* Steps that leave Redis and the device's pair alone.
LEMMA QuietKeeps ==
  ASSUME LoginsAssumption, LoginsInv, UNCHANGED <<now, store, pair, good>>,
         answer' \in [Device -> {"none", "ok", "refused"}],
         NEW d \in Device, NEW next \in Requests, Do(d, next), Pending(d)'
  PROVE  LoginsInv'
<1>1. UNCHANGED <<now, access, refresh, pair, good>>
  BY DEF store
<1>2. StoreTyped' /\ Newest'
  BY <1>1 DEF LoginsInv, Typed, TypeOK, StoreTyped, Newest, AccessLife, RefreshLife
<1>3. Grows
  <2>1. /\ \A t \in Token : access[t] # None => access[t].until \in Nat
        /\ \A t \in Token : refresh[t] # None => refresh[t].until \in Nat
    BY DEF LoginsInv, Typed, TypeOK
  <2> QED
    BY <1>1, <2>1 DEF Grows
<1>4. Held(d)'
  BY <1>1 DEF LoginsInv, Held
<1>5. /\ pair' \in [Device -> [access : Token, refresh : Token] \cup {None}]
      /\ good' \in [Device -> [access : Nat, refresh : Nat]]
  BY <1>1 DEF LoginsInv, Typed, TypeOK
<1> QED
  BY <1>1, <1>2, <1>3, <1>4, <1>5, StepKeeps

\* A request that ends leaves nothing pending.
LEMMA IdlePending ==
  ASSUME LoginsInv, NEW d \in Device, Do(d, Idle)
  PROVE  Idle \in Requests /\ Pending(d)'
<1>1. request'[d] = Idle
  BY DEF Do, LoginsInv, Typed
<1> QED
  BY <1>1 DEF Idle, Pending, At, Requests

LEMMA SignKeeps ==
  ASSUME LoginsAssumption, LoginsInv, NEW d \in Device, SignAccess(d) \/ SignRefresh(d)
  PROVE  LoginsInv'
<1>1. /\ now \in 0..MaxTime /\ request[d] \in Requests
      /\ UNCHANGED <<now, store, pair, good, answer>>
      /\ answer' \in [Device -> {"none", "ok", "refused"}]
  BY DEF LoginsInv, Typed, TypeOK, SignAccess, SignRefresh, client
<1>2. CASE SignAccess(d)
  <2> DEFINE next == [op |-> "sign", access |-> AccessToken(UserOf[d])]
  <2>1. AccessToken(UserOf[d]) \in Token /\ DueAccess(AccessToken(UserOf[d]))
    BY <1>1, SignedAccess
  <2>2. next \in Requests /\ Do(d, next)
    BY <1>2, <2>1 DEF Requests, SignAccess
  <2>3. request'[d] = next
    BY <2>2 DEF Do, LoginsInv, Typed
  <2>4. Pending(d)'
    <3>1. DueAccess(AccessToken(UserOf[d]))' = DueAccess(AccessToken(UserOf[d]))
      BY <1>1 DEF DueAccess, AccessToken, AccessLife
    <3>2. DueAccess(request[d].access)'
      BY <1>1, <2>1, <2>3 DEF DueAccess, AccessLife
    <3> QED
      BY <2>3, <3>2 DEF Pending, At
  <2> QED
    BY <1>1, <2>2, <2>4, QuietKeeps
<1>3. CASE SignRefresh(d)
  <2> DEFINE next == [op |-> "save", access |-> request[d].access,
                      refresh |-> RefreshToken(UserOf[d])]
  <2>1. RefreshToken(UserOf[d]) \in Token /\ DueRefresh(RefreshToken(UserOf[d]))
    BY <1>1, SignedRefresh
  <2>2. request[d].access \in Token /\ DueAccess(request[d].access)
    BY <1>1, <1>3 DEF SignRefresh, At, Requests, LoginsInv, Pending
  <2>3. next \in Requests /\ Do(d, next)
    BY <1>3, <2>1, <2>2 DEF Requests, SignRefresh
  <2>4. request'[d] = next
    BY <2>3 DEF Do, LoginsInv, Typed
  <2>5. Pending(d)'
    <3>1. DueAccess(request[d].access)' /\ DueRefresh(request[d].refresh)'
      BY <1>1, <2>1, <2>2, <2>4 DEF DueAccess, DueRefresh, AccessLife, RefreshLife
    <3> QED
      BY <2>4, <3>1 DEF Pending, At
  <2> QED
    BY <1>1, <2>3, <2>5, QuietKeeps
<1> QED
  BY <1>2, <1>3

LEMMA VerifyKeeps ==
  ASSUME LoginsAssumption, LoginsInv, NEW d \in Device,
         \/ VerifyToken(d) \/ VerifyActive(d)
         \/ GetRefreshSession(d) \/ RefreshAccessToken(d)
  PROVE  LoginsInv'
<1>1. /\ now \in 0..MaxTime /\ request[d] \in Requests
      /\ answer \in [Device -> {"none", "ok", "refused"}]
      /\ UNCHANGED <<now, store, pair, good>>
      /\ request \in [Device -> Requests]
  BY DEF LoginsInv, Typed, TypeOK, VerifyToken, VerifyActive, GetRefreshSession,
         RefreshAccessToken
<1>2. ASSUME NEW a \in {"none", "ok", "refused"}, Answer(d, a)
      PROVE  LoginsInv'
  <2>1. Do(d, Idle) /\ answer' \in [Device -> {"none", "ok", "refused"}]
    BY <1>1, <1>2 DEF Answer
  <2> QED
    BY <1>1, <2>1, IdlePending, QuietKeeps
<1>3. ASSUME NEW op \in {"lookup", "renew", "resign"}, Do(d, [op |-> op]),
             pair[d] # None, answer' \in [Device -> {"none", "ok", "refused"}]
      PROVE  LoginsInv'
  <2>1. request'[d] = [op |-> op] /\ [op |-> op] \in Requests
    BY <1>1, <1>3 DEF Do, Requests
  <2>2. Pending(d)'
    BY <1>1, <1>3, <2>1 DEF Pending, At
  <2> QED
    BY <1>1, <1>3, <2>1, <2>2, QuietKeeps
<1>4. request[d].op \in {"lookup", "renew", "resign", "resave"} => pair[d] # None
  BY DEF LoginsInv, Pending
<1>5. CASE VerifyToken(d)
  BY <1>1, <1>3, <1>5 DEF VerifyToken
<1>6. CASE VerifyActive(d)
  BY <1>2, <1>6 DEF VerifyActive
<1>7. CASE GetRefreshSession(d)
  BY <1>1, <1>2, <1>3, <1>4, <1>7 DEF GetRefreshSession, At
<1>8. CASE RefreshAccessToken(d)
  <2>1. CASE Answer(d, "refused")
    BY <1>2, <2>1
  <2>2. CASE ~Answer(d, "refused")
    <3> DEFINE next == [op |-> "resave", access |-> AccessToken(UserOf[d]),
                        refresh |-> pair[d].refresh]
    <3>1. pair[d] # None /\ Do(d, next) /\ UNCHANGED answer
      BY <1>4, <1>8, <2>2 DEF RefreshAccessToken, At
    <3>2. pair[d].refresh \in Token
      BY <3>1 DEF LoginsInv, Typed, TypeOK
    <3>3. AccessToken(UserOf[d]) \in Token /\ DueAccess(AccessToken(UserOf[d]))
      BY <1>1, SignedAccess
    <3>4. next \in Requests
      BY <3>2, <3>3 DEF Requests
    <3>5. request'[d] = next
      BY <1>1, <3>1 DEF Do
    <3>6. DueAccess(request[d].access)'
      BY <1>1, <3>3, <3>5 DEF DueAccess, AccessLife
    <3>7. Pending(d)'
      BY <1>1, <3>1, <3>5, <3>6 DEF Pending, At
    <3> QED
      BY <1>1, <3>1, <3>4, <3>7, QuietKeeps
  <2> QED
    BY <2>1, <2>2
<1> QED
  BY <1>5, <1>6, <1>7, <1>8

\* A save that is given to the device.
LEMMA GivenHeld ==
  ASSUME LoginsAssumption, LoginsInv, NEW d \in Device,
         request[d].op \in {"save", "resave"}, NEW until \in Nat, Give(d, until),
         UNCHANGED now, StoreTyped',
         access'[request[d].access] # None,
         access'[request[d].access].until = now + AccessLife,
         refresh'[request[d].refresh] # None,
         until <= refresh'[request[d].refresh].until,
         request[d].refresh.exp * Second <= refresh'[request[d].refresh].until
  PROVE  /\ pair' \in [Device -> [access : Token, refresh : Token] \cup {None}]
         /\ good' \in [Device -> [access : Nat, refresh : Nat]]
         /\ \A e \in Device \ {d} : pair'[e] = pair[e] /\ good'[e] = good[e]
         /\ Held(d)'
<1> DEFINE a == request[d].access
           r == request[d].refresh
           p == [access |-> a, refresh |-> r]
           g == [access |-> now + AccessLife, refresh |-> until]
<1>1. a \in Token /\ r \in Token
  BY DEF LoginsInv, Typed, Requests
<1>2. now \in Nat /\ AccessLife \in Nat
  BY Lives DEF LoginsInv, Typed, TypeOK, LoginsAssumption
<1>3. pair' = [pair EXCEPT ![d] = p] /\ good' = [good EXCEPT ![d] = g]
  BY DEF Give, AccessLife
<1>4. p \in [access : Token, refresh : Token] /\ p # None
  BY <1>1, SessionIsNotNone
<1>5. g \in [access : Nat, refresh : Nat]
  BY <1>2
<1>6. /\ pair \in [Device -> [access : Token, refresh : Token] \cup {None}]
      /\ good \in [Device -> [access : Nat, refresh : Nat]]
  BY DEF LoginsInv, Typed, TypeOK
<1>7. pair'[d] = p /\ good'[d] = g
  BY <1>3, <1>6
<1>8. a.exp * Second <= now + AccessLife
  BY DEF LoginsInv, Pending, At, DueAccess
<1>9. Held(d)'
  BY <1>2, <1>4, <1>7, <1>8 DEF Held
<1> QED
  BY <1>3, <1>4, <1>5, <1>6, <1>9

LEMMA SaveBothKeeps ==
  ASSUME LoginsAssumption, LoginsInv, NEW d \in Device,
         SaveLoginTokens(d) \/ (SaveLoginTokensFails(d) /\ SaveBoth(d))
  PROVE  LoginsInv'
<1>1. /\ At(d, "save") /\ SaveBoth(d) /\ UNCHANGED <<now, answer>> /\ Do(d, Idle)
  BY DEF SaveLoginTokens, SaveLoginTokensFails, Give, GiveNothing
<1>2. /\ StoreTyped' /\ Newest' /\ Grows
      /\ access'[request[d].access] # None
      /\ access'[request[d].access].until = now + AccessLife
      /\ refresh'[request[d].refresh] # None
      /\ refresh'[request[d].refresh].until = now + RefreshLife
  BY <1>1, SaveBothGrows DEF LoginsInv
<1>3. Idle \in Requests /\ Pending(d)'
  BY <1>1, IdlePending
<1>4. answer' \in [Device -> {"none", "ok", "refused"}]
  BY <1>1 DEF LoginsInv, Typed, TypeOK
<1>5. CASE SaveLoginTokens(d)
  <2>1. Give(d, now + RefreshLife)
    BY <1>5 DEF SaveLoginTokens, RefreshLife
  <2>2. now + RefreshLife \in Nat
    BY Lives DEF LoginsInv, Typed, TypeOK, LoginsAssumption
  <2>3. request[d].refresh.exp * Second <= now + RefreshLife
    BY <1>1 DEF LoginsInv, Pending, DueRefresh
  <2>4. request[d].op \in {"save", "resave"}
    BY <1>1 DEF At
  <2> DEFINE until == now + RefreshLife
  <2>5. until <= refresh'[request[d].refresh].until
    BY <1>2, <2>2
  <2>6. request[d].refresh.exp * Second <= refresh'[request[d].refresh].until
    BY <1>2, <2>3
  <2> HIDE DEF until
  <2>7. /\ pair' \in [Device -> [access : Token, refresh : Token] \cup {None}]
        /\ good' \in [Device -> [access : Nat, refresh : Nat]]
        /\ \A e \in Device \ {d} : pair'[e] = pair[e] /\ good'[e] = good[e]
        /\ Held(d)'
    BY <1>1, <1>2, <2>1, <2>2, <2>4, <2>5, <2>6, GivenHeld DEF until
  <2> QED
    BY <1>1, <1>2, <1>3, <1>4, <2>7, StepKeeps
<1>6. CASE SaveLoginTokensFails(d)
  <2>1. UNCHANGED <<pair, good>>
    BY <1>6 DEF SaveLoginTokensFails, GiveNothing
  <2>2. /\ pair' \in [Device -> [access : Token, refresh : Token] \cup {None}]
        /\ good' \in [Device -> [access : Nat, refresh : Nat]]
    BY <2>1 DEF LoginsInv, Typed, TypeOK
  <2>3. Held(d)'
    BY <1>2, <2>1, HeldKept
  <2> QED
    BY <1>1, <1>2, <1>3, <1>4, <2>1, <2>2, <2>3, StepKeeps
<1> QED
  BY <1>5, <1>6

LEMMA SaveOneKeeps ==
  ASSUME LoginsAssumption, LoginsInv, NEW d \in Device,
         SaveAccessToken(d) \/ (SaveAccessTokenFails(d) /\ SaveOne(d))
  PROVE  LoginsInv'
<1>1. /\ At(d, "resave") /\ SaveOne(d) /\ UNCHANGED <<now, refresh>> /\ Do(d, Idle)
      /\ request[d].op \in {"save", "resave"}
  BY DEF SaveAccessToken, SaveAccessTokenFails, Give, GiveNothing, SaveOne, At
<1>2. /\ access' \in [Token -> [refresh : Token, until : Nat] \cup {None}]
      /\ \A t \in Token : access'[t] # None => access'[t].until <= now + AccessLife
      /\ \A t \in Token : access[t] # None =>
           access'[t] # None /\ access[t].until <= access'[t].until
      /\ access'[request[d].access] # None
      /\ access'[request[d].access].until = now + AccessLife
  BY <1>1, SaveOneGrows DEF LoginsInv, SaveOne
<1>3. StoreTyped' /\ Newest'
  BY <1>1, <1>2 DEF LoginsInv, Typed, TypeOK, StoreTyped, Newest, AccessLife, RefreshLife
<1>4. Grows
  <2>1. \A t \in Token : refresh[t] # None => refresh[t].until \in Nat
    BY DEF LoginsInv, Typed, TypeOK
  <2> QED
    BY <1>1, <1>2, <2>1 DEF Grows
<1>5. Idle \in Requests /\ Pending(d)'
  BY <1>1, IdlePending
<1>6. answer' \in [Device -> {"none", "ok", "refused"}]
  BY DEF LoginsInv, Typed, TypeOK, SaveAccessToken, SaveAccessTokenFails
<1>7. CASE SaveAccessToken(d)
  <2> DEFINE r == request[d].refresh
             until == good[d].refresh
  <2>1. pair[d] # None /\ r = pair[d].refresh
    BY <1>1 DEF LoginsInv, Pending, At
  <2>2. r \in Token /\ until \in Nat
    BY <2>1 DEF LoginsInv, Typed, TypeOK
  <2>3. /\ refresh[r] # None /\ until <= refresh[r].until
        /\ r.exp * Second <= refresh[r].until
    BY <2>1 DEF LoginsInv, Held
  <2>4. /\ refresh'[r] # None /\ until <= refresh'[r].until
        /\ r.exp * Second <= refresh'[r].until
    BY <1>1, <2>3
  <2>5. Give(d, until)
    BY <1>7 DEF SaveAccessToken
  <2>6. /\ pair' \in [Device -> [access : Token, refresh : Token] \cup {None}]
        /\ good' \in [Device -> [access : Nat, refresh : Nat]]
        /\ \A e \in Device \ {d} : pair'[e] = pair[e] /\ good'[e] = good[e]
        /\ Held(d)'
    BY <1>1, <1>2, <1>3, <2>2, <2>4, <2>5, GivenHeld
  <2> QED
    BY <1>1, <1>3, <1>4, <1>5, <1>6, <2>6, StepKeeps
<1>8. CASE SaveAccessTokenFails(d)
  <2>1. UNCHANGED <<pair, good>>
    BY <1>8 DEF SaveAccessTokenFails, GiveNothing
  <2>2. /\ pair' \in [Device -> [access : Token, refresh : Token] \cup {None}]
        /\ good' \in [Device -> [access : Nat, refresh : Nat]]
    BY <2>1 DEF LoginsInv, Typed, TypeOK
  <2>3. Held(d)'
    BY <1>3, <1>4, <2>1, HeldKept
  <2> QED
    BY <1>1, <1>3, <1>4, <1>5, <1>6, <2>1, <2>2, <2>3, StepKeeps
<1> QED
  BY <1>7, <1>8

\* A save that fails and was not applied.
LEMMA UnsavedKeeps ==
  ASSUME LoginsAssumption, LoginsInv, NEW d \in Device,
         SaveLoginTokensFails(d) \/ SaveAccessTokenFails(d), UNCHANGED store
  PROVE  LoginsInv'
<1>1. Do(d, Idle) /\ UNCHANGED <<now, store, pair, good, answer>>
  BY DEF SaveLoginTokensFails, SaveAccessTokenFails, GiveNothing
<1>2. answer' \in [Device -> {"none", "ok", "refused"}]
  BY <1>1 DEF LoginsInv, Typed, TypeOK
<1> QED
  BY <1>1, <1>2, IdlePending, QuietKeeps

LEMMA LoginsStep ==
  ASSUME LoginsAssumption, LoginsInv, [Next]_vars
  PROVE  LoginsInv'
<1>1. CASE Pass
  BY <1>1, PassKeeps
<1>2. ASSUME NEW d \in Device, SignAccess(d) \/ SignRefresh(d)
      PROVE  LoginsInv'
  BY <1>2, SignKeeps
<1>3. ASSUME NEW d \in Device, SaveLoginTokens(d) \/ SaveLoginTokensFails(d)
      PROVE  LoginsInv'
  <2>1. CASE SaveLoginTokens(d)
    BY <2>1, SaveBothKeeps
  <2>2. CASE SaveLoginTokensFails(d)
    <3>1. SaveBoth(d) \/ UNCHANGED store
      BY <2>2 DEF SaveLoginTokensFails
    <3> QED
      BY <2>2, <3>1, SaveBothKeeps, UnsavedKeeps
  <2> QED
    BY <1>3, <2>1, <2>2
<1>4. ASSUME NEW d \in Device,
             \/ VerifyToken(d) \/ VerifyActive(d)
             \/ GetRefreshSession(d) \/ RefreshAccessToken(d)
      PROVE  LoginsInv'
  BY <1>4, VerifyKeeps
<1>5. ASSUME NEW d \in Device, SaveAccessToken(d) \/ SaveAccessTokenFails(d)
      PROVE  LoginsInv'
  <2>1. CASE SaveAccessToken(d)
    BY <2>1, SaveOneKeeps
  <2>2. CASE SaveAccessTokenFails(d)
    <3>1. SaveOne(d) \/ UNCHANGED store
      BY <2>2 DEF SaveAccessTokenFails
    <3> QED
      BY <2>2, <3>1, SaveOneKeeps, UnsavedKeeps
  <2> QED
    BY <1>5, <2>1, <2>2
<1>6. CASE UNCHANGED vars
  <2>1. UNCHANGED <<now, access, refresh, pair, good, answer, request>>
    BY <1>6 DEF vars, store, client
  <2>2. Typed' /\ Newest'
    BY <2>1 DEF LoginsInv, Typed, TypeOK, Newest, Requests, Token, Sec,
                AccessLife, RefreshLife
  <2>3. \A d \in Device : Held(d)' /\ Pending(d)'
    BY <2>1 DEF LoginsInv, Held, Pending, At, DueAccess, DueRefresh,
                AccessLife, RefreshLife
  <2> QED
    BY <2>2, <2>3 DEF LoginsInv
<1> QED
  BY <1>1, <1>2, <1>3, <1>4, <1>5, <1>6 DEF Next

LEMMA LoginsInit ==
  ASSUME LoginsAssumption, Init
  PROVE  LoginsInv
<1>1. Typed
  BY DEF LoginsAssumption, Init, Typed, TypeOK, Requests, Idle
<1>2. Newest
  BY DEF Init, Newest
<1>3. \A d \in Device : Held(d) /\ Pending(d)
  BY DEF Init, Held, Pending, At, Idle
<1> QED
  BY <1>1, <1>2, <1>3 DEF LoginsInv

LEMMA LoginsAlwaysSound == Spec => []LoginsInv
<1>1. Init => LoginsInv
  BY LoginsInit, LoginsAssumption
<1>2. LoginsInv /\ [Next]_vars => LoginsInv'
  BY LoginsStep, LoginsAssumption
<1> QED
  BY <1>1, <1>2, PTL DEF Spec

-----------------------------------------------------------------------------
\* For any devices, users and lengths of tokens' lives: until the end that a device
\* was promised, Redis knows the tokens it was given last (issueLoginTokens,
\* SaveLoginTokens, SaveAccessToken).
THEOREM GivenAlwaysKnown == Spec => []GivenIsKnown
<1>1. ASSUME LoginsInv PROVE GivenIsKnown
  <2> SUFFICES ASSUME NEW d \in Device
               PROVE  /\ now < good[d].access => pair[d] # None /\ Known(access[pair[d].access])
                      /\ now < good[d].refresh => pair[d] # None /\ Known(refresh[pair[d].refresh])
    BY DEF GivenIsKnown
  <2>1. now \in Nat /\ good[d] \in [access : Nat, refresh : Nat] /\ Held(d)
    BY <1>1 DEF LoginsInv, Typed, TypeOK, LoginsAssumption
  <2>2. CASE pair[d] = None
    BY <2>1, <2>2 DEF Held
  <2>3. CASE pair[d] # None
    <3>1. pair[d].access \in Token /\ pair[d].refresh \in Token
      BY <1>1, <2>3 DEF LoginsInv, Typed, TypeOK
    <3>2. /\ access[pair[d].access].until \in Nat
          /\ refresh[pair[d].refresh].until \in Nat
      BY <1>1, <2>1, <2>3, <3>1 DEF LoginsInv, Typed, TypeOK, Held
    <3> QED
      BY <2>1, <2>3, <3>2 DEF Held, Known
  <2> QED
    BY <2>2, <2>3
<1> QED
  BY <1>1, LoginsAlwaysSound, PTL

\* And until the second that a token names, its session is there: the clock of whole
\* seconds that signs tokens and the one of Redis part in the last second only
\* (ParseToken, AccessSession).
THEOREM AlwaysKnownToTheLast == Spec => []KnownToTheLast
<1>1. ASSUME NEW n \in Nat, NEW exp \in Nat, NEW until \in Nat,
             Sec(n) < exp, exp * Second <= until
      PROVE  n < until
  <2> DEFINE x == n \div Second
  <2>1. Second \in Nat \ {0}
    BY LoginsAssumption DEF LoginsAssumption
  <2>2. x \in Int /\ n < Second * x + Second
    BY <2>1
  <2>3. x < exp
    BY <1>1 DEF Sec
  <2> HIDE DEF x
  <2>4. Second * (x + 1) <= Second * exp
    BY <2>1, <2>2, <2>3
  <2>5. Second * (x + 1) = Second * x + Second /\ Second * exp = exp * Second
    BY <2>1, <2>2
  <2> QED
    BY <1>1, <2>1, <2>2, <2>4, <2>5
<1>2. ASSUME LoginsInv PROVE KnownToTheLast
  <2> SUFFICES ASSUME NEW d \in Device, pair[d] # None
               PROVE  /\ Sec(now) < pair[d].access.exp => Known(access[pair[d].access])
                      /\ Sec(now) < pair[d].refresh.exp => Known(refresh[pair[d].refresh])
    BY DEF KnownToTheLast
  <2>1. now \in Nat /\ Held(d)
    BY <1>2 DEF LoginsInv, Typed, TypeOK, LoginsAssumption
  <2>2. pair[d].access \in Token /\ pair[d].refresh \in Token
    BY <1>2 DEF LoginsInv, Typed, TypeOK
  <2>3. pair[d].access.exp \in Nat /\ pair[d].refresh.exp \in Nat
    BY <2>2, TokenHasSecond
  <2>4. /\ access[pair[d].access].until \in Nat
        /\ refresh[pair[d].refresh].until \in Nat
    BY <1>2, <2>1, <2>2 DEF LoginsInv, Typed, TypeOK, Held
  <2> QED
    BY <1>1, <2>1, <2>3, <2>4 DEF Held, Known
<1> QED
  BY <1>2, LoginsAlwaysSound, PTL

\* Whatever logins, refreshes and lost answers: what the store keeps of a token is a
\* session, an access token's with the refresh token it came with, and a device holds
\* a whole pair or none (SaveLoginTokens, SaveAccessToken, issueLoginTokens).
THEOREM LoginsTyped == Spec => []TypeOK
<1>1. LoginsInv => TypeOK
  BY DEF LoginsInv, Typed
<1> QED
  BY <1>1, LoginsAlwaysSound, PTL
=============================================================================
