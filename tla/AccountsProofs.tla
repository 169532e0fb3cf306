---------------------------- MODULE AccountsProofs ----------------------------
(***************************************************************************)
(* Theorems about the accounts of any number of users, callers, games, guns  *)
(* and prices, in any interleaving of the commands of their requests.       *)
(***************************************************************************)
EXTENDS Accounts, FiniteSetTheorems, SequenceTheorems, WellFoundedInduction, TLAPS

-----------------------------------------------------------------------------
(* Types.                                                                  *)

Bought == [id : Gun, price : Prices]
Levels == 1..(Len(Level) + 1)
Doc == [email : Email, level : Levels, exp : Nat, coins : Nat, guns : Seq(Bought),
        profile : {"new", "edited"}]
Won == [coin : Nat, exp : Nat]

Answers == {"registered", "already exists", "ok", "not enough coins", "gun already owned"}
Settling == [op : {"read"}, game : Game, todo : Seq(ID), failed : SUBSET ID]
Writing == [op : {"write"}, game : Game, todo : Seq(ID), failed : SUBSET ID, exp : Nat]
Calls ==
  [op : {"idle"}]
    \cup [op : {"insert"}, id : ID, email : Email]
    \cup [op : {"told"}, answer : Answers, user : ID \cup {0}, about : Email \cup Gun]
    \cup Settling \cup Writing
    \cup [op : {"buy"}, user : ID, gun : Bought]
    \cup [op : {"why"}, user : ID, gun : Bought, had : Nat]
    \cup [op : {"modify"}, user : ID]

UsersTyped ==
  /\ seq \in 0..MaxUsers
  /\ Known \subseteq 1..seq
  /\ users \in [Known -> Doc]

ResultsTyped ==
  /\ DOMAIN result = Game
  /\ \A g \in Game : /\ DOMAIN result[g] \subseteq Known
                     /\ \A u \in DOMAIN result[g] : result[g][u] \in Won
  /\ status \in [Game -> {"none", "sent", "lost", "answered"}]
  /\ errors \in [Game -> SUBSET ID]
  /\ paid \in [Game \X ID -> Nat]

\* What a call is about exists: users, and the players of a settled game.
CallSound(c) ==
  /\ At(c, "insert") => call[c].id \in 1..seq
  /\ call[c].op \in {"buy", "why", "modify"} => call[c].user \in Known
  /\ call[c].op \in {"read", "write"} =>
       /\ status[call[c].game] # "none"
       /\ \A i \in DOMAIN call[c].todo : call[c].todo[i] \in DOMAIN result[call[c].game]
  /\ At(c, "write") => call[c].todo # <<>>

Typed ==
  /\ UsersTyped /\ ResultsTyped
  /\ call \in [Caller -> Calls]
  /\ \A c \in Caller : CallSound(c)

-----------------------------------------------------------------------------
(* What no step takes away.                                                *)

\* A document keeps its email and its experience and guns, and gets at most one gun,
\* which it did not have.
DocGrows(a, b) ==
  /\ b.email = a.email
  /\ a.exp <= b.exp
  /\ \/ b.guns = a.guns
     \/ \E gun \in Bought : /\ b.guns = Append(a.guns, gun)
                            /\ \A i \in DOMAIN a.guns : a.guns[i].id # gun.id

UsersGrow ==
  /\ Known \subseteq Known'
  /\ \A u \in Known : DocGrows(users[u], users'[u])
  /\ \A u \in Known' \ Known : users'[u].guns = <<>>

ResultsKept ==
  \A g \in Game : status[g] # "none" => status'[g] # "none" /\ result'[g] = result[g]

LEMMA CallStep ==
  ASSUME Typed, NEW c \in Caller, NEW next \in Calls, Do(c, next)
  PROVE  /\ call' \in [Caller -> Calls]
         /\ call'[c] = next
         /\ \A d \in Caller \ {c} : call'[d] = call[d]
BY DEF Typed, Do

\* What a step of caller c has to do to keep the types.
LEMMA StepTyped ==
  ASSUME Typed, NEW c \in Caller, NEW next \in Calls, Do(c, next),
         UsersTyped', Known \subseteq Known', seq <= seq', ResultsTyped', ResultsKept,
         CallSound(c)'
  PROVE  Typed'
<1>1. /\ call' \in [Caller -> Calls]
      /\ \A d \in Caller \ {c} : call'[d] = call[d]
  BY CallStep
<1>2. Calls' = Calls
  BY DEF Calls, Settling, Writing, Bought, ID, Answers
<1>3. ASSUME NEW d \in Caller \ {c}
      PROVE  CallSound(d)'
  <2>1. call'[d] = call[d] /\ CallSound(d) /\ call[d] \in Calls
    BY <1>1 DEF Typed
  <2>2. CASE call[d].op \in {"read", "write"}
    <3>1. call[d].game \in Game
      BY <2>1, <2>2 DEF Calls, Settling, Writing
    <3> QED
      BY <2>1, <2>2, <3>1 DEF CallSound, ResultsKept, At
  <2>3. CASE At(d, "insert")
    <3>1. seq \in Nat /\ seq' \in Nat /\ call[d].id \in 1..seq
      BY <2>1, <2>3 DEF Typed, UsersTyped, CallSound
    <3> QED
      BY <2>1, <2>3, <3>1 DEF CallSound, At
  <2>4. CASE call[d].op \notin {"read", "write", "insert"}
    BY <2>1, <2>4 DEF CallSound, At
  <2> QED
    BY <2>2, <2>3, <2>4 DEF At
<1> QED
  BY <1>1, <1>2, <1>3 DEF Typed

LEMMA SameGrow ==
  ASSUME Typed, UNCHANGED users
  PROVE  UsersGrow
<1>1. \A u \in Known : users[u].exp \in Nat
  BY DEF Typed, UsersTyped, Doc
<1> QED
  BY <1>1 DEF UsersGrow, DocGrows, Known

\* Steps that change no document and no result.
LEMMA QuietTyped ==
  ASSUME Typed, UNCHANGED <<seq, users, result, status, errors, paid>>,
         NEW c \in Caller, NEW next \in Calls, Do(c, next), CallSound(c)'
  PROVE  Typed' /\ UsersGrow
<1>1. /\ UsersTyped' /\ Known \subseteq Known'
      /\ seq <= seq'
  <2>1. seq \in Int
    BY DEF Typed, UsersTyped
  <2>2. UsersTyped' /\ Known \subseteq Known'
    BY DEF Typed, UsersTyped, Doc, Levels, Bought, Known
  <2> QED
    BY <2>1, <2>2
<1>2. ResultsTyped' /\ ResultsKept
  BY DEF Typed, ResultsTyped, Won, ID, ResultsKept, Known
<1> QED
  BY <1>1, <1>2, StepTyped, SameGrow

LEMMA IdleSound ==
  ASSUME Typed, NEW c \in Caller, Do(c, Idle)
  PROVE  Idle \in Calls /\ CallSound(c)'
<1>1. Idle \in Calls
  BY DEF Idle, Calls
<1>2. call'[c] = Idle
  BY <1>1, CallStep
<1> QED
  BY <1>1, <1>2 DEF Idle, CallSound, At

LEMMA ToldSound ==
  ASSUME Typed, NEW c \in Caller, NEW a \in Answers, NEW u \in ID \cup {0},
         NEW x \in Email \cup Gun, Tell(c, a, u, x)
  PROVE  \E next \in Calls : Do(c, next) /\ CallSound(c)'
<1> DEFINE next == [op |-> "told", answer |-> a, user |-> u, about |-> x]
<1>1. next \in Calls /\ Do(c, next)
  BY DEF Calls, Tell
<1>2. call'[c] = next
  BY <1>1, CallStep
<1>3. CallSound(c)'
  BY <1>2 DEF CallSound, At
<1> QED
  BY <1>1, <1>3

-----------------------------------------------------------------------------
(* The steps that change a document.                                       *)

\* judgePlayerLevel has an answer, which grows with the experience.
LEMMA JudgeGrows ==
  ASSUME AccountsAssumption, NEW m \in Nat, NEW n \in Nat, m <= n
  PROVE  /\ JudgePlayerLevel(m) \in Nat /\ JudgePlayerLevel(n) \in Nat
         /\ JudgePlayerLevel(n) \in Levels
         /\ JudgePlayerLevel(m) <= JudgePlayerLevel(n)
<1> DEFINE Below(e) == {i \in DOMAIN Level : Level[i] < e}
<1>1. Level \in Seq(Nat) /\ DOMAIN Level = 1..Len(Level) /\ Len(Level) \in Nat
  BY DEF AccountsAssumption
<1>2. IsFiniteSet(DOMAIN Level)
  BY <1>1, FS_Interval
<1>3. Below(m) \subseteq Below(n) /\ Below(n) \subseteq DOMAIN Level
  BY <1>1
<1>4. IsFiniteSet(Below(n))
  BY <1>2, <1>3, FS_Subset
<1>5. /\ IsFiniteSet(Below(m))
      /\ Cardinality(Below(m)) <= Cardinality(Below(n))
  BY <1>3, <1>4, FS_Subset
<1>6. Cardinality(Below(m)) \in Nat /\ Cardinality(Below(n)) \in Nat
  BY <1>4, <1>5, FS_CardinalityType
<1>7. Cardinality(Below(n)) <= Len(Level)
  <2>1. Cardinality(DOMAIN Level) = Len(Level)
    <3> DEFINE k == Len(Level)
    <3>1. k \in Nat
      BY <1>1
    <3> HIDE DEF k
    <3>2. Cardinality(1..k) = k
      BY <3>1, FS_Interval
    <3> QED
      BY <1>1, <3>2 DEF k
  <2> QED
    BY <1>2, <1>3, <2>1, FS_Subset
<1>8. /\ JudgePlayerLevel(m) = Cardinality(Below(m)) + 1
      /\ JudgePlayerLevel(n) = Cardinality(Below(n)) + 1
  BY DEF JudgePlayerLevel
<1> HIDE DEF Below
<1> QED
  BY <1>1, <1>5, <1>6, <1>7, <1>8 DEF Levels

LEMMA DocFields ==
  ASSUME NEW doc \in Doc
  PROVE  doc = [email |-> doc.email, level |-> doc.level, exp |-> doc.exp,
                coins |-> doc.coins, guns |-> doc.guns, profile |-> doc.profile]
BY DEF Doc

LEMMA UpdateGrows ==
  ASSUME Typed, NEW u \in Known, NEW doc \in Doc, UNCHANGED seq,
         users' = [users EXCEPT ![u] = doc], DocGrows(users[u], doc)
  PROVE  UsersTyped' /\ UsersGrow /\ Known' = Known
<1>1. users \in [Known -> Doc]
  BY DEF Typed, UsersTyped
<1>2. Known' = Known
  BY <1>1 DEF Known
<1>3. users' \in [Known -> Doc] /\ users'[u] = doc
  BY <1>1
<1>4. UsersTyped'
  BY <1>2, <1>3 DEF Typed, UsersTyped, Doc, Levels, Bought
<1>5. ASSUME NEW v \in Known
      PROVE  DocGrows(users[v], users'[v])
  <2>1. CASE v = u
    BY <1>3, <2>1
  <2>2. CASE v # u
    <3>1. users'[v] = users[v] /\ users[v].exp \in Nat
      BY <1>1, <2>2 DEF Doc
    <3> QED
      BY <3>1 DEF DocGrows
  <2> QED
    BY <2>1, <2>2
<1> QED
  BY <1>2, <1>4, <1>5 DEF UsersGrow

\* CreateUser: the id of an insert is in no document yet or is that of one; either way
\* the documents that are there stay.
LEMMA InsertGrows ==
  ASSUME AccountsAssumption, Typed, NEW c \in Caller, At(c, "insert"), Insert(c),
         UNCHANGED seq
  PROVE  UsersTyped' /\ UsersGrow /\ Known' = Known \cup {call[c].id}
<1> DEFINE id == call[c].id
           doc == NewUser(call[c].email)
<1>1. call[c].email \in Email /\ id \in 1..seq
  BY DEF Typed, Calls, Settling, Writing, CallSound, At
<1>2. doc \in Doc
  <2>1. <<>> \in Seq(Bought)
    OBVIOUS
  <2>2. 1 \in Levels
    <3>1. Len(Level) \in Nat
      BY DEF AccountsAssumption
    <3> QED
      BY <3>1 DEF Levels
  <2> QED
    BY <1>1, <2>1, <2>2 DEF NewUser, Doc, AccountsAssumption
<1>3. users \in [Known -> Doc]
  BY DEF Typed, UsersTyped
<1> HIDE DEF doc
<1>4. users' = [u \in Known \cup {id} |-> IF u \in Known THEN users[u] ELSE doc]
  BY DEF Insert, doc
<1>5. Known' = Known \cup {id} /\ users' \in [Known \cup {id} -> Doc]
  BY <1>2, <1>3, <1>4 DEF Known
<1>6. UsersTyped'
  BY <1>1, <1>5 DEF Typed, UsersTyped, Doc, Levels, Bought
<1>7. ASSUME NEW v \in Known
      PROVE  DocGrows(users[v], users'[v])
  <2>1. users'[v] = users[v] /\ users[v].exp \in Nat
    BY <1>3, <1>4 DEF Doc
  <2> QED
    BY <2>1 DEF DocGrows
<1>8. \A u \in Known' \ Known : users'[u].guns = <<>>
  BY <1>4, <1>5 DEF doc, NewUser
<1> QED
  BY <1>5, <1>6, <1>7, <1>8 DEF UsersGrow

\* BuyGunToPlayerWare: a gun is sold for coins that are there, to who does not own it.
LEMMA SellGrows ==
  ASSUME AccountsAssumption, Typed, NEW u \in Known, NEW gun \in Bought,
         CanBuy(u, gun), users' = [users EXCEPT ![u] = SellGun(@, gun)], UNCHANGED seq
  PROVE  /\ UsersTyped' /\ UsersGrow /\ Known' = Known
         /\ users'[u].guns = Append(users[u].guns, gun)
<1> DEFINE doc == SellGun(users[u], gun)
<1>1. users[u] \in Doc /\ users \in [Known -> Doc]
  BY DEF Typed, UsersTyped
<1>2. gun.price \in Nat /\ users[u].coins \in Nat /\ users[u].coins >= gun.price
  BY <1>1 DEF Bought, AccountsAssumption, Doc, CanBuy
<1>3. users[u].guns \in Seq(Bought) /\ users[u].exp \in Nat
  BY <1>1 DEF Doc
<1>4. Append(users[u].guns, gun) \in Seq(Bought)
  BY <1>3
<1>5. /\ doc.email = users[u].email /\ doc.exp = users[u].exp
      /\ doc.guns = Append(users[u].guns, gun)
  BY <1>1 DEF SellGun, Doc
<1>6. users[u].coins - gun.price \in Nat
  BY <1>2
<1>7. doc \in Doc
  BY <1>1, <1>4, <1>6 DEF SellGun, Doc
<1>8. doc.guns = Append(users[u].guns, gun)
  BY <1>5
<1>9. DocGrows(users[u], doc)
  BY <1>3, <1>5 DEF DocGrows, CanBuy
<1>10. users' = [users EXCEPT ![u] = doc]
  BY <1>1
<1>11. users'[u] = doc
  BY <1>1, <1>10
<1> QED
  BY <1>7, <1>8, <1>9, <1>10, <1>11, UpdateGrows

\* ModifyNickname, ModifyProfilePhoto, SetPlayerEquipGun.
LEMMA ProfileGrows ==
  ASSUME Typed, NEW u \in Known, SetProfile(u), UNCHANGED seq
  PROVE  UsersTyped' /\ UsersGrow /\ Known' = Known
<1> DEFINE doc == [users[u] EXCEPT !.profile = "edited"]
<1>1. users[u] \in Doc /\ users \in [Known -> Doc]
  BY DEF Typed, UsersTyped
<1>2. doc \in Doc /\ doc.email = users[u].email /\ doc.exp = users[u].exp
      /\ doc.guns = users[u].guns /\ users[u].exp \in Nat
  BY <1>1 DEF Doc
<1>3. DocGrows(users[u], doc)
  BY <1>2 DEF DocGrows
<1>4. users' = [users EXCEPT ![u] = doc]
  BY <1>1 DEF SetProfile
<1> QED
  BY <1>2, <1>3, <1>4, UpdateGrows

\* AddPlayerExpLevelCoin.
LEMMA RewardGrows ==
  ASSUME AccountsAssumption, Typed, NEW c \in Caller, At(c, "write"),
         AddExpLevelCoin(c), UNCHANGED seq
  PROVE  /\ UsersTyped' /\ UsersGrow /\ Known' = Known
         /\ Head(call[c].todo) \in Known
         /\ call[c].game \in Game
         /\ paid' = [paid EXCEPT ![<<call[c].game, Head(call[c].todo)>>] = @ + 1]
<1> DEFINE u == Head(call[c].todo)
           g == call[c].game
           won == result[g][u]
           level == NewLevel(c, won.exp)
<1>1. call[c] \in Writing
  BY DEF Typed, Calls, Settling, At
<1>2. g \in Game /\ call[c].todo \in Seq(ID) /\ call[c].exp \in Nat
  BY <1>1 DEF Writing
<1>3. call[c].todo # <<>> /\ CallSound(c)
  BY DEF Typed, CallSound
<1>4. 1 \in DOMAIN call[c].todo /\ u = call[c].todo[1]
  BY <1>2, <1>3
<1>5. u \in DOMAIN result[g] /\ u \in Known /\ won \in Won
  BY <1>2, <1>3, <1>4 DEF CallSound, At, Typed, ResultsTyped
<1>6. won.exp \in Nat /\ won.coin \in Nat
  BY <1>5 DEF Won
<1>7. level \in Levels
  <2>1. call[c].exp + won.exp \in Nat
    BY <1>2, <1>6
  <2> QED
    BY <2>1, JudgeGrows DEF NewLevel
<1>8. users[u] \in Doc /\ users \in [Known -> Doc]
  BY <1>5 DEF Typed, UsersTyped
<1> DEFINE doc == [users[u] EXCEPT !.exp = @ + won.exp, !.coins = @ + won.coin,
                                   !.level = level]
<1> HIDE DEF u, g, won, level
<1>9. /\ users' = [users EXCEPT ![u].exp = @ + won.exp, ![u].coins = @ + won.coin,
                                ![u].level = level]
      /\ paid' = [paid EXCEPT ![<<g, u>>] = @ + 1]
  BY DEF AddExpLevelCoin, u, g, won, level
<1>10. users' = [users EXCEPT ![u] = doc]
  BY <1>5, <1>8, <1>9 DEF Doc
<1>11. doc \in Doc /\ doc.email = users[u].email /\ doc.guns = users[u].guns
       /\ doc.exp = users[u].exp + won.exp /\ users[u].exp \in Nat
  <2>1. /\ users[u].exp \in Nat /\ users[u].coins \in Nat
        /\ users[u].exp + won.exp \in Nat /\ users[u].coins + won.coin \in Nat
    <3> DEFINE a == users[u].exp
               b == users[u].coins
               x == won.exp
               y == won.coin
    <3>1. a \in Nat /\ b \in Nat
      BY <1>8 DEF Doc
    <3>2. x \in Nat /\ y \in Nat
      BY <1>6
    <3> HIDE DEF a, b, x, y
    <3>3. a + x \in Nat /\ b + y \in Nat
      BY <3>1, <3>2
    <3> QED
      BY <3>1, <3>3 DEF a, b, x, y
  <2>2. doc \in Doc
    BY <1>7, <1>8, <2>1 DEF Doc
  <2>3. doc.email = users[u].email /\ doc.guns = users[u].guns
        /\ doc.exp = users[u].exp + won.exp
    BY <1>8 DEF Doc
  <2> QED
    BY <2>1, <2>2, <2>3
<1>12. DocGrows(users[u], doc)
  BY <1>6, <1>11 DEF DocGrows
<1> HIDE DEF doc
<1>13. UsersTyped' /\ UsersGrow /\ Known' = Known
  BY <1>5, <1>10, <1>11, <1>12, UpdateGrows
<1> QED
  BY <1>2, <1>5, <1>9, <1>13 DEF u, g

-----------------------------------------------------------------------------
(* The steps of a caller.                                                  *)

\* Steps that change documents and the history of payments, and no result.
LEMMA UsersStep ==
  ASSUME Typed, UNCHANGED <<seq, result, status, errors>>,
         paid' \in [Game \X ID -> Nat], UsersTyped', UsersGrow,
         NEW c \in Caller, NEW next \in Calls, Do(c, next), CallSound(c)'
  PROVE  Typed'
<1>1. seq \in Int /\ Known \subseteq Known'
  BY DEF Typed, UsersTyped, UsersGrow
<1>2. seq <= seq'
  BY <1>1
<1>3. ResultsTyped' /\ ResultsKept
  BY <1>1 DEF Typed, ResultsTyped, Won, ID, ResultsKept
<1> QED
  BY <1>1, <1>2, <1>3, StepTyped

\* What is left to do of a settlement after its first player.
LEMMA TailFacts ==
  ASSUME NEW S, NEW s \in Seq(S), s # <<>>
  PROVE  /\ Tail(s) \in Seq(S) /\ Head(s) \in S
         /\ 1 \in DOMAIN s /\ Head(s) = s[1]
         /\ \A i \in DOMAIN Tail(s) : i \in Nat /\ i + 1 \in DOMAIN s /\ Tail(s)[i] = s[i + 1]
         /\ \A i \in DOMAIN s \ {1} : i - 1 \in DOMAIN Tail(s) /\ Tail(s)[i - 1] = s[i]
OBVIOUS

LEMMA RegisterKeeps ==
  ASSUME AccountsAssumption, Typed, NEW c \in Caller,
         \/ \E e \in Email : NextUserID(c, e)
         \/ InsertUser(c) \/ InsertDuplicate(c) \/ InsertFails(c) \/ Answered(c)
  PROVE  Typed' /\ UsersGrow
<1>1. ASSUME NEW e \in Email, NextUserID(c, e)
      PROVE  Typed' /\ UsersGrow
  <2> DEFINE next == [op |-> "insert", id |-> seq', email |-> e]
  <2>1. seq \in Nat /\ seq' = seq + 1 /\ seq' \in 0..MaxUsers /\ seq' \in ID
    BY <1>1 DEF NextUserID, Typed, UsersTyped, AccountsAssumption, ID
  <2>2. next \in Calls /\ Do(c, next)
    BY <1>1, <2>1 DEF NextUserID, Calls
  <2>3. call'[c] = next
    BY <2>2, CallStep
  <2>4. CallSound(c)'
    BY <2>1, <2>3 DEF CallSound, At
  <2>5. UNCHANGED <<users, result, status, errors, paid>>
    BY <1>1 DEF NextUserID
  <2>6. Known' = Known /\ 1..seq \subseteq 1..seq'
    BY <2>1, <2>5 DEF Known
  <2>7. UsersTyped'
    BY <2>1, <2>5, <2>6 DEF Typed, UsersTyped, Doc, Levels, Bought
  <2>8. ResultsTyped' /\ ResultsKept
    BY <2>5, <2>6 DEF Typed, ResultsTyped, Won, ID, ResultsKept
  <2>9. seq <= seq'
    BY <2>1
  <2> QED
    BY <2>2, <2>4, <2>5, <2>6, <2>7, <2>8, <2>9, StepTyped, SameGrow
<1>2. ASSUME At(c, "insert"), Insert(c), UNCHANGED <<seq, result, status, errors, paid>>,
             NEW next \in Calls, Do(c, next), CallSound(c)'
      PROVE  Typed' /\ UsersGrow
  <2>1. UsersTyped' /\ UsersGrow
    BY <1>2, InsertGrows
  <2>2. paid' \in [Game \X ID -> Nat]
    BY <1>2 DEF Typed, ResultsTyped
  <2> QED
    BY <1>2, <2>1, <2>2, UsersStep
<1>3. At(c, "insert") => call[c].id \in ID \cup {0} /\ call[c].email \in Email \cup Gun
  BY DEF Typed, Calls, Settling, Writing, At
<1>4. Answers' = Answers /\ "registered" \in Answers /\ "already exists" \in Answers
  BY DEF Answers
<1>5. CASE InsertUser(c)
  <2>1. CASE Failed(c)
    <3>1. Do(c, Idle)
      BY <2>1 DEF Failed
    <3>2. Idle \in Calls /\ CallSound(c)'
      BY <3>1, IdleSound
    <3> QED
      BY <1>2, <1>5, <3>1, <3>2 DEF InsertUser
  <2>2. CASE Tell(c, "registered", call[c].id, call[c].email)
    <3>1. At(c, "insert")
      BY <1>5 DEF InsertUser
    <3>2. PICK next \in Calls : Do(c, next) /\ CallSound(c)'
      BY <1>3, <1>4, <2>2, <3>1, ToldSound
    <3> QED
      BY <1>2, <1>5, <3>1, <3>2 DEF InsertUser
  <2> QED
    BY <1>5, <2>1, <2>2 DEF InsertUser
<1>6. CASE InsertDuplicate(c)
  <2>1. At(c, "insert") /\ Tell(c, "already exists", 0, call[c].email)
        /\ UNCHANGED <<seq, users, result, status, errors, paid>>
    BY <1>6 DEF InsertDuplicate
  <2>2. PICK next \in Calls : Do(c, next) /\ CallSound(c)'
    BY <1>3, <1>4, <2>1, ToldSound
  <2> QED
    BY <2>1, <2>2, QuietTyped
<1>7. CASE InsertFails(c)
  <2>1. At(c, "insert") /\ Do(c, Idle) /\ UNCHANGED <<seq, result, status, errors, paid>>
    BY <1>7 DEF InsertFails, Failed
  <2>2. Idle \in Calls /\ CallSound(c)'
    BY <2>1, IdleSound
  <2>3. CASE Insert(c)
    BY <1>2, <2>1, <2>2, <2>3
  <2>4. CASE UNCHANGED users
    BY <2>1, <2>2, <2>4, QuietTyped
  <2> QED
    BY <1>7, <2>3, <2>4 DEF InsertFails
<1>8. CASE Answered(c)
  <2>1. Do(c, Idle) /\ UNCHANGED <<seq, users, result, status, errors, paid>>
    BY <1>8 DEF Answered
  <2> QED
    BY <2>1, IdleSound, QuietTyped
<1> QED
  BY <1>1, <1>5, <1>6, <1>7, <1>8

\* The players of a game are finitely many, so that they can be put in order.
LEMMA OrderFacts ==
  ASSUME AccountsAssumption, Typed, NEW kills \in Results,
         NEW order \in SetToSeqs(DOMAIN kills)
  PROVE  /\ DOMAIN kills \subseteq Known
         /\ order \in Seq(ID)
         /\ \A i \in DOMAIN order : order[i] \in DOMAIN kills
         /\ \A i, j \in DOMAIN order : order[i] = order[j] => i = j
         /\ \A u \in DOMAIN kills : \E i \in DOMAIN order : order[i] = u
<1> DEFINE P == DOMAIN kills
           n == Cardinality(P)
<1>1. P \subseteq Known
  BY DEF Results
<1>2. seq \in Nat /\ seq <= MaxUsers /\ Known \subseteq 1..seq /\ MaxUsers \in Nat
  BY DEF Typed, UsersTyped, AccountsAssumption
<1> HIDE DEF P
<1>3. P \subseteq 1..seq /\ P \subseteq ID
  BY <1>1, <1>2 DEF ID
<1>4. IsFiniteSet(P)
  <2>1. IsFiniteSet(1..seq)
    BY <1>2, FS_Interval
  <2>2. P \in SUBSET (1..seq)
    BY <1>3
  <2> QED
    BY <2>1, <2>2, FS_Subset
<1>5. n \in Nat
  BY <1>4, FS_CardinalityType
<1>6. /\ order \in [1..n -> P]
      /\ \A i, j \in 1..n : i # j => order[i] # order[j]
  BY DEF SetToSeqs, P
<1>7. order \in Seq(ID) /\ DOMAIN order = 1..n
  <2>1. order \in [1..n -> ID] /\ DOMAIN order = 1..n
    BY <1>3, <1>6
  <2> DEFINE k == n
  <2>2. k \in Nat /\ order \in [1..k -> ID] /\ DOMAIN order = 1..k
    BY <1>5, <2>1
  <2> HIDE DEF k
  <2>3. order \in Seq(ID)
    BY <2>2, SeqDef
  <2> QED
    BY <2>1, <2>3
<1>8. \A u \in P : \E i \in 1..n : order[i] = u
  <2> DEFINE img == {order[i] : i \in 1..n}
  <2>1. img \subseteq P
    BY <1>6
  <2>2. order \in Bijection(1..n, img)
    <3>1. order \in [1..n -> img]
      BY <1>6
    <3>2. order \in Injection(1..n, img)
      BY <1>6, <3>1 DEF Injection, IsInjective
    <3>3. order \in Surjection(1..n, img)
      BY <3>1 DEF Surjection
    <3> QED
      BY <3>2, <3>3 DEF Bijection
  <2>3. Cardinality(1..n) = n /\ IsFiniteSet(1..n)
    <3> DEFINE k == n
    <3>1. k \in Nat
      BY <1>5
    <3> HIDE DEF k
    <3>2. Cardinality(1..k) = k /\ IsFiniteSet(1..k)
      BY <3>1, FS_Interval
    <3> QED
      BY <3>2 DEF k
  <2>4. ExistsBijection(1..n, img)
    BY <2>2 DEF ExistsBijection
  <2>5. Cardinality(img) = n
    BY <2>3, <2>4, FS_Bijection
  <2>6. img = P
    BY <1>4, <2>1, <2>5, FS_Subset
  <2> QED
    BY <2>6
<1> QED
  BY <1>1, <1>6, <1>7, <1>8 DEF P

LEMMA RewardWon ==
  ASSUME NEW kills, NEW p
  PROVE  Reward(kills, p) \in Won
<1> DEFINE rivals == DOMAIN kills \ {p}
           most == \A q \in rivals : kills[q] < kills[p]
           tie == \A q \in rivals : kills[q] = kills[p]
<1>1. \/ Reward(kills, p) = [coin |-> 300, exp |-> 200]
      \/ Reward(kills, p) = [coin |-> 1000, exp |-> 500]
      \/ Reward(kills, p) = [coin |-> 800, exp |-> 400]
  BY DEF Reward
<1> QED
  BY <1>1 DEF Won

LEMMA FinishKeeps ==
  ASSUME AccountsAssumption, Typed, NEW c \in Caller, NEW g \in Game,
         NEW kills \in Results, FinishRoom(c, g, kills)
  PROVE  Typed' /\ UsersGrow
<1>1. PICK order \in SetToSeqs(DOMAIN kills) :
        Do(c, [op |-> "read", game |-> g, todo |-> order, failed |-> {}])
  BY DEF FinishRoom
<1> DEFINE next == [op |-> "read", game |-> g, todo |-> order, failed |-> {}]
           won == [p \in DOMAIN kills |-> Reward(kills, p)]
<1>2. /\ DOMAIN kills \subseteq Known
      /\ order \in Seq(ID)
      /\ \A i \in DOMAIN order : order[i] \in DOMAIN kills
  BY OrderFacts
<1>3. next \in Calls
  BY <1>2 DEF Calls, Settling
<1>4. call'[c] = next
  BY <1>1, <1>3, CallStep
<1>5. /\ UNCHANGED <<seq, users, errors, paid>>
      /\ result' = [result EXCEPT ![g] = won] /\ status[g] = "none"
      /\ status' = [status EXCEPT ![g] = "sent"]
  BY DEF FinishRoom
<1>6. DOMAIN won = DOMAIN kills /\ \A p \in DOMAIN won : won[p] \in Won
  BY RewardWon
<1> HIDE DEF won
<1>7. Known' = Known
  BY <1>5 DEF Known
<1>8. ResultsTyped' /\ ResultsKept
  <2>1. DOMAIN result = Game /\ DOMAIN status = Game
    BY DEF Typed, ResultsTyped
  <2>2. \A h \in Game : result'[h] = IF h = g THEN won ELSE result[h]
    BY <1>5, <2>1
  <2>3. \A h \in Game : status'[h] = IF h = g THEN "sent" ELSE status[h]
    BY <1>5, <2>1
  <2>4. ResultsKept
    BY <1>5, <2>2, <2>3 DEF ResultsKept
  <2>5. DOMAIN result' = Game /\ status' \in [Game -> {"none", "sent", "lost", "answered"}]
    BY <1>5, <2>1 DEF Typed, ResultsTyped
  <2>6. \A h \in Game : /\ DOMAIN result'[h] \subseteq Known
                        /\ \A u \in DOMAIN result'[h] : result'[h][u] \in Won
    BY <1>2, <1>6, <2>2 DEF Typed, ResultsTyped
  <2>7. errors' \in [Game -> SUBSET ID] /\ paid' \in [Game \X ID -> Nat]
    BY <1>5 DEF Typed, ResultsTyped
  <2>8. Won' = Won /\ ID' = ID
    BY DEF Won, ID
  <2> QED
    BY <1>7, <2>4, <2>5, <2>6, <2>7, <2>8 DEF ResultsTyped
<1>9. CallSound(c)'
  <2>1. DOMAIN result = Game /\ DOMAIN status = Game
    BY DEF Typed, ResultsTyped
  <2>2. result'[g] = won /\ status'[g] = "sent"
    BY <1>5, <2>1
  <2> QED
    BY <1>2, <1>4, <1>6, <2>2 DEF CallSound, At
<1>10. UsersTyped' /\ Known \subseteq Known' /\ seq <= seq'
  <2>1. seq \in Int
    BY DEF Typed, UsersTyped
  <2>2. UsersTyped'
    BY <1>5, <1>7 DEF Typed, UsersTyped, Doc, Levels, Bought
  <2> QED
    BY <1>5, <1>7, <2>1, <2>2
<1> QED
  BY <1>1, <1>3, <1>5, <1>8, <1>9, <1>10, StepTyped, SameGrow

\* SettleUpRoom takes its next player, or leaves one out.
LEMMA SkipSound ==
  ASSUME Typed, NEW c \in Caller, call[c].op \in {"read", "write"}, call[c].todo # <<>>
  PROVE  /\ call[c].game \in Game /\ call[c].todo \in Seq(ID) /\ call[c].failed \in SUBSET ID
         /\ status[call[c].game] # "none"
         /\ Head(call[c].todo) \in DOMAIN result[call[c].game]
         /\ Head(call[c].todo) \in Known
         /\ Skip(c) \in Calls /\ AfterFailure(c) \in Calls /\ Skip(c) \in Settling
<1>1. call[c] \in Settling \cup Writing
  BY DEF Typed, Calls
<1>2. call[c].game \in Game /\ call[c].todo \in Seq(ID) /\ call[c].failed \in SUBSET ID
  BY <1>1 DEF Settling, Writing
<1>3. Tail(call[c].todo) \in Seq(ID) /\ Head(call[c].todo) \in ID
  BY <1>2, TailFacts
<1>4. Skip(c) \in Settling
  BY <1>2, <1>3 DEF Skip, Settling
<1>5. AfterFailure(c) \in Settling
  BY <1>2, <1>3 DEF AfterFailure, Skip, Settling
<1>6. status[call[c].game] # "none" /\ Head(call[c].todo) \in DOMAIN result[call[c].game]
  BY <1>2, TailFacts DEF Typed, CallSound
<1> QED
  BY <1>2, <1>4, <1>5, <1>6 DEF Calls, Typed, ResultsTyped

LEMMA SkippedSound ==
  ASSUME Typed, NEW c \in Caller, call[c].op \in {"read", "write"}, call[c].todo # <<>>,
         Do(c, Skip(c)) \/ Do(c, AfterFailure(c)), UNCHANGED <<status, result>>
  PROVE  CallSound(c)'
<1>1. /\ Skip(c) \in Calls /\ AfterFailure(c) \in Calls /\ call[c].todo \in Seq(ID)
      /\ status[call[c].game] # "none"
  BY SkipSound
<1>2. call'[c] = Skip(c) \/ call'[c] = AfterFailure(c)
  BY <1>1, CallStep
<1>3. /\ call'[c].op = "read" /\ call'[c].game = call[c].game
      /\ call'[c].todo = Tail(call[c].todo)
  <2>1. /\ Skip(c).op = "read" /\ Skip(c).game = call[c].game
        /\ Skip(c).todo = Tail(call[c].todo)
    BY DEF Skip
  <2>2. /\ AfterFailure(c).op = Skip(c).op /\ AfterFailure(c).game = Skip(c).game
        /\ AfterFailure(c).todo = Skip(c).todo
    <3> DEFINE r == Skip(c)
    <3>1. r \in Settling
      BY SkipSound
    <3>2. AfterFailure(c) = [r EXCEPT !.failed = @ \cup {Head(call[c].todo)}]
      BY DEF AfterFailure
    <3> HIDE DEF r
    <3>3. /\ AfterFailure(c).op = r.op /\ AfterFailure(c).game = r.game
          /\ AfterFailure(c).todo = r.todo
      BY <3>1, <3>2 DEF Settling
    <3> QED
      BY <3>3 DEF r
  <2>3. CASE call'[c] = Skip(c)
    BY <2>1, <2>3
  <2>4. CASE call'[c] = AfterFailure(c)
    BY <2>1, <2>2, <2>4
  <2> QED
    BY <1>2, <2>3, <2>4
<1>4. ASSUME NEW i \in DOMAIN Tail(call[c].todo)
      PROVE  Tail(call[c].todo)[i] \in DOMAIN result[call[c].game]
  <2>1. \A k \in DOMAIN call[c].todo : call[c].todo[k] \in DOMAIN result[call[c].game]
    BY DEF Typed, CallSound
  <2>2. i + 1 \in DOMAIN call[c].todo /\ Tail(call[c].todo)[i] = call[c].todo[i + 1]
    BY <1>1, TailFacts
  <2> QED
    BY <2>1, <2>2
<1> QED
  BY <1>1, <1>3, <1>4 DEF CallSound, At

LEMMA SettleKeeps ==
  ASSUME AccountsAssumption, Typed, NEW c \in Caller,
         \/ SettleRead(c) \/ SettleReadFails(c)
         \/ SettleWrite(c) \/ SettleWriteFails(c) \/ SettleDone(c)
  PROVE  Typed' /\ UsersGrow
<1>1. CASE SettleRead(c)
  <2> DEFINE next == [op |-> "write", game |-> call[c].game, todo |-> call[c].todo,
                      failed |-> call[c].failed, exp |-> users[Head(call[c].todo)].exp]
  <2>1. /\ At(c, "read") /\ call[c].todo # <<>> /\ Do(c, next)
        /\ UNCHANGED <<seq, users, result, status, errors, paid>>
    BY <1>1 DEF SettleRead
  <2>2. /\ call[c].game \in Game /\ call[c].todo \in Seq(ID)
        /\ call[c].failed \in SUBSET ID
        /\ Head(call[c].todo) \in Known
    BY <2>1, SkipSound DEF At
  <2>3. users[Head(call[c].todo)].exp \in Nat
    BY <2>2 DEF Typed, UsersTyped, Doc
  <2>4. next \in Calls
    BY <2>2, <2>3 DEF Calls, Writing
  <2>5. call'[c] = next
    BY <2>1, <2>4, CallStep
  <2>6. CallSound(c)'
    BY <2>1, <2>5 DEF CallSound, At, Typed
  <2> QED
    BY <2>1, <2>4, <2>6, QuietTyped
<1>2. CASE SettleReadFails(c)
  <2>1. /\ At(c, "read") /\ call[c].todo # <<>> /\ Do(c, AfterFailure(c))
        /\ UNCHANGED <<seq, users, result, status, errors, paid>>
    BY <1>2 DEF SettleReadFails
  <2>2. AfterFailure(c) \in Calls
    BY <2>1, SkipSound DEF At
  <2>3. CallSound(c)'
    BY <2>1, SkippedSound DEF At
  <2> QED
    BY <2>1, <2>2, <2>3, QuietTyped
<1>3. ASSUME At(c, "write"), Do(c, Skip(c)) \/ Do(c, AfterFailure(c)),
             UNCHANGED <<seq, result, status, errors>>,
             AddExpLevelCoin(c) \/ UNCHANGED <<users, paid>>
      PROVE  Typed' /\ UsersGrow
  <2>1. call[c].todo # <<>> /\ call[c].op \in {"read", "write"}
    BY <1>3 DEF Typed, CallSound, At
  <2>2. Skip(c) \in Calls /\ AfterFailure(c) \in Calls
    BY <2>1, SkipSound
  <2>3. CallSound(c)'
    BY <1>3, <2>1, SkippedSound
  <2>4. CASE UNCHANGED <<users, paid>>
    BY <1>3, <2>2, <2>3, <2>4, QuietTyped
  <2>5. CASE AddExpLevelCoin(c)
    <3> DEFINE x == <<call[c].game, Head(call[c].todo)>>
    <3>1. /\ UsersTyped' /\ UsersGrow
          /\ paid' = [paid EXCEPT ![x] = @ + 1]
          /\ call[c].game \in Game /\ Head(call[c].todo) \in Known
      BY <1>3, <2>5, RewardGrows
    <3>2. paid' \in [Game \X ID -> Nat]
      <4>1. Known \subseteq ID
        BY DEF Typed, UsersTyped, AccountsAssumption, ID
      <4>2. x \in Game \X ID /\ paid \in [Game \X ID -> Nat]
        BY <3>1, <4>1 DEF Typed, ResultsTyped
      <4> HIDE DEF x
      <4>3. paid[x] + 1 \in Nat
        BY <4>2
      <4> QED
        BY <3>1, <4>2, <4>3
    <3> QED
      BY <1>3, <2>2, <2>3, <3>1, <3>2, UsersStep
  <2> QED
    BY <1>3, <2>4, <2>5
<1>4. CASE SettleWrite(c)
  BY <1>3, <1>4 DEF SettleWrite
<1>5. CASE SettleWriteFails(c)
  BY <1>3, <1>5 DEF SettleWriteFails
<1>6. CASE SettleDone(c)
  <2> DEFINE g == call[c].game
  <2>1. /\ At(c, "read") /\ Do(c, Idle) /\ UNCHANGED <<seq, users, result, paid>>
        /\ status' = [status EXCEPT ![g] = "answered"]
        /\ errors' = [errors EXCEPT ![g] = call[c].failed]
    BY <1>6 DEF SettleDone
  <2>2. g \in Game /\ call[c].failed \in SUBSET ID
    BY <2>1 DEF Typed, Calls, Settling, Writing, At
  <2>3. Known' = Known
    BY <2>1 DEF Known
  <2>4. ResultsTyped' /\ ResultsKept
    <3>1. status' \in [Game -> {"none", "sent", "lost", "answered"}]
      BY <2>1, <2>2 DEF Typed, ResultsTyped
    <3>2. errors' \in [Game -> SUBSET ID]
      BY <2>1, <2>2 DEF Typed, ResultsTyped
    <3>3. ResultsKept
      BY <2>1, <2>2 DEF Typed, ResultsTyped, ResultsKept
    <3> QED
      BY <2>1, <2>3, <3>1, <3>2, <3>3 DEF Typed, ResultsTyped, ID, Won
  <2>5. UsersTyped'
    BY <2>1, <2>3 DEF Typed, UsersTyped, Doc, Levels, Bought
  <2>6. seq <= seq'
    BY <2>1 DEF Typed, UsersTyped
  <2> QED
    BY <2>1, <2>3, <2>4, <2>5, <2>6, IdleSound, StepTyped, SameGrow
<1> QED
  BY <1>1, <1>2, <1>4, <1>5, <1>6

LEMMA LostKeeps ==
  ASSUME Typed, NEW g \in Game, RequestLost(g)
  PROVE  Typed' /\ UsersGrow
<1>1. /\ UNCHANGED <<seq, users, result, errors, paid, call>>
      /\ status[g] = "none" /\ status' = [status EXCEPT ![g] = "lost"]
  BY DEF RequestLost
<1>2. Known' = Known
  BY <1>1 DEF Known
<1>3. status' \in [Game -> {"none", "sent", "lost", "answered"}]
  BY <1>1 DEF Typed, ResultsTyped
<1>4. UsersTyped' /\ ResultsTyped'
  BY <1>1, <1>2, <1>3 DEF Typed, UsersTyped, ResultsTyped, Doc, Levels, Bought, Won, ID
<1>5. ASSUME NEW c \in Caller
      PROVE  CallSound(c)'
  <2>1. CASE call[c].op \in {"read", "write"}
    <3>1. call[c].game \in Game /\ CallSound(c)
      BY <2>1 DEF Typed, Calls, Settling, Writing
    <3> QED
      BY <1>1, <1>2, <2>1, <3>1 DEF CallSound, At, Typed, ResultsTyped
  <2>2. CASE call[c].op \notin {"read", "write"}
    BY <1>1, <1>2, <2>2 DEF CallSound, At, Typed
  <2> QED
    BY <2>1, <2>2
<1>6. call' \in [Caller -> Calls]'
  BY <1>1 DEF Typed, Calls, Settling, Writing, Bought, ID, Answers
<1> QED
  BY <1>1, <1>4, <1>5, <1>6, SameGrow DEF Typed

LEMMA KnownIDs ==
  ASSUME AccountsAssumption, Typed
  PROVE  Known \subseteq ID
BY DEF Typed, UsersTyped, AccountsAssumption, ID

\* Who buys, who asks why, and what.
LEMMA BuyerFacts ==
  ASSUME Typed, NEW c \in Caller, call[c].op \in {"buy", "why"}
  PROVE  /\ call[c].user \in Known /\ call[c].gun \in Bought
         /\ At(c, "why") => call[c].had \in Nat
<1>1. call[c] \in Calls /\ CallSound(c)
  BY DEF Typed
<1>2. call[c].gun \in Bought /\ (At(c, "why") => call[c].had \in Nat)
  BY <1>1 DEF Calls, Settling, Writing, At
<1> QED
  BY <1>1, <1>2 DEF CallSound

LEMMA MallKeeps ==
  ASSUME AccountsAssumption, Typed, NEW c \in Caller,
         \/ \E u \in Known : \E gun \in Gun : \E price \in Prices :
              LookUpGun(c, u, gun, price)
         \/ BuyGun(c) \/ BuyMisses(c) \/ BuyFails(c) \/ Explain(c)
  PROVE  Typed' /\ UsersGrow
<1>1. Known \subseteq ID
  BY KnownIDs
<1>2. ASSUME NEW u \in Known, NEW gun \in Gun, NEW price \in Prices,
             LookUpGun(c, u, gun, price)
      PROVE  Typed' /\ UsersGrow
  <2> DEFINE next == [op |-> "buy", user |-> u, gun |-> [id |-> gun, price |-> price]]
  <2>1. Do(c, next) /\ UNCHANGED <<seq, users, result, status, errors, paid>>
    BY <1>2 DEF LookUpGun
  <2>2. next \in Calls
    BY <1>1 DEF Calls, Bought
  <2>3. call'[c] = next
    BY <2>1, <2>2, CallStep
  <2>4. CallSound(c)'
    BY <2>1, <2>3 DEF CallSound, At, Known
  <2> QED
    BY <2>1, <2>2, <2>4, QuietTyped
<1>3. Answers' = Answers /\ "ok" \in Answers /\ "not enough coins" \in Answers
      /\ "gun already owned" \in Answers
  BY DEF Answers
<1>4. ASSUME At(c, "buy"), CanBuy(call[c].user, call[c].gun),
             users' = [users EXCEPT ![call[c].user] = SellGun(@, call[c].gun)],
             UNCHANGED <<seq, result, status, errors, paid>>,
             NEW next \in Calls, Do(c, next), CallSound(c)'
      PROVE  Typed' /\ UsersGrow
  <2>1. call[c].user \in Known /\ call[c].gun \in Bought
    BY <1>4, BuyerFacts DEF At
  <2>2. UsersTyped' /\ UsersGrow
    BY <1>4, <2>1, SellGrows
  <2>3. paid' \in [Game \X ID -> Nat]
    BY <1>4 DEF Typed, ResultsTyped
  <2> QED
    BY <1>4, <2>2, <2>3, UsersStep
<1>5. CASE BuyGun(c)
  <2>1. /\ At(c, "buy") /\ CanBuy(call[c].user, call[c].gun)
        /\ users' = [users EXCEPT ![call[c].user] = SellGun(@, call[c].gun)]
        /\ Tell(c, "ok", call[c].user, call[c].gun.id)
        /\ UNCHANGED <<seq, result, status, errors, paid>>
    BY <1>5 DEF BuyGun
  <2>2. call[c].user \in ID \cup {0} /\ call[c].gun.id \in Email \cup Gun
    BY <1>1, <2>1, BuyerFacts DEF At, Bought
  <2>3. PICK next \in Calls : Do(c, next) /\ CallSound(c)'
    BY <1>3, <2>1, <2>2, ToldSound
  <2> QED
    BY <1>4, <2>1, <2>3
<1>6. CASE BuyMisses(c)
  <2> DEFINE next == [op |-> "why", user |-> call[c].user, gun |-> call[c].gun,
                      had |-> users[call[c].user].coins]
  <2>1. /\ At(c, "buy") /\ Do(c, next)
        /\ UNCHANGED <<seq, users, result, status, errors, paid>>
    BY <1>6 DEF BuyMisses
  <2>2. call[c].user \in Known /\ call[c].gun \in Bought
    BY <2>1, BuyerFacts DEF At
  <2>3. users[call[c].user].coins \in Nat
    BY <2>2 DEF Typed, UsersTyped, Doc
  <2>4. next \in Calls
    BY <1>1, <2>2, <2>3 DEF Calls
  <2>5. call'[c] = next
    BY <2>1, <2>4, CallStep
  <2>6. CallSound(c)'
    BY <2>1, <2>2, <2>5 DEF CallSound, At, Known
  <2> QED
    BY <2>1, <2>4, <2>6, QuietTyped
<1>7. CASE BuyFails(c)
  <2>1. At(c, "buy") /\ Do(c, Idle) /\ UNCHANGED <<seq, result, status, errors, paid>>
    BY <1>7 DEF BuyFails, Failed
  <2>2. Idle \in Calls /\ CallSound(c)'
    BY <2>1, IdleSound
  <2>3. CASE UNCHANGED users
    BY <2>1, <2>2, <2>3, QuietTyped
  <2>4. CASE /\ CanBuy(call[c].user, call[c].gun)
             /\ users' = [users EXCEPT ![call[c].user] = SellGun(@, call[c].gun)]
    BY <1>4, <2>1, <2>2, <2>4
  <2> QED
    BY <1>7, <2>3, <2>4 DEF BuyFails
<1>8. CASE Explain(c)
  <2>1. /\ At(c, "why") /\ UNCHANGED <<seq, users, result, status, errors, paid>>
        /\ \/ Tell(c, Reason(call[c].user, call[c].gun), call[c].user, call[c].gun.id)
           \/ Failed(c)
    BY <1>8 DEF Explain
  <2>2. call[c].user \in ID \cup {0} /\ call[c].gun.id \in Email \cup Gun
    BY <1>1, <2>1, BuyerFacts DEF At, Bought
  <2>3. Reason(call[c].user, call[c].gun) \in Answers
    BY <1>3 DEF Reason
  <2>4. CASE Failed(c)
    BY <2>1, <2>4, IdleSound, QuietTyped DEF Failed
  <2>5. CASE Tell(c, Reason(call[c].user, call[c].gun), call[c].user, call[c].gun.id)
    <3>1. PICK next \in Calls : Do(c, next) /\ CallSound(c)'
      BY <2>2, <2>3, <2>5, ToldSound
    <3> QED
      BY <2>1, <3>1, QuietTyped
  <2> QED
    BY <2>1, <2>4, <2>5
<1> QED
  BY <1>2, <1>5, <1>6, <1>7, <1>8

LEMMA ModifyKeeps ==
  ASSUME AccountsAssumption, Typed, NEW c \in Caller,
         \/ \E u \in Known : FindToModify(c, u) \/ EquipGun(c, u)
         \/ ModifyProfile(c)
  PROVE  Typed' /\ UsersGrow
<1>1. Known \subseteq ID
  BY KnownIDs
<1>2. ASSUME NEW u \in Known, FindToModify(c, u)
      PROVE  Typed' /\ UsersGrow
  <2> DEFINE next == [op |-> "modify", user |-> u]
  <2>1. Do(c, next) /\ UNCHANGED <<seq, users, result, status, errors, paid>>
    BY <1>2 DEF FindToModify
  <2>2. next \in Calls
    BY <1>1 DEF Calls
  <2>3. call'[c] = next
    BY <2>1, <2>2, CallStep
  <2>4. CallSound(c)'
    BY <2>1, <2>3 DEF CallSound, At, Known
  <2> QED
    BY <2>1, <2>2, <2>4, QuietTyped
<1>3. ASSUME NEW u \in Known, SetProfile(u), UNCHANGED <<seq, result, status, errors, paid>>,
             NEW next \in Calls, Do(c, next), CallSound(c)'
      PROVE  Typed' /\ UsersGrow
  <2>1. UsersTyped' /\ UsersGrow
    BY <1>3, ProfileGrows
  <2>2. paid' \in [Game \X ID -> Nat]
    BY <1>3 DEF Typed, ResultsTyped
  <2> QED
    BY <1>3, <2>1, <2>2, UsersStep
<1>4. ASSUME NEW u \in Known, EquipGun(c, u)
      PROVE  Typed' /\ UsersGrow
  <2>1. /\ At(c, "idle") /\ SetProfile(u)
        /\ UNCHANGED <<seq, result, status, errors, paid, call>>
    BY <1>4 DEF EquipGun
  <2>2. call[c] \in Calls /\ Do(c, call[c])
    BY <2>1 DEF Typed, Do
  <2>3. CallSound(c)'
    BY <2>1 DEF CallSound, At
  <2> QED
    BY <1>3, <2>1, <2>2, <2>3
<1>5. CASE ModifyProfile(c)
  <2>1. /\ At(c, "modify") /\ Do(c, Idle) /\ UNCHANGED <<seq, result, status, errors, paid>>
        /\ SetProfile(call[c].user) \/ UNCHANGED users
    BY <1>5 DEF ModifyProfile
  <2>2. Idle \in Calls /\ CallSound(c)' /\ call[c].user \in Known
    BY <2>1, IdleSound DEF Typed, CallSound, At
  <2> QED
    BY <1>3, <2>1, <2>2, QuietTyped
<1> QED
  BY <1>2, <1>4, <1>5

LEMMA NextKeeps ==
  ASSUME AccountsAssumption, Typed, Next
  PROVE  Typed' /\ UsersGrow
<1>1. ASSUME NEW c \in Caller, CallerStep(c)
      PROVE  Typed' /\ UsersGrow
  BY <1>1, RegisterKeeps, FinishKeeps, SettleKeeps, MallKeeps, ModifyKeeps DEF CallerStep
<1> QED
  BY <1>1, LostKeeps DEF Next

LEMMA StutterKeeps ==
  ASSUME Typed, UNCHANGED vars
  PROVE  Typed' /\ UsersGrow
<1>1. UNCHANGED <<seq, users, result, status, errors, paid, call>>
  BY DEF vars
<1>2. Known' = Known
  BY <1>1 DEF Known
<1>3. UsersTyped' /\ ResultsTyped'
  BY <1>1, <1>2 DEF Typed, UsersTyped, ResultsTyped, Doc, Levels, Bought, Won, ID
<1>4. call' \in [Caller -> Calls]'
  BY <1>1 DEF Typed, Calls, Settling, Writing, Bought, ID, Answers
<1>5. \A c \in Caller : CallSound(c)'
  BY <1>1, <1>2 DEF Typed, CallSound, At
<1> QED
  BY <1>1, <1>3, <1>4, <1>5, SameGrow DEF Typed

LEMMA InitTyped ==
  ASSUME AccountsAssumption, Init
  PROVE  Typed
<1>1. Known = {} /\ seq = 0 /\ users \in [Known -> Doc]
  BY DEF Init, Known
<1>2. UsersTyped
  BY <1>1 DEF UsersTyped, AccountsAssumption
<1>3. ResultsTyped
  BY DEF Init, ResultsTyped
<1>4. call \in [Caller -> Calls] /\ \A c \in Caller : call[c] = Idle
  BY DEF Init, Idle, Calls
<1>5. \A c \in Caller : CallSound(c)
  BY <1>4 DEF CallSound, At, Idle
<1> QED
  BY <1>2, <1>3, <1>4, <1>5 DEF Typed

LEMMA AlwaysTyped == Spec => []Typed
<1>1. Init => Typed
  BY InitTyped, AccountsAssumption
<1>2. Typed /\ [Next]_vars => Typed'
  BY NextKeeps, StutterKeeps, AccountsAssumption
<1> QED
  BY <1>1, <1>2, PTL DEF Spec

\* The documents and the books of the settlements keep their types.
THEOREM AlwaysTypeOK == Spec => []TypeOK
<1>1. ASSUME Typed
      PROVE  TypeOK
  <2>1. \A u \in Known : users[u] \in Doc
    BY <1>1 DEF Typed, UsersTyped
  <2> QED
    BY <1>1, <2>1 DEF Typed, UsersTyped, ResultsTyped, TypeOK, Doc, Levels, Bought
<1> QED
  BY <1>1, AlwaysTyped, PTL

\* No step takes a user, its email, its experience or a gun away.
LEMMA AlwaysGrow == Spec => [][UsersGrow]_vars
<1>1. Typed /\ [Next]_vars => [UsersGrow]_vars
  BY NextKeeps, AccountsAssumption
<1> QED
  BY <1>1, AlwaysTyped, PTL DEF Spec

-----------------------------------------------------------------------------
(* What a caller is doing before and after its steps.                      *)

\* A step leaves what the other callers are doing, and where it leaves its own says
\* which one it was.
LEMMA RegisterMoves ==
  ASSUME Typed, NEW c \in Caller
  PROVE  /\ \A e \in Email : NextUserID(c, e) => At(c, "idle") /\ At(c, "insert")'
         /\ InsertUser(c) => At(c, "insert") /\ call'[c].op \in {"told", "idle"}
         /\ InsertDuplicate(c) => At(c, "insert") /\ At(c, "told")'
         /\ InsertFails(c) => At(c, "insert") /\ At(c, "idle")'
         /\ Answered(c) => At(c, "told") /\ At(c, "idle")'
<1>1. ASSUME NEW e \in Email, NextUserID(c, e)
      PROVE  At(c, "idle") /\ At(c, "insert")'
  BY <1>1 DEF NextUserID, Do, At, Typed
<1>2. InsertUser(c) => At(c, "insert") /\ call'[c].op \in {"told", "idle"}
  BY DEF InsertUser, Tell, Failed, Idle, Do, At, Typed
<1>3. InsertDuplicate(c) => At(c, "insert") /\ At(c, "told")'
  <2> DEFINE next == [op |-> "told", answer |-> "already exists", user |-> 0,
                      about |-> call[c].email]
  <2>1. next.op = "told"
    OBVIOUS
  <2>2. InsertDuplicate(c) => At(c, "insert") /\ Do(c, next)
    BY DEF InsertDuplicate, Tell
  <2> HIDE DEF next
  <2> QED
    BY <2>1, <2>2 DEF Do, At, Typed
<1>4. InsertFails(c) => At(c, "insert") /\ At(c, "idle")'
  BY DEF InsertFails, Failed, Idle, Do, At, Typed
<1>5. Answered(c) => At(c, "told") /\ At(c, "idle")'
  BY DEF Answered, Idle, Do, At, Typed
<1> QED
  BY <1>1, <1>2, <1>3, <1>4, <1>5

LEMMA SettleMoves ==
  ASSUME Typed, NEW c \in Caller
  PROVE  /\ \A g \in Game : \A kills \in Results :
              FinishRoom(c, g, kills) => At(c, "idle") /\ At(c, "read")'
         /\ SettleRead(c) => At(c, "read") /\ At(c, "write")'
         /\ SettleReadFails(c) => At(c, "read") /\ At(c, "read")'
         /\ SettleWrite(c) => At(c, "write") /\ At(c, "read")'
         /\ SettleWriteFails(c) => At(c, "write") /\ At(c, "read")'
         /\ SettleDone(c) => At(c, "read") /\ At(c, "idle")'
<1>1. ASSUME NEW g \in Game, NEW kills \in Results, FinishRoom(c, g, kills)
      PROVE  At(c, "idle") /\ At(c, "read")'
  BY <1>1 DEF FinishRoom, Do, At, Typed
<1>2. SettleRead(c) => At(c, "read") /\ At(c, "write")'
  BY DEF SettleRead, Do, At, Typed
<1>3. AfterFailure(c).op = "read" /\ Skip(c).op = "read"
  BY DEF AfterFailure, Skip
<1>4. SettleReadFails(c) => At(c, "read") /\ At(c, "read")'
  BY <1>3 DEF SettleReadFails, Do, At, Typed
<1>5. SettleWrite(c) => At(c, "write") /\ At(c, "read")'
  BY <1>3 DEF SettleWrite, Do, At, Typed
<1>6. SettleWriteFails(c) => At(c, "write") /\ At(c, "read")'
  BY <1>3 DEF SettleWriteFails, Do, At, Typed
<1>7. SettleDone(c) => At(c, "read") /\ At(c, "idle")'
  BY DEF SettleDone, Idle, Do, At, Typed
<1> QED
  BY <1>1, <1>2, <1>4, <1>5, <1>6, <1>7

LEMMA MallMoves ==
  ASSUME Typed, NEW c \in Caller
  PROVE  /\ \A u \in Known : \A gun \in Gun : \A price \in Prices :
              LookUpGun(c, u, gun, price) => At(c, "idle") /\ At(c, "buy")'
         /\ BuyGun(c) => At(c, "buy") /\ At(c, "told")'
         /\ BuyMisses(c) => At(c, "buy") /\ At(c, "why")'
         /\ BuyFails(c) => At(c, "buy") /\ At(c, "idle")'
         /\ Explain(c) => At(c, "why") /\ call'[c].op \in {"told", "idle"}
         /\ \A u \in Known : FindToModify(c, u) => At(c, "idle") /\ At(c, "modify")'
         /\ \A u \in Known : EquipGun(c, u) => At(c, "idle") /\ At(c, "idle")'
         /\ ModifyProfile(c) => At(c, "modify") /\ At(c, "idle")'
<1>1. ASSUME NEW u \in Known, NEW gun \in Gun, NEW price \in Prices,
             LookUpGun(c, u, gun, price)
      PROVE  At(c, "idle") /\ At(c, "buy")'
  BY <1>1 DEF LookUpGun, Do, At, Typed
<1>2. BuyGun(c) => At(c, "buy") /\ At(c, "told")'
  BY DEF BuyGun, Tell, Do, At, Typed
<1>3. BuyMisses(c) => At(c, "buy") /\ At(c, "why")'
  BY DEF BuyMisses, Do, At, Typed
<1>4. BuyFails(c) => At(c, "buy") /\ At(c, "idle")'
  BY DEF BuyFails, Failed, Idle, Do, At, Typed
<1>5. Explain(c) => At(c, "why") /\ call'[c].op \in {"told", "idle"}
  BY DEF Explain, Tell, Failed, Idle, Do, At, Typed
<1>6. ASSUME NEW u \in Known
      PROVE  /\ FindToModify(c, u) => At(c, "idle") /\ At(c, "modify")'
             /\ EquipGun(c, u) => At(c, "idle") /\ At(c, "idle")'
  BY DEF FindToModify, EquipGun, Do, At, Typed
<1>7. ModifyProfile(c) => At(c, "modify") /\ At(c, "idle")'
  BY DEF ModifyProfile, Idle, Do, At, Typed
<1> QED
  BY <1>1, <1>2, <1>3, <1>4, <1>5, <1>6, <1>7

LEMMA OthersStay ==
  ASSUME Typed, NEW c \in Caller, CallerStep(c), NEW d \in Caller \ {c}
  PROVE  call'[d] = call[d]
<1>1. ASSUME NEW next, Do(c, next)
      PROVE  call'[d] = call[d]
  BY <1>1 DEF Do, Typed
<1>2. CASE \/ \E e \in Email : NextUserID(c, e)
           \/ InsertUser(c) \/ InsertDuplicate(c) \/ InsertFails(c) \/ Answered(c)
  BY <1>1, <1>2 DEF NextUserID, InsertUser, InsertDuplicate, InsertFails, Answered, Tell, Failed
<1>3. CASE \/ \E g \in Game : \E kills \in Results : FinishRoom(c, g, kills)
           \/ SettleRead(c) \/ SettleReadFails(c)
           \/ SettleWrite(c) \/ SettleWriteFails(c) \/ SettleDone(c)
  BY <1>1, <1>3 DEF FinishRoom, SettleRead, SettleReadFails, SettleWrite, SettleWriteFails,
                    SettleDone
<1>4. CASE \/ \E u \in Known : \E gun \in Gun : \E price \in Prices :
                LookUpGun(c, u, gun, price)
           \/ BuyGun(c) \/ BuyMisses(c) \/ BuyFails(c) \/ Explain(c)
  BY <1>1, <1>4 DEF LookUpGun, BuyGun, BuyMisses, BuyFails, Explain, Tell, Failed
<1>5. CASE \/ \E u \in Known : FindToModify(c, u) \/ EquipGun(c, u)
           \/ ModifyProfile(c)
  BY <1>1, <1>5 DEF FindToModify, EquipGun, ModifyProfile
<1> QED
  BY <1>2, <1>3, <1>4, <1>5 DEF CallerStep

\* The steps that lead to what the properties are about, and away from it.
LEMMA WhichStep ==
  ASSUME Typed, NEW c \in Caller, CallerStep(c)
  PROVE  /\ At(c, "insert")' => \E e \in Email : NextUserID(c, e)
         /\ At(c, "told")' =>
              InsertUser(c) \/ InsertDuplicate(c) \/ BuyGun(c) \/ Explain(c)
         /\ At(c, "why")' => BuyMisses(c)
         /\ At(c, "write")' => SettleRead(c)
         /\ At(c, "why") => Explain(c)
         /\ At(c, "write") => SettleWrite(c) \/ SettleWriteFails(c)
         /\ At(c, "insert") => InsertUser(c) \/ InsertDuplicate(c) \/ InsertFails(c)
<1>1. CASE \/ \E e \in Email : NextUserID(c, e)
           \/ InsertUser(c) \/ InsertDuplicate(c) \/ InsertFails(c) \/ Answered(c)
  BY <1>1, RegisterMoves DEF At
<1>2. CASE \/ \E g \in Game : \E kills \in Results : FinishRoom(c, g, kills)
           \/ SettleRead(c) \/ SettleReadFails(c)
           \/ SettleWrite(c) \/ SettleWriteFails(c) \/ SettleDone(c)
  BY <1>2, SettleMoves DEF At
<1>3. CASE \/ \E u \in Known : \E gun \in Gun : \E price \in Prices :
                LookUpGun(c, u, gun, price)
           \/ BuyGun(c) \/ BuyMisses(c) \/ BuyFails(c) \/ Explain(c)
           \/ \E u \in Known : FindToModify(c, u) \/ EquipGun(c, u)
           \/ ModifyProfile(c)
  BY <1>3, MallMoves DEF At
<1> QED
  BY <1>1, <1>2, <1>3 DEF CallerStep

\* Only an insert makes a user known.
LEMMA KnownMoves ==
  ASSUME AccountsAssumption, Typed, NEW c \in Caller, CallerStep(c), Known' # Known
  PROVE  At(c, "insert") /\ Insert(c) /\ Known' = Known \cup {call[c].id}
<1>1. UNCHANGED users => Known' = Known
  BY DEF Known
<1>2. ASSUME NEW u, NEW doc, users' = [users EXCEPT ![u] = doc]
      PROVE  Known' = Known
  BY <1>2 DEF Known, Typed, UsersTyped
<1>3. AddExpLevelCoin(c) => Known' = Known
  BY DEF AddExpLevelCoin, Known, Typed, UsersTyped
<1>4. CASE \/ \E e \in Email : NextUserID(c, e)
           \/ InsertUser(c) \/ InsertDuplicate(c) \/ InsertFails(c) \/ Answered(c)
  <2>1. At(c, "insert") /\ Insert(c) /\ UNCHANGED seq
    BY <1>1, <1>4 DEF NextUserID, InsertUser, InsertDuplicate, InsertFails, Answered
  <2> QED
    BY <2>1, InsertGrows
<1>5. CASE \/ \E g \in Game : \E kills \in Results : FinishRoom(c, g, kills)
           \/ SettleRead(c) \/ SettleReadFails(c)
           \/ SettleWrite(c) \/ SettleWriteFails(c) \/ SettleDone(c)
  BY <1>1, <1>3, <1>5 DEF FinishRoom, SettleRead, SettleReadFails, SettleWrite,
                          SettleWriteFails, SettleDone
<1>6. CASE \/ \E u \in Known : \E gun \in Gun : \E price \in Prices :
                LookUpGun(c, u, gun, price)
           \/ BuyGun(c) \/ BuyMisses(c) \/ BuyFails(c) \/ Explain(c)
  BY <1>1, <1>2, <1>6 DEF LookUpGun, BuyGun, BuyMisses, BuyFails, Explain
<1>7. CASE \/ \E u \in Known : FindToModify(c, u) \/ EquipGun(c, u)
           \/ ModifyProfile(c)
  <2>1. \A u : SetProfile(u) => Known' = Known
    BY DEF SetProfile, Known, Typed, UsersTyped
  <2> QED
    BY <1>1, <1>7, <2>1 DEF FindToModify, EquipGun, ModifyProfile
<1> QED
  BY <1>4, <1>5, <1>6, <1>7 DEF CallerStep

-----------------------------------------------------------------------------
(* Guns.                                                                   *)

\* No user gets a gun twice, whatever the prices become and however many purchases of
\* it are under way (the filter of BuyGunToPlayerWare).
THEOREM AlwaysGunOnce == Spec => []GunOnce
<1>1. ASSUME Init
      PROVE  GunOnce
  BY <1>1 DEF Init, GunOnce, Known
<1>2. ASSUME GunOnce, Typed, Typed', UsersGrow
      PROVE  GunOnce'
  <2>1. SUFFICES ASSUME NEW u \in Known',
                        NEW i \in DOMAIN users'[u].guns, NEW j \in DOMAIN users'[u].guns,
                        users'[u].guns[i].id = users'[u].guns[j].id
                 PROVE  i = j
    BY DEF GunOnce
  <2>2. CASE u \notin Known
    BY <1>2, <2>1, <2>2 DEF UsersGrow
  <2>3. CASE u \in Known
    <3> DEFINE old == users[u].guns
               new == users'[u].guns
    <3>1. old \in Seq(Bought) /\ DocGrows(users[u], users'[u])
      BY <1>2, <2>3 DEF Typed, UsersTyped, Doc, UsersGrow
    <3>2. \A k, l \in DOMAIN old : old[k].id = old[l].id => k = l
      BY <1>2, <2>3 DEF GunOnce
    <3>3. \/ new = old
          \/ \E gun \in Bought : /\ new = Append(old, gun)
                                 /\ \A k \in DOMAIN old : old[k].id # gun.id
      BY <3>1 DEF DocGrows
    <3>4. i \in DOMAIN new /\ j \in DOMAIN new /\ new[i].id = new[j].id
      BY <2>1
    <3> HIDE DEF old, new
    <3> QED
      BY <3>1, <3>2, <3>3, <3>4
  <2> QED
    BY <2>2, <2>3
<1>3. GunOnce /\ Typed /\ Typed' /\ [UsersGrow]_vars => GunOnce'
  <2>1. ASSUME GunOnce, UNCHANGED vars
        PROVE  GunOnce'
    BY <2>1 DEF GunOnce, Known, vars
  <2> QED
    BY <1>2, <2>1
<1> QED
  BY <1>1, <1>3, AlwaysTyped, AlwaysGrow, PTL DEF Spec

-----------------------------------------------------------------------------
(* Answers.                                                                *)

\* What has been said of a user stays true.
LEMMA TruthStays ==
  ASSUME Typed, UsersGrow
  PROVE  /\ \A u \in Known : u \in Known' /\ users'[u].email = users[u].email
         /\ \A e : EmailTaken(e) => EmailTaken(e)'
         /\ \A u \in Known : \A id : Owns(u, id) => Owns(u, id)'
<1>1. \A u \in Known : u \in Known' /\ users'[u].email = users[u].email
  BY DEF UsersGrow, DocGrows
<1>2. ASSUME NEW e, EmailTaken(e)
      PROVE  EmailTaken(e)'
  BY <1>1, <1>2 DEF EmailTaken
<1>3. ASSUME NEW u \in Known, NEW id, Owns(u, id)
      PROVE  Owns(u, id)'
  <2> DEFINE old == users[u].guns
             new == users'[u].guns
  <2>1. old \in Seq(Bought)
    BY DEF Typed, UsersTyped, Doc
  <2>2. new = old \/ \E gun \in Bought : new = Append(old, gun)
    BY DEF UsersGrow, DocGrows
  <2>3. PICK i \in DOMAIN old : old[i].id = id
    BY <1>3 DEF Owns
  <2> HIDE DEF old, new
  <2>4. i \in DOMAIN new /\ new[i] = old[i]
    BY <2>1, <2>2
  <2> QED
    BY <2>3, <2>4 DEF Owns, old, new
<1> QED
  BY <1>1, <1>2, <1>3

\* nextUserID never gives an id twice.
FreshIds ==
  \A c \in Caller : At(c, "insert") =>
    /\ call[c].id \notin Known
    /\ \A d \in Caller : At(d, "insert") /\ call[d].id = call[c].id => d = c

LEMMA FreshStep ==
  ASSUME AccountsAssumption, Typed, FreshIds, [Next]_vars
  PROVE  FreshIds'
<1>1. CASE UNCHANGED vars
  BY <1>1 DEF vars, FreshIds, Known, At
<1>2. ASSUME NEW g \in Game, RequestLost(g)
      PROVE  FreshIds'
  BY <1>2 DEF RequestLost, FreshIds, Known, At
<1>3. ASSUME NEW c \in Caller, CallerStep(c)
      PROVE  FreshIds'
  <2>1. \A d \in Caller \ {c} : call'[d] = call[d]
    BY <1>3, OthersStay
  <2>2. CASE At(c, "insert")'
    <3>1. PICK e \in Email : NextUserID(c, e)
      BY <1>3, <2>2, WhichStep
    <3>2. seq \in Nat /\ seq' = seq + 1 /\ Known' = Known /\ Known \subseteq 1..seq
      BY <3>1 DEF NextUserID, Typed, UsersTyped, AccountsAssumption, Known
    <3>3. call'[c].id = seq'
      BY <3>1 DEF NextUserID, Do, Typed
    <3>4. \A d \in Caller : At(d, "insert") => call[d].id \in 1..seq
      BY DEF Typed, CallSound
    <3>5. call'[c].id \notin Known' /\ call'[c].id \notin 1..seq
      BY <3>2, <3>3
    <3> QED
      BY <2>1, <3>2, <3>4, <3>5 DEF FreshIds, At
  <2>3. CASE ~At(c, "insert")'
    <3>1. CASE Known' = Known
      BY <2>1, <2>3, <3>1 DEF FreshIds, At
    <3>2. CASE Known' # Known
      <4>1. At(c, "insert") /\ Known' = Known \cup {call[c].id}
        BY <1>3, <3>2, KnownMoves
      <4> QED
        BY <2>1, <2>3, <4>1 DEF FreshIds, At
    <3> QED
      BY <3>1, <3>2
  <2> QED
    BY <2>2, <2>3
<1> QED
  BY <1>1, <1>2, <1>3 DEF Next

LEMMA AlwaysFresh == Spec => []FreshIds
<1>1. Init => FreshIds
  BY DEF Init, FreshIds, At, Idle
<1>2. Typed /\ FreshIds /\ [Next]_vars => FreshIds'
  BY FreshStep, AccountsAssumption
<1> QED
  BY <1>1, <1>2, AlwaysTyped, PTL DEF Spec

AnswerTrue(c) ==
  LET u == call[c].user
      x == call[c].about
  IN /\ call[c].answer = "registered" => u \in Known /\ users[u].email = x
     /\ call[c].answer = "already exists" => EmailTaken(x)
     /\ call[c].answer = "ok" => u \in Known /\ Owns(u, x)
TellsTruth == \A c \in Caller : At(c, "told") => AnswerTrue(c)

LEMMA NewAnswerTrue ==
  ASSUME AccountsAssumption, Typed, FreshIds, NEW c \in Caller, CallerStep(c), UsersGrow,
         At(c, "told")'
  PROVE  AnswerTrue(c)'
<1>1. ASSUME NEW a, NEW u, NEW x, Tell(c, a, u, x)
      PROVE  /\ call'[c].op = "told" /\ call'[c].answer = a
             /\ call'[c].user = u /\ call'[c].about = x
  <2> DEFINE next == [op |-> "told", answer |-> a, user |-> u, about |-> x]
  <2>1. next.op = "told" /\ next.answer = a /\ next.user = u /\ next.about = x
    OBVIOUS
  <2>2. call'[c] = next
    BY <1>1 DEF Tell, Do, Typed
  <2> QED
    BY <2>1, <2>2
<1>2. Failed(c) => ~At(c, "told")'
  BY DEF Failed, Do, Idle, At, Typed
<1>3. CASE InsertUser(c)
  <2>1. Tell(c, "registered", call[c].id, call[c].email)
    BY <1>2, <1>3 DEF InsertUser
  <2>2. call[c].id \notin Known /\ Insert(c)
    BY <1>3 DEF InsertUser, FreshIds
  <2>3. users'[call[c].id] = NewUser(call[c].email) /\ call[c].id \in Known'
    BY <2>2 DEF Insert, Known
  <2>4. users'[call[c].id].email = call[c].email
    BY <2>3 DEF NewUser
  <2>5. /\ call'[c].answer = "registered"
        /\ call'[c].user = call[c].id /\ call'[c].about = call[c].email
    BY <1>1, <2>1
  <2> QED
    BY <2>3, <2>4, <2>5 DEF AnswerTrue
<1>4. CASE InsertDuplicate(c)
  <2>1. Tell(c, "already exists", 0, call[c].email) /\ EmailTaken(call[c].email)
    BY <1>4 DEF InsertDuplicate, IsDuplicate
  <2>2. \E u \in Known' : users'[u].email = call[c].email
    BY <1>4, <2>1 DEF InsertDuplicate, EmailTaken, Known
  <2>3. call'[c].answer = "already exists" /\ call'[c].about = call[c].email
    <3> DEFINE next == [op |-> "told", answer |-> "already exists", user |-> 0,
                        about |-> call[c].email]
    <3>1. next.answer = "already exists" /\ next.about = call[c].email
      OBVIOUS
    <3>2. Do(c, next)
      BY <2>1 DEF Tell
    <3> HIDE DEF next
    <3>3. call'[c] = next
      BY <3>2 DEF Do, Typed
    <3> QED
      BY <3>1, <3>3
  <2> QED
    BY <2>2, <2>3 DEF AnswerTrue, EmailTaken
<1>5. CASE BuyGun(c)
  <2> DEFINE u == call[c].user
             gun == call[c].gun
  <2>1. /\ At(c, "buy") /\ CanBuy(u, gun) /\ users' = [users EXCEPT ![u] = SellGun(@, gun)]
        /\ Tell(c, "ok", u, gun.id) /\ UNCHANGED seq
    BY <1>5 DEF BuyGun
  <2>2. u \in Known /\ gun \in Bought
    BY <2>1, BuyerFacts DEF At
  <2>3. users'[u].guns = Append(users[u].guns, gun) /\ u \in Known'
    BY <2>1, <2>2, SellGrows
  <2>4. users[u].guns \in Seq(Bought)
    BY <2>2 DEF Typed, UsersTyped, Doc
  <2>5. \E i \in DOMAIN users'[u].guns : users'[u].guns[i].id = gun.id
    <3> DEFINE s == users[u].guns
               n == Len(s) + 1
               x == gun
    <3>1. s \in Seq(Bought) /\ x \in Bought /\ users'[u].guns = Append(s, x)
      BY <2>2, <2>3, <2>4
    <3> HIDE DEF s, x
    <3>2. n \in DOMAIN Append(s, x) /\ Append(s, x)[n] = x
      BY <3>1
    <3> QED
      BY <3>1, <3>2 DEF x
  <2>6. call'[c].answer = "ok" /\ call'[c].user = u /\ call'[c].about = gun.id
    BY <1>1, <2>1
  <2> QED
    BY <2>3, <2>5, <2>6 DEF AnswerTrue, Owns
<1>6. CASE Explain(c)
  <2>1. Tell(c, Reason(call[c].user, call[c].gun), call[c].user, call[c].gun.id)
    BY <1>2, <1>6 DEF Explain
  <2>2. Reason(call[c].user, call[c].gun) \notin {"registered", "already exists", "ok"}
    BY DEF Reason
  <2> QED
    BY <1>1, <2>1, <2>2 DEF AnswerTrue
<1> QED
  BY <1>3, <1>4, <1>5, <1>6, WhichStep

\* What a client is told about a registration or a purchase is true when it is told and
\* stays so, whatever others do meanwhile (CreateUser, BuyGunToPlayerWare).
THEOREM AlwaysAnswersTrue == Spec => []AnswersTrue
<1>1. Init => TellsTruth
  BY DEF Init, TellsTruth, At, Idle
<1>2. ASSUME Typed, FreshIds, TellsTruth, Next, NEW d \in Caller, At(d, "told")'
      PROVE  AnswerTrue(d)'
  <2>1. UsersGrow
    BY <1>2, NextKeeps, AccountsAssumption
  <2>2. ASSUME call'[d] = call[d]
        PROVE  AnswerTrue(d)'
    <3>1. AnswerTrue(d)
      BY <1>2, <2>2 DEF TellsTruth, At
    <3> DEFINE u == call[d].user
               x == call[d].about
    <3>2. /\ u \in Known => u \in Known' /\ users'[u].email = users[u].email
          /\ (\E v \in Known : users[v].email = x) => \E v \in Known' : users'[v].email = x
      BY <1>2, <2>1, TruthStays
    <3>3. ASSUME u \in Known, Owns(u, x)
          PROVE  u \in Known' /\ \E i \in DOMAIN users'[u].guns : users'[u].guns[i].id = x
      <4>1. \A v \in Known : \A id : Owns(v, id) =>
              v \in Known' /\ \E i \in DOMAIN users'[v].guns : users'[v].guns[i].id = id
        BY <1>2, <2>1, TruthStays DEF Owns
      <4> QED
        BY <3>3, <4>1
    <3> QED
      BY <2>2, <3>1, <3>2, <3>3 DEF AnswerTrue, EmailTaken, Owns
  <2>3. ASSUME NEW g \in Game, RequestLost(g)
        PROVE  call'[d] = call[d]
    BY <2>3 DEF RequestLost
  <2>4. ASSUME NEW c \in Caller, CallerStep(c)
        PROVE  AnswerTrue(d)'
    <3>1. CASE c = d
      BY <1>2, <2>1, <2>4, <3>1, NewAnswerTrue, AccountsAssumption
    <3>2. CASE c # d
      BY <1>2, <2>2, <2>4, <3>2, OthersStay
    <3> QED
      BY <3>1, <3>2
  <2> QED
    BY <1>2, <2>2, <2>3, <2>4 DEF Next
<1>3. TellsTruth /\ UNCHANGED vars => TellsTruth'
  BY DEF vars, TellsTruth, AnswerTrue, At, EmailTaken, Owns, Known
<1>4. Typed /\ FreshIds /\ TellsTruth /\ [Next]_vars => TellsTruth'
  BY <1>2, <1>3 DEF TellsTruth
<1>5. TellsTruth => AnswersTrue
  BY DEF TellsTruth, AnswerTrue, AnswersTrue
<1> QED
  BY <1>1, <1>4, <1>5, AlwaysTyped, AlwaysFresh, PTL DEF Spec

-----------------------------------------------------------------------------
(* What is read in one command and used in another.                        *)

\* Whoever asks why had too few coins when the filter missed, or has the gun.
WhySound ==
  \A c \in Caller : At(c, "why") =>
    \/ call[c].had < call[c].gun.price
    \/ Owns(call[c].user, call[c].gun.id)

\* The experience that a settlement read has not shrunk since.
ReadBefore ==
  \A c \in Caller : At(c, "write") => call[c].exp <= users[Head(call[c].todo)].exp

LEMMA StandingSound ==
  ASSUME AccountsAssumption, Typed, Typed', UsersGrow, NEW c \in Caller, call'[c] = call[c]
  PROVE  /\ At(c, "why") /\ Owns(call[c].user, call[c].gun.id) =>
              \E i \in DOMAIN users'[call[c].user].guns :
                users'[call[c].user].guns[i].id = call[c].gun.id
         /\ At(c, "write") /\ call[c].exp <= users[Head(call[c].todo)].exp =>
              call[c].exp <= users'[Head(call[c].todo)].exp
<1>1. ASSUME At(c, "why"), Owns(call[c].user, call[c].gun.id)
      PROVE  \E i \in DOMAIN users'[call[c].user].guns :
               users'[call[c].user].guns[i].id = call[c].gun.id
  <2>1. \A u \in Known : \A id : Owns(u, id) =>
          \E i \in DOMAIN users'[u].guns : users'[u].guns[i].id = id
    BY TruthStays DEF Owns
  <2>2. call[c].user \in Known
    BY <1>1, BuyerFacts DEF At
  <2> QED
    BY <1>1, <2>1, <2>2
<1>2. ASSUME At(c, "write"), call[c].exp <= users[Head(call[c].todo)].exp
      PROVE  call[c].exp <= users'[Head(call[c].todo)].exp
  <2> DEFINE u == Head(call[c].todo)
  <2>1. u \in Known
    BY <1>2, SkipSound DEF Typed, CallSound, At
  <2>2. call[c].exp \in Nat
    BY <1>2 DEF Typed, Calls, Settling, Writing, At
  <2>3. users[u].exp \in Nat /\ users[u].exp <= users'[u].exp
    BY <2>1 DEF Typed, UsersTyped, Doc, UsersGrow, DocGrows
  <2>4. users'[u].exp \in Nat
    BY <2>1 DEF UsersGrow, Typed, UsersTyped, Doc
  <2> QED
    BY <1>2, <2>2, <2>3, <2>4
<1> QED
  BY <1>1, <1>2

LEMMA NewReadSound ==
  ASSUME AccountsAssumption, Typed, NEW c \in Caller, CallerStep(c)
  PROVE  /\ At(c, "why")' =>
              \/ call'[c].had < call'[c].gun.price
              \/ \E i \in DOMAIN users'[call'[c].user].guns :
                   users'[call'[c].user].guns[i].id = call'[c].gun.id
         /\ At(c, "write")' => call'[c].exp <= users'[Head(call'[c].todo)].exp
<1>1. ASSUME At(c, "why")'
      PROVE  \/ call'[c].had < call'[c].gun.price
             \/ \E i \in DOMAIN users'[call'[c].user].guns :
                  users'[call'[c].user].guns[i].id = call'[c].gun.id
  <2> DEFINE u == call[c].user
             gun == call[c].gun
             next == [op |-> "why", user |-> u, gun |-> gun, had |-> users[u].coins]
  <2>1. /\ At(c, "buy") /\ ~CanBuy(u, gun) /\ Do(c, next) /\ UNCHANGED users
    BY <1>1, WhichStep DEF BuyMisses
  <2>2. next.user = u /\ next.gun = gun /\ next.had = users[u].coins
    OBVIOUS
  <2>3. u \in Known /\ gun \in Bought
    BY <2>1, BuyerFacts DEF At
  <2>4. users[u].coins \in Nat /\ gun.price \in Nat
    BY <2>3 DEF Typed, UsersTyped, Doc, Levels, Bought, AccountsAssumption
  <2>5. users[u].coins < gun.price \/ \E i \in DOMAIN users[u].guns : users[u].guns[i].id = gun.id
    BY <2>1, <2>4 DEF CanBuy
  <2> HIDE DEF next
  <2>6. call'[c] = next
    BY <2>1 DEF Do, Typed
  <2> QED
    BY <2>1, <2>2, <2>5, <2>6
<1>2. ASSUME At(c, "write")'
      PROVE  call'[c].exp <= users'[Head(call'[c].todo)].exp
  <2> DEFINE next == [op |-> "write", game |-> call[c].game, todo |-> call[c].todo,
                      failed |-> call[c].failed, exp |-> users[Head(call[c].todo)].exp]
  <2>1. /\ At(c, "read") /\ call[c].todo # <<>> /\ Do(c, next) /\ UNCHANGED users
    BY <1>2, WhichStep DEF SettleRead
  <2>2. next.todo = call[c].todo /\ next.exp = users[Head(call[c].todo)].exp
    OBVIOUS
  <2>3. Head(call[c].todo) \in Known
    BY <2>1, SkipSound DEF At
  <2>4. users[Head(call[c].todo)].exp \in Nat
    BY <2>3 DEF Typed, UsersTyped, Doc
  <2> HIDE DEF next
  <2>5. call'[c] = next
    BY <2>1 DEF Do, Typed
  <2> QED
    BY <2>1, <2>2, <2>4, <2>5
<1> QED
  BY <1>1, <1>2

LEMMA ReadsStep ==
  ASSUME AccountsAssumption, Typed, WhySound, ReadBefore, [Next]_vars
  PROVE  WhySound' /\ ReadBefore'
<1>1. CASE UNCHANGED vars
  BY <1>1 DEF vars, WhySound, ReadBefore, Owns, At
<1>2. CASE Next
  <2>1. Typed' /\ UsersGrow
    BY <1>2, NextKeeps
  <2>2. ASSUME NEW d \in Caller, call'[d] = call[d]
        PROVE  /\ At(d, "why")' =>
                    \/ call'[d].had < call'[d].gun.price
                    \/ \E i \in DOMAIN users'[call'[d].user].guns :
                         users'[call'[d].user].guns[i].id = call'[d].gun.id
               /\ At(d, "write")' => call'[d].exp <= users'[Head(call'[d].todo)].exp
    BY <2>1, <2>2, StandingSound DEF WhySound, ReadBefore, At
  <2>3. ASSUME NEW g \in Game, RequestLost(g)
        PROVE  WhySound' /\ ReadBefore'
    <3>1. call' = call
      BY <2>3 DEF RequestLost
    <3> QED
      BY <2>2, <3>1 DEF WhySound, ReadBefore, Owns
  <2>4. ASSUME NEW c \in Caller, CallerStep(c)
        PROVE  WhySound' /\ ReadBefore'
    BY <2>2, <2>4, OthersStay, NewReadSound DEF WhySound, ReadBefore, Owns
  <2> QED
    BY <1>2, <2>3, <2>4 DEF Next
<1> QED
  BY <1>1, <1>2

LEMMA AlwaysReads == Spec => [](WhySound /\ ReadBefore)
<1>1. Init => WhySound /\ ReadBefore
  BY DEF Init, WhySound, ReadBefore, At, Idle
<1>2. Typed /\ WhySound /\ ReadBefore /\ [Next]_vars => WhySound' /\ ReadBefore'
  BY ReadsStep, AccountsAssumption
<1> QED
  BY <1>1, <1>2, AlwaysTyped, PTL DEF Spec

\* Who is told that it has the gun already has it, or got coins between the two
\* queries (the second query of BuyGunToPlayerWare).
THEOREM AlwaysOwnedUnlessPaid == Spec => OwnedUnlessPaid
<1> DEFINE Fine == \A c \in Caller :
       At(c, "why") /\ call'[c].op = "told" /\ call'[c].answer = "gun already owned" =>
         \/ Owns(call[c].user, call[c].gun.id)
         \/ users[call[c].user].coins > call[c].had
<1>1. ASSUME Typed, WhySound, Next, NEW c \in Caller,
             At(c, "why"), call'[c].op = "told", call'[c].answer = "gun already owned"
      PROVE  \/ Owns(call[c].user, call[c].gun.id)
             \/ users[call[c].user].coins > call[c].had
  <2> DEFINE u == call[c].user
             gun == call[c].gun
  <2>1. CallerStep(c)
    <3>1. call'[c] # call[c]
      BY <1>1 DEF At
    <3> QED
      BY <1>1, <3>1, OthersStay DEF Next, RequestLost
  <2>2. Tell(c, Reason(u, gun), u, gun.id)
    <3>1. Explain(c)
      BY <1>1, <2>1, WhichStep
    <3>2. ASSUME Failed(c)
          PROVE  FALSE
      <4>1. call'[c] = Idle
        BY <1>1, <3>2, IdleSound, CallStep DEF Failed
      <4>2. call'[c].op = "told"
        BY <1>1
      <4> QED
        BY <4>1, <4>2 DEF Idle
    <3> QED
      BY <3>1, <3>2 DEF Explain
  <2>3. call'[c].answer = Reason(u, gun)
    BY <1>1, <2>2 DEF Tell, Do, Typed
  <2>4. ~(users[u].coins < gun.price)
    BY <1>1, <2>3 DEF Reason
  <2>5. users[u].coins \in Nat /\ gun.price \in Nat /\ call[c].had \in Nat
    <3>1. u \in Known /\ gun \in Bought /\ call[c].had \in Nat
      BY <1>1, BuyerFacts DEF At
    <3> QED
      BY <1>1, <3>1, AccountsAssumption
      DEF Typed, UsersTyped, Doc, Levels, Bought, AccountsAssumption
  <2>6. call[c].had < gun.price \/ Owns(u, gun.id)
    BY <1>1 DEF WhySound
  <2> QED
    BY <2>4, <2>5, <2>6
<1>2. Typed /\ WhySound /\ [Next]_vars => [Fine]_vars
  BY <1>1
<1> QED
  BY <1>2, AlwaysTyped, AlwaysReads, PTL DEF Spec, OwnedUnlessPaid

\* The level that a settlement writes is the one of the experience it leaves unless it
\* was overtaken, and then it is too low, for any table of levels
\* (AddPlayerExpLevelCoin).
THEOREM AlwaysLevelFollowsExp == Spec => LevelFollowsExp
<1> DEFINE Fine == \A c \in Caller : At(c, "write") /\ call'[c] # call[c] =>
       LET u == Head(call[c].todo)
           level == JudgePlayerLevel(users'[u].exp)
       IN users'[u].exp # users[u].exp =>
            /\ users'[u].level <= level
            /\ users[u].exp = call[c].exp => users'[u].level = level
<1>1. ASSUME Typed, ReadBefore, Next, NEW c \in Caller, At(c, "write"), call'[c] # call[c],
             users'[Head(call[c].todo)].exp # users[Head(call[c].todo)].exp
      PROVE  LET u == Head(call[c].todo)
                 level == JudgePlayerLevel(users'[u].exp)
             IN /\ users'[u].level <= level
                /\ users[u].exp = call[c].exp => users'[u].level = level
  <2> DEFINE u == Head(call[c].todo)
             won == result[call[c].game][u]
             m == call[c].exp + won.exp
             n == users[u].exp + won.exp
  <2>1. CallerStep(c)
    BY <1>1, OthersStay DEF Next, RequestLost
  <2>2. AddExpLevelCoin(c)
    <3>1. SettleWrite(c) \/ SettleWriteFails(c)
      BY <1>1, <2>1, WhichStep
    <3> QED
      BY <1>1, <3>1 DEF SettleWrite, SettleWriteFails
  <2>3. u \in Known /\ won \in Won
    <3>1. call[c].todo # <<>> /\ call[c].op \in {"read", "write"}
      BY <1>1 DEF Typed, CallSound, At
    <3>2. u \in Known /\ call[c].game \in Game /\ u \in DOMAIN result[call[c].game]
      BY <1>1, <3>1, SkipSound
    <3> QED
      BY <1>1, <3>2 DEF Typed, ResultsTyped
  <2>4. users[u] \in Doc /\ users \in [Known -> Doc]
    BY <1>1, <2>3 DEF Typed, UsersTyped
  <2>5. users'[u].exp = n /\ users'[u].level = JudgePlayerLevel(m)
    <3> DEFINE level == JudgePlayerLevel(m)
    <3>1. users' = [users EXCEPT ![u].exp = @ + won.exp, ![u].coins = @ + won.coin,
                                 ![u].level = level]
      BY <2>2 DEF AddExpLevelCoin, NewLevel
    <3> HIDE DEF u, won, level
    <3>2. users'[u].exp = users[u].exp + won.exp /\ users'[u].level = level
      BY <2>3, <2>4, <3>1 DEF Doc
    <3> QED
      BY <3>2 DEF u, won, level
  <2>6. m \in Nat /\ n \in Nat /\ m <= n
    <3> DEFINE a == call[c].exp
               b == users[u].exp
               x == won.exp
    <3>1. a \in Nat /\ b \in Nat /\ x \in Nat /\ a <= b
      <4>1. a \in Nat
        BY <1>1 DEF Typed, Calls, Settling, Writing, At
      <4> QED
        BY <1>1, <2>3, <2>4, <4>1 DEF Doc, Won, ReadBefore
    <3> HIDE DEF a, b, x
    <3>2. a + x \in Nat /\ b + x \in Nat /\ a + x <= b + x
      BY <3>1
    <3> QED
      BY <3>2 DEF a, b, x
  <2>7. JudgePlayerLevel(m) <= JudgePlayerLevel(n)
    BY <2>6, JudgeGrows, AccountsAssumption
  <2>8. users[u].exp = call[c].exp => m = n
    OBVIOUS
  <2> HIDE DEF m, n
  <2> QED
    BY <2>5, <2>7, <2>8
<1>2. Typed /\ ReadBefore /\ [Next]_vars => [Fine]_vars
  BY <1>1
<1> QED
  BY <1>2, AlwaysTyped, AlwaysReads, PTL DEF Spec, LevelFollowsExp

-----------------------------------------------------------------------------
(* Settlements.                                                            *)

Settles(c, g) == call[c].op \in {"read", "write"} /\ call[c].game = g

GameSound(g) ==
  /\ \A u \in ID : paid[<<g, u>>] <= 1
  /\ status[g] \in {"none", "lost"} => \A u \in ID : paid[<<g, u>>] = 0
  /\ status[g] = "answered" =>
       \A u \in DOMAIN result[g] \ errors[g] : paid[<<g, u>>] = 1
  /\ \A c, d \in Caller : Settles(c, g) /\ Settles(d, g) => c = d

\* Who is still to be paid has not been, and everybody else was or is among the failed.
WorkSound(c) ==
  LET g == call[c].game
      todo == call[c].todo
  IN call[c].op \in {"read", "write"} =>
       /\ status[g] = "sent"
       /\ \A i, j \in DOMAIN todo : todo[i] = todo[j] => i = j
       /\ \A i \in DOMAIN todo : paid[<<g, todo[i]>>] = 0
       /\ \A u \in DOMAIN result[g] :
            \/ paid[<<g, u>>] = 1 \/ u \in call[c].failed
            \/ \E i \in DOMAIN todo : todo[i] = u

SettleSound ==
  /\ \A g \in Game : GameSound(g)
  /\ \A c \in Caller : WorkSound(c)

SameGame(g) ==
  /\ status'[g] = status[g] /\ result'[g] = result[g] /\ errors'[g] = errors[g]
  /\ \A u \in ID : paid'[<<g, u>>] = paid[<<g, u>>]

LEMMA WorkFacts ==
  ASSUME AccountsAssumption, Typed, NEW c \in Caller, call[c].op \in {"read", "write"}
  PROVE  /\ call[c].game \in Game /\ call[c].todo \in Seq(ID)
         /\ \A i \in DOMAIN call[c].todo : call[c].todo[i] \in ID
         /\ DOMAIN result[call[c].game] \subseteq ID
<1>1. call[c] \in Settling \cup Writing
  BY DEF Typed, Calls
<1>2. call[c].game \in Game /\ call[c].todo \in Seq(ID)
  BY <1>1 DEF Settling, Writing
<1>3. DOMAIN result[call[c].game] \subseteq ID
  BY <1>2, KnownIDs DEF Typed, ResultsTyped
<1> QED
  BY <1>2, <1>3

\* A game stays sound while nothing of it changes and nobody else settles it, and so
\* does whoever is settling it.
LEMMA GameStays ==
  ASSUME AccountsAssumption, Typed, NEW g \in Game, GameSound(g), SameGame(g),
         \A c \in Caller : Settles(c, g)' => Settles(c, g)
  PROVE  GameSound(g)'
<1>1. DOMAIN result[g] \subseteq ID
  BY KnownIDs DEF Typed, ResultsTyped
<1>2. \A u \in ID' : paid'[<<g, u>>] <= 1
  BY DEF GameSound, SameGame, ID
<1>3. status'[g] \in {"none", "lost"} => \A u \in ID' : paid'[<<g, u>>] = 0
  BY DEF GameSound, SameGame, ID
<1>4. status'[g] = "answered" =>
        \A u \in DOMAIN result'[g] \ errors'[g] : paid'[<<g, u>>] = 1
  BY <1>1 DEF GameSound, SameGame
<1>5. \A c, d \in Caller : Settles(c, g)' /\ Settles(d, g)' => c = d
  BY DEF GameSound
<1> QED
  BY <1>2, <1>3, <1>4, <1>5 DEF GameSound

LEMMA WorkStays ==
  ASSUME AccountsAssumption, Typed, NEW c \in Caller, WorkSound(c),
         call[c].op \in {"read", "write"}, SameGame(call[c].game),
         call'[c].game = call[c].game, call'[c].todo = call[c].todo,
         call'[c].failed = call[c].failed
  PROVE  WorkSound(c)'
<1> DEFINE g == call[c].game
           todo == call[c].todo
<1>1. /\ g \in Game /\ \A i \in DOMAIN todo : todo[i] \in ID
      /\ DOMAIN result[g] \subseteq ID
  BY WorkFacts
<1>2. /\ status'[g] = status[g] /\ result'[g] = result[g]
      /\ \A u \in ID : paid'[<<g, u>>] = paid[<<g, u>>]
  BY DEF SameGame
<1>3. /\ status[g] = "sent"
      /\ \A i, j \in DOMAIN todo : todo[i] = todo[j] => i = j
      /\ \A i \in DOMAIN todo : paid[<<g, todo[i]>>] = 0
      /\ \A u \in DOMAIN result[g] :
           \/ paid[<<g, u>>] = 1 \/ u \in call[c].failed
           \/ \E i \in DOMAIN todo : todo[i] = u
  BY DEF WorkSound
<1> HIDE DEF g, todo
<1>4. /\ status'[g] = "sent"
      /\ \A i \in DOMAIN todo : paid'[<<g, todo[i]>>] = 0
      /\ \A u \in DOMAIN result'[g] :
           \/ paid'[<<g, u>>] = 1 \/ u \in call[c].failed
           \/ \E i \in DOMAIN todo : todo[i] = u
  BY <1>1, <1>2, <1>3
<1>5. call'[c].game = g /\ call'[c].todo = todo /\ call'[c].failed = call[c].failed
  BY DEF g, todo
<1> QED
  BY <1>3, <1>4, <1>5 DEF WorkSound

LEMMA QuietSettling ==
  ASSUME AccountsAssumption, Typed, SettleSound, NEW c \in Caller,
         UNCHANGED <<result, status, errors, paid>>,
         \A d \in Caller \ {c} : call'[d] = call[d],
         \/ call'[c].op \notin {"read", "write"}
         \/ /\ call[c].op \in {"read", "write"} /\ call'[c].game = call[c].game
            /\ call'[c].todo = call[c].todo /\ call'[c].failed = call[c].failed
  PROVE  SettleSound'
<1>1. \A g \in Game : SameGame(g)
  BY DEF SameGame
<1>2. ASSUME NEW g \in Game
      PROVE  GameSound(g)'
  <2>1. \A d \in Caller : Settles(d, g)' => Settles(d, g)
    BY DEF Settles
  <2> QED
    BY <1>1, <2>1, GameStays DEF SettleSound
<1>3. ASSUME NEW d \in Caller, call'[d].op \in {"read", "write"}
      PROVE  WorkSound(d)'
  <2>1. /\ call[d].op \in {"read", "write"} /\ call'[d].game = call[d].game
        /\ call'[d].todo = call[d].todo /\ call'[d].failed = call[d].failed
    BY <1>3
  <2>2. call[d].game \in Game
    BY <2>1, WorkFacts
  <2> QED
    BY <1>1, <2>1, <2>2, WorkStays DEF SettleSound
<1>4. \A d \in Caller : WorkSound(d)'
  BY <1>3 DEF WorkSound
<1> QED
  BY <1>2, <1>4 DEF SettleSound

\* What the others are settling stays sound when only game g changes, which they are
\* not settling.
LEMMA OthersSettling ==
  ASSUME AccountsAssumption, Typed, SettleSound, NEW c \in Caller, NEW g \in Game,
         \A h \in Game \ {g} : SameGame(h),
         \A d \in Caller \ {c} : call'[d] = call[d] /\ ~Settles(d, g),
         call'[c].op \in {"read", "write"} => call'[c].game = g,
         GameSound(g)', WorkSound(c)'
  PROVE  SettleSound'
<1>1. ASSUME NEW h \in Game \ {g}
      PROVE  GameSound(h)'
  <2>1. \A d \in Caller : Settles(d, h)' => Settles(d, h)
    BY DEF Settles
  <2> QED
    BY <2>1, GameStays DEF SettleSound
<1>2. ASSUME NEW d \in Caller \ {c}, call'[d].op \in {"read", "write"}
      PROVE  WorkSound(d)'
  <2>1. call[d].op \in {"read", "write"} /\ call'[d] = call[d] /\ call[d].game # g
    BY <1>2 DEF Settles
  <2>2. call[d].game \in Game
    BY <2>1, WorkFacts
  <2> QED
    BY <2>1, <2>2, WorkStays DEF SettleSound
<1>3. \A d \in Caller : WorkSound(d)'
  BY <1>2 DEF WorkSound
<1> QED
  BY <1>1, <1>3 DEF SettleSound

LEMMA SettleBegins ==
  ASSUME AccountsAssumption, Typed, SettleSound, NEW c \in Caller, NEW g \in Game,
         NEW kills \in Results, FinishRoom(c, g, kills)
  PROVE  SettleSound'
<1>1. PICK order \in SetToSeqs(DOMAIN kills) :
        Do(c, [op |-> "read", game |-> g, todo |-> order, failed |-> {}])
  BY DEF FinishRoom
<1> DEFINE next == [op |-> "read", game |-> g, todo |-> order, failed |-> {}]
           won == [p \in DOMAIN kills |-> Reward(kills, p)]
<1>2. /\ DOMAIN kills \subseteq Known
      /\ order \in Seq(ID)
      /\ \A i \in DOMAIN order : order[i] \in DOMAIN kills
      /\ \A i, j \in DOMAIN order : order[i] = order[j] => i = j
      /\ \A u \in DOMAIN kills : \E i \in DOMAIN order : order[i] = u
  BY OrderFacts
<1>3. next \in Calls
  BY <1>2 DEF Calls, Settling
<1>4. call'[c] = next /\ \A d \in Caller \ {c} : call'[d] = call[d]
  BY <1>1, <1>3, CallStep
<1>5. /\ UNCHANGED <<errors, paid>> /\ At(c, "idle")
      /\ result' = [result EXCEPT ![g] = won] /\ status[g] = "none"
      /\ status' = [status EXCEPT ![g] = "sent"]
  BY DEF FinishRoom
<1>6. DOMAIN won = DOMAIN kills
  OBVIOUS
<1>7. next.op = "read" /\ next.game = g /\ next.todo = order
  OBVIOUS
<1> HIDE DEF won, next
<1>8. /\ result'[g] = won /\ status'[g] = "sent"
      /\ \A h \in Game \ {g} : SameGame(h)
  <2>1. DOMAIN result = Game /\ DOMAIN status = Game
    BY DEF Typed, ResultsTyped
  <2> QED
    BY <1>5, <2>1 DEF SameGame
<1>9. \A d \in Caller : ~Settles(d, g)
  BY <1>5 DEF SettleSound, WorkSound, Settles
<1>10. \A u \in ID : paid'[<<g, u>>] = 0
  BY <1>5 DEF SettleSound, GameSound
<1>11. GameSound(g)'
  <2>1. \A d \in Caller : Settles(d, g)' => d = c
    BY <1>4, <1>9 DEF Settles
  <2>2. \A u \in ID' : paid'[<<g, u>>] = 0
    BY <1>10 DEF ID
  <2> QED
    BY <1>8, <2>1, <2>2 DEF GameSound
<1>12. WorkSound(c)'
  <2>1. \A i \in DOMAIN order : paid'[<<g, order[i]>>] = 0
    BY <1>2, <1>10, KnownIDs
  <2>2. \A u \in DOMAIN result'[g] : \E i \in DOMAIN order : order[i] = u
    BY <1>2, <1>6, <1>8
  <2>3. call'[c].game = g /\ call'[c].todo = order
    BY <1>4, <1>7
  <2> QED
    BY <1>2, <1>8, <2>1, <2>2, <2>3 DEF WorkSound
<1>13. call'[c].game = g
  BY <1>4, <1>7
<1> QED
  BY <1>4, <1>8, <1>9, <1>11, <1>12, <1>13, OthersSettling

\* One player is paid, or is among the failed, or both.
LEMMA SettleGoesOn ==
  ASSUME AccountsAssumption, Typed, SettleSound, NEW c \in Caller,
         call[c].op \in {"read", "write"}, call[c].todo # <<>>,
         UNCHANGED <<result, status, errors>>,
         \A d \in Caller \ {c} : call'[d] = call[d],
         call'[c].op = "read", call'[c].game = call[c].game,
         call'[c].todo = Tail(call[c].todo), call[c].failed \subseteq call'[c].failed,
         \/ /\ paid' = paid
            /\ Head(call[c].todo) \in call'[c].failed
         \/ paid' = [paid EXCEPT ![<<call[c].game, Head(call[c].todo)>>] = @ + 1]
  PROVE  SettleSound'
<1> DEFINE g == call[c].game
           todo == call[c].todo
           u == Head(todo)
<1>1. /\ g \in Game /\ todo \in Seq(ID) /\ u \in ID
      /\ DOMAIN result[g] \subseteq ID /\ u \in DOMAIN result[g]
  BY WorkFacts, SkipSound, KnownIDs
<1>2. /\ 1 \in DOMAIN todo /\ u = todo[1] /\ Tail(todo) \in Seq(ID)
      /\ \A i \in DOMAIN Tail(todo) : i \in Nat /\ i + 1 \in DOMAIN todo
                                      /\ Tail(todo)[i] = todo[i + 1]
      /\ \A i \in DOMAIN todo \ {1} : i - 1 \in DOMAIN Tail(todo) /\ Tail(todo)[i - 1] = todo[i]
  BY <1>1, TailFacts
<1>3. /\ status[g] = "sent"
      /\ \A i, j \in DOMAIN todo : todo[i] = todo[j] => i = j
      /\ \A i \in DOMAIN todo : paid[<<g, todo[i]>>] = 0
      /\ \A v \in DOMAIN result[g] :
           \/ paid[<<g, v>>] = 1 \/ v \in call[c].failed
           \/ \E i \in DOMAIN todo : todo[i] = v
  BY DEF SettleSound, WorkSound
<1>4. paid[<<g, u>>] = 0
  BY <1>2, <1>3
<1>5. /\ \A h \in Game \ {g} : \A v \in ID : paid'[<<h, v>>] = paid[<<h, v>>]
      /\ \A v \in ID \ {u} : paid'[<<g, v>>] = paid[<<g, v>>]
      /\ paid'[<<g, u>>] \in {0, 1}
      /\ paid'[<<g, u>>] = 1 \/ u \in call'[c].failed
  <2>1. paid \in [Game \X ID -> Nat]
    BY DEF Typed, ResultsTyped
  <2>2. CASE paid' = paid /\ u \in call'[c].failed
    BY <1>4, <2>2
  <2>3. CASE paid' = [paid EXCEPT ![<<g, u>>] = @ + 1]
    <3> DEFINE x == <<g, u>>
    <3>1. x \in Game \X ID /\ paid[x] = 0
      BY <1>1, <1>4
    <3>2. \A y \in (Game \X ID) \ {x} : paid'[y] = paid[y]
      BY <2>1, <2>3
    <3>3. paid'[x] = 1
      <4> HIDE DEF x
      <4>1. paid' = [paid EXCEPT ![x] = @ + 1]
        BY <2>3 DEF x
      <4> QED
        BY <2>1, <3>1, <4>1
    <3>4. \A h \in Game \ {g} : \A v \in ID : <<h, v>> \in (Game \X ID) \ {x}
      OBVIOUS
    <3>5. \A v \in ID \ {u} : <<g, v>> \in (Game \X ID) \ {x}
      BY <1>1
    <3> QED
      BY <3>2, <3>3, <3>4, <3>5
  <2> QED
    BY <2>2, <2>3
<1>6. \A h \in Game \ {g} : SameGame(h)
  BY <1>5 DEF SameGame
<1>7. \A d \in Caller \ {c} : ~Settles(d, g)
  <2>1. Settles(c, g)
    BY DEF Settles
  <2> QED
    BY <1>1, <2>1 DEF SettleSound, GameSound
<1>8. GameSound(g)'
  <2>1. \A v \in ID : paid[<<g, v>>] <= 1
    BY <1>1 DEF SettleSound, GameSound
  <2>2. \A v \in ID' : paid'[<<g, v>>] <= 1
    <3>1. ASSUME NEW v \in ID
          PROVE  paid'[<<g, v>>] <= 1
      <4>1. CASE v = u
        <5>1. paid'[<<g, v>>] \in {0, 1}
          BY <1>5, <4>1
        <5> QED
          BY <5>1
      <4>2. CASE v # u
        <5>1. paid'[<<g, v>>] = paid[<<g, v>>]
          BY <1>5, <4>2
        <5> QED
          BY <2>1, <5>1
      <4> QED
        BY <4>1, <4>2
    <3> QED
      BY <3>1 DEF ID
  <2>3. status'[g] = "sent"
    BY <1>3
  <2>4. \A d \in Caller : Settles(d, g)' => d = c
    BY <1>7 DEF Settles
  <2> QED
    BY <2>2, <2>3, <2>4 DEF GameSound
<1>9. WorkSound(c)'
  <2> DEFINE rest == Tail(todo)
  <2>1. \A i \in DOMAIN rest : rest[i] # u /\ rest[i] \in ID
    <3>1. ASSUME NEW i \in DOMAIN rest
          PROVE  rest[i] # u
      <4>1. i \in 1..Len(rest)
        BY <1>2
      <4>2. i + 1 # 1 /\ i + 1 \in DOMAIN todo /\ rest[i] = todo[i + 1]
        BY <1>2, <4>1
      <4> QED
        BY <1>2, <1>3, <4>2
    <3> QED
      BY <1>2, <3>1
  <2>2. \A i, j \in DOMAIN rest : rest[i] = rest[j] => i = j
    <3>1. ASSUME NEW i \in DOMAIN rest, NEW j \in DOMAIN rest, rest[i] = rest[j]
          PROVE  i = j
      <4>1. i \in Nat /\ j \in Nat /\ i + 1 = j + 1
        BY <1>2, <1>3, <3>1
      <4> QED
        BY <4>1
    <3> QED
      BY <3>1
  <2>3. ASSUME NEW i \in DOMAIN rest
        PROVE  paid'[<<g, rest[i]>>] = 0
    <3>1. paid[<<g, rest[i]>>] = 0
      <4>1. i + 1 \in DOMAIN todo /\ rest[i] = todo[i + 1]
        BY <1>2
      <4> QED
        BY <1>3, <4>1
    <3>2. rest[i] \in ID \ {u}
      BY <2>1
    <3> HIDE DEF rest
    <3> QED
      BY <1>5, <3>1, <3>2
  <2>4. ASSUME NEW v \in DOMAIN result[g]
        PROVE  \/ paid'[<<g, v>>] = 1 \/ v \in call'[c].failed
               \/ \E i \in DOMAIN rest : rest[i] = v
    <3>1. CASE v = u
      BY <1>5, <3>1
    <3>2. CASE v # u /\ (paid[<<g, v>>] = 1 \/ v \in call[c].failed)
      BY <1>1, <1>5, <3>2
    <3>3. CASE v # u /\ \E i \in DOMAIN todo : todo[i] = v
      BY <1>2, <3>3
    <3> QED
      BY <1>3, <3>1, <3>2, <3>3
  <2>5. status'[g] = "sent" /\ result'[g] = result[g]
    BY <1>3
  <2>6. call'[c].game = g /\ call'[c].todo = rest
    OBVIOUS
  <2> HIDE DEF g, rest
  <2>7. \A v \in DOMAIN result'[g] :
          \/ paid'[<<g, v>>] = 1 \/ v \in call'[c].failed
          \/ \E i \in DOMAIN rest : rest[i] = v
    BY <2>4, <2>5
  <2>8. \A i \in DOMAIN rest : paid'[<<g, rest[i]>>] = 0
    BY <2>3
  <2>9. status'[call'[c].game] = "sent"
    BY <2>5, <2>6
  <2>10. \A i, j \in DOMAIN call'[c].todo : call'[c].todo[i] = call'[c].todo[j] => i = j
    BY <2>2, <2>6
  <2>11. \A i \in DOMAIN call'[c].todo : paid'[<<call'[c].game, call'[c].todo[i]>>] = 0
    BY <2>6, <2>8
  <2>12. \A v \in DOMAIN result'[call'[c].game] :
           \/ paid'[<<call'[c].game, v>>] = 1 \/ v \in call'[c].failed
           \/ \E i \in DOMAIN call'[c].todo : call'[c].todo[i] = v
    BY <2>6, <2>7
  <2> QED
    BY <2>9, <2>10, <2>11, <2>12 DEF WorkSound
<1> QED
  BY <1>1, <1>6, <1>7, <1>8, <1>9, OthersSettling

LEMMA SettleEnds ==
  ASSUME AccountsAssumption, Typed, SettleSound, NEW c \in Caller, SettleDone(c)
  PROVE  SettleSound'
<1>0. PICK g \in Game : g = call[c].game
  BY WorkFacts DEF SettleDone, At
<1>1. /\ At(c, "read") /\ call[c].todo = <<>> /\ Do(c, Idle)
      /\ UNCHANGED <<result, paid>>
      /\ status' = [status EXCEPT ![g] = "answered"]
      /\ errors' = [errors EXCEPT ![g] = call[c].failed]
  BY <1>0 DEF SettleDone
<1>2. g \in Game /\ DOMAIN result[g] \subseteq ID
  BY <1>0, <1>1, WorkFacts DEF At
<1>3. \A d \in Caller \ {c} : call'[d] = call[d]
  BY <1>1, IdleSound, CallStep
<1>4. call'[c].op \notin {"read", "write"}
  <2>1. call'[c] = Idle
    BY <1>1, IdleSound, CallStep
  <2> QED
    BY <2>1 DEF Idle
<1>5. /\ status'[g] = "answered" /\ errors'[g] = call[c].failed
      /\ \A h \in Game \ {g} : SameGame(h)
  BY <1>1, <1>2 DEF Typed, ResultsTyped, SameGame
<1>6. \A d \in Caller \ {c} : ~Settles(d, g)
  <2>1. Settles(c, g)
    BY <1>0, <1>1 DEF Settles, At
  <2> QED
    BY <1>2, <2>1 DEF SettleSound, GameSound
<1>7. \A v \in DOMAIN result[g] : paid[<<g, v>>] = 1 \/ v \in call[c].failed
  <2>1. DOMAIN call[c].todo = {}
    BY <1>1
  <2> QED
    BY <1>0, <1>1, <2>1 DEF SettleSound, WorkSound, At
<1>8. GameSound(g)'
  <2>1. \A v \in ID' : paid'[<<g, v>>] <= 1
    BY <1>1, <1>2 DEF SettleSound, GameSound, ID
  <2>2. \A v \in DOMAIN result'[g] \ errors'[g] : paid'[<<g, v>>] = 1
    BY <1>1, <1>5, <1>7
  <2>3. \A d \in Caller : ~Settles(d, g)'
    BY <1>3, <1>4, <1>6 DEF Settles
  <2> QED
    BY <1>5, <2>1, <2>2, <2>3 DEF GameSound
<1>9. WorkSound(c)'
  BY <1>4 DEF WorkSound
<1> QED
  BY <1>2, <1>3, <1>4, <1>5, <1>6, <1>8, <1>9, OthersSettling

LEMMA SettleLost ==
  ASSUME AccountsAssumption, Typed, SettleSound, NEW g \in Game, RequestLost(g)
  PROVE  SettleSound'
<1>1. /\ UNCHANGED <<result, errors, paid, call>> /\ status[g] = "none"
      /\ status' = [status EXCEPT ![g] = "lost"]
  BY DEF RequestLost
<1>2. status'[g] = "lost" /\ \A h \in Game \ {g} : SameGame(h)
  BY <1>1 DEF Typed, ResultsTyped, SameGame
<1>3. \A d \in Caller : ~Settles(d, g)
  BY <1>1 DEF SettleSound, WorkSound, Settles
<1>4. GameSound(g)'
  <2>1. \A v \in ID' : paid'[<<g, v>>] = 0
    BY <1>1 DEF SettleSound, GameSound, ID
  <2>2. \A d \in Caller : ~Settles(d, g)'
    BY <1>1, <1>3 DEF Settles
  <2> QED
    BY <1>2, <2>1, <2>2 DEF GameSound
<1>5. ASSUME NEW h \in Game \ {g}
      PROVE  GameSound(h)'
  <2>1. \A d \in Caller : Settles(d, h)' => Settles(d, h)
    BY <1>1 DEF Settles
  <2> QED
    BY <1>2, <2>1, GameStays DEF SettleSound
<1>6. ASSUME NEW d \in Caller, call[d].op \in {"read", "write"}
      PROVE  WorkSound(d)'
  <2>1. call[d].game # g /\ call[d].game \in Game
    BY <1>3, <1>6, WorkFacts DEF Settles
  <2> QED
    BY <1>1, <1>2, <1>6, <2>1, WorkStays DEF SettleSound
<1>7. \A d \in Caller : WorkSound(d)'
  BY <1>1, <1>6 DEF WorkSound
<1> QED
  BY <1>4, <1>5, <1>7 DEF SettleSound

LEMMA SettleStep ==
  ASSUME AccountsAssumption, Typed, SettleSound, NEW c \in Caller,
         \/ SettleRead(c) \/ SettleReadFails(c)
         \/ SettleWrite(c) \/ SettleWriteFails(c) \/ SettleDone(c)
  PROVE  SettleSound'
<1>1. CallerStep(c)
  BY DEF CallerStep
<1>2. \A d \in Caller \ {c} : call'[d] = call[d]
  BY <1>1, OthersStay
<1>3. CASE SettleRead(c)
  <2> DEFINE next == [op |-> "write", game |-> call[c].game, todo |-> call[c].todo,
                      failed |-> call[c].failed, exp |-> users[Head(call[c].todo)].exp]
  <2>1. /\ At(c, "read") /\ Do(c, next)
        /\ UNCHANGED <<result, status, errors, paid>>
    BY <1>3 DEF SettleRead
  <2>2. next.game = call[c].game /\ next.todo = call[c].todo /\ next.failed = call[c].failed
    OBVIOUS
  <2> HIDE DEF next
  <2>3. call'[c] = next
    BY <2>1 DEF Do, Typed
  <2>4. /\ call[c].op \in {"read", "write"} /\ call'[c].game = call[c].game
        /\ call'[c].todo = call[c].todo /\ call'[c].failed = call[c].failed
    BY <2>1, <2>2, <2>3 DEF At
  <2> QED
    BY <1>2, <2>1, <2>4, QuietSettling
<1>4. ASSUME call[c].op \in {"read", "write"}, call[c].todo # <<>>,
             UNCHANGED <<result, status, errors>>,
             \/ /\ Do(c, AfterFailure(c))
                /\ paid' = paid
             \/ /\ Do(c, Skip(c)) \/ Do(c, AfterFailure(c))
                /\ AddExpLevelCoin(c)
      PROVE  SettleSound'
  <2> DEFINE u == Head(call[c].todo)
  <2>1. Skip(c) \in Calls /\ AfterFailure(c) \in Calls /\ Skip(c) \in Settling
    BY <1>4, SkipSound
  <2>2. /\ Skip(c).op = "read" /\ Skip(c).game = call[c].game
        /\ Skip(c).todo = Tail(call[c].todo) /\ Skip(c).failed = call[c].failed
    BY DEF Skip
  <2>3. /\ AfterFailure(c).op = Skip(c).op /\ AfterFailure(c).game = Skip(c).game
        /\ AfterFailure(c).todo = Skip(c).todo
        /\ AfterFailure(c).failed = Skip(c).failed \cup {u}
    <3> DEFINE r == Skip(c)
    <3>1. AfterFailure(c) = [r EXCEPT !.failed = @ \cup {u}]
      BY DEF AfterFailure
    <3> HIDE DEF r, u
    <3>2. /\ AfterFailure(c).op = r.op /\ AfterFailure(c).game = r.game
          /\ AfterFailure(c).todo = r.todo /\ AfterFailure(c).failed = r.failed \cup {u}
      BY <2>1, <3>1 DEF Settling, r
    <3> QED
      BY <3>2 DEF r
  <2>4. CASE Do(c, AfterFailure(c)) /\ paid' = paid
    <3>1. call'[c] = AfterFailure(c)
      BY <2>1, <2>4, CallStep
    <3> QED
      BY <1>2, <1>4, <2>2, <2>3, <2>4, <3>1, SettleGoesOn
  <2>5. CASE (Do(c, Skip(c)) \/ Do(c, AfterFailure(c))) /\ AddExpLevelCoin(c)
    <3>1. call'[c] = Skip(c) \/ call'[c] = AfterFailure(c)
      BY <2>1, <2>5, CallStep
    <3>2. /\ call'[c].op = "read" /\ call'[c].game = call[c].game
          /\ call'[c].todo = Tail(call[c].todo) /\ call[c].failed \subseteq call'[c].failed
      BY <2>2, <2>3, <3>1
    <3>3. paid' = [paid EXCEPT ![<<call[c].game, u>>] = @ + 1]
      BY <2>5 DEF AddExpLevelCoin
    <3> QED
      BY <1>2, <1>4, <3>2, <3>3, SettleGoesOn
  <2> QED
    BY <1>4, <2>4, <2>5
<1>5. CASE SettleReadFails(c)
  BY <1>4, <1>5 DEF SettleReadFails, At
<1>6. ASSUME At(c, "write")
      PROVE  call[c].op \in {"read", "write"} /\ call[c].todo # <<>>
  BY <1>6 DEF At, Typed, CallSound
<1>7. CASE SettleWrite(c)
  BY <1>4, <1>6, <1>7 DEF SettleWrite
<1>8. CASE SettleWriteFails(c)
  BY <1>4, <1>6, <1>8 DEF SettleWriteFails
<1>9. CASE SettleDone(c)
  BY <1>9, SettleEnds
<1> QED
  BY <1>3, <1>5, <1>7, <1>8, <1>9

LEMMA AlwaysSettling == Spec => []SettleSound
<1>1. Init => SettleSound
  <2>1. ASSUME Init
        PROVE  /\ \A g \in Game : status[g] = "none" /\ \A u \in ID : paid[<<g, u>>] = 0
               /\ \A c \in Caller : call[c].op = "idle"
    BY <2>1 DEF Init, Idle
  <2> QED
    BY <2>1 DEF SettleSound, GameSound, WorkSound, Settles
<1>2. ASSUME Typed, SettleSound, Next
      PROVE  SettleSound'
  <2>1. ASSUME NEW c \in Caller, CallerStep(c)
        PROVE  SettleSound'
    <3>1. \A d \in Caller \ {c} : call'[d] = call[d]
      BY <1>2, <2>1, OthersStay
    <3>2. CASE \/ \E e \in Email : NextUserID(c, e)
               \/ InsertUser(c) \/ InsertDuplicate(c) \/ InsertFails(c) \/ Answered(c)
      <4>1. UNCHANGED <<result, status, errors, paid>>
        BY <3>2 DEF NextUserID, InsertUser, InsertDuplicate, InsertFails, Answered
      <4>2. call'[c].op \notin {"read", "write"}
        BY <1>2, <3>2, RegisterMoves DEF At
      <4> QED
        BY <1>2, <3>1, <4>1, <4>2, QuietSettling, AccountsAssumption
    <3>3. CASE \E g \in Game : \E kills \in Results : FinishRoom(c, g, kills)
      BY <1>2, <3>3, SettleBegins, AccountsAssumption
    <3>4. CASE \/ SettleRead(c) \/ SettleReadFails(c)
               \/ SettleWrite(c) \/ SettleWriteFails(c) \/ SettleDone(c)
      BY <1>2, <3>4, SettleStep, AccountsAssumption
    <3>5. CASE \/ \E u \in Known : \E gun \in Gun : \E price \in Prices :
                    LookUpGun(c, u, gun, price)
               \/ BuyGun(c) \/ BuyMisses(c) \/ BuyFails(c) \/ Explain(c)
               \/ \E u \in Known : FindToModify(c, u) \/ EquipGun(c, u)
               \/ ModifyProfile(c)
      <4>1. UNCHANGED <<result, status, errors, paid>>
        BY <3>5 DEF LookUpGun, BuyGun, BuyMisses, BuyFails, Explain, FindToModify, EquipGun,
                    ModifyProfile
      <4>2. call'[c].op \notin {"read", "write"}
        BY <1>2, <3>5, MallMoves DEF At
      <4> QED
        BY <1>2, <3>1, <4>1, <4>2, QuietSettling, AccountsAssumption
    <3> QED
      BY <2>1, <3>2, <3>3, <3>4, <3>5 DEF CallerStep
  <2> QED
    BY <1>2, <2>1, SettleLost, AccountsAssumption DEF Next
<1>3. SettleSound /\ UNCHANGED vars => SettleSound'
  BY DEF vars, SettleSound, GameSound, WorkSound, Settles, ID
<1> QED
  BY <1>1, <1>2, <1>3, AlwaysTyped, PTL DEF Spec

\* No player is paid twice for a game, and a settlement that ends has paid everybody
\* that its answer does not name (SettleUpRoom).
THEOREM AlwaysSettledOnce == Spec => []SettledOnce
<1>1. ASSUME Typed, SettleSound
      PROVE  SettledOnce
  <2>1. \A g \in Game : DOMAIN result[g] \subseteq ID
    BY <1>1, KnownIDs, AccountsAssumption DEF Typed, ResultsTyped
  <2> QED
    BY <1>1, <2>1 DEF SettleSound, GameSound, SettledOnce
<1> QED
  BY <1>1, AlwaysTyped, AlwaysSettling, PTL

-----------------------------------------------------------------------------
(* Sums.  A fold is the value of a recursive function that the definition of *)
(* FoldLeft chooses; it is compared here with sums that add one summand at a *)
(* time, so that the order in which SetToSeq lists a set does not matter.   *)

\* Induction on the naturals, as the existence of a least counterexample.
LEMMA LeastOf ==
  ASSUME NEW T \in SUBSET Nat, T # {}
  PROVE  \E n \in T : \A m \in T : ~(m < n)
<1>1. IsWellFoundedOn({x \in Nat \X Nat : x[1] < x[2]}, Nat)
  BY NatLessThanWellFounded DEF OpToRel
<1>2. \E x \in T : \A y \in T : ~(<<y, x>> \in {z \in Nat \X Nat : z[1] < z[2]})
  BY <1>1, WFMin
<1> QED
  BY <1>2

\* The recursive function behind a fold over n summands v.
Recursion(n, v, it) ==
  it = [s \in SUBSET (1..n) |->
          IF s = {} THEN 0 ELSE it[s \ {Max(s)}] + v[Max(s)]]

\* Its sums of the first k summands.
Sums(n, v, t) ==
  /\ t \in [0..n -> Int]
  /\ t[0] = 0
  /\ \A k \in 1..n : t[k] = t[k - 1] + v[k]

LEMMA MaxIs ==
  ASSUME NEW n \in Nat, NEW s \in SUBSET (1..n), n \in s
  PROVE  Max(s) = n
<1>1. n \in s /\ \A y \in s : n >= y
  OBVIOUS
<1>2. \A x \in s : (\A y \in s : x >= y) => x = n
  OBVIOUS
<1> QED
  BY <1>1, <1>2 DEF Max

LEMMA MaxIn ==
  ASSUME NEW n \in Nat, NEW s \in SUBSET (1..n), s # {}
  PROVE  Max(s) \in s
<1> DEFINE T == {n - x : x \in s}
<1>1. T \in SUBSET Nat /\ T # {}
  <2>1. \A x \in s : n - x \in Nat
    OBVIOUS
  <2>2. T \in SUBSET Nat
    BY <2>1
  <2> QED
    BY <2>2
<1>2. PICK d \in T : \A m \in T : ~(m < d)
  BY <1>1, LeastOf
<1>3. PICK x \in s : d = n - x
  BY <1>2
<1>4. \A y \in s : x >= y
  BY <1>2, <1>3
<1> QED
  BY <1>3, <1>4 DEF Max

LEMMA RecursionExists ==
  ASSUME NEW N \in Nat, NEW v
  PROVE  \E it : Recursion(N, v, it)
<1> DEFINE P(n) == \E it : Recursion(n, v, it)
           T == {n \in Nat : ~P(n)}
<1>1. P(0)
  <2> DEFINE it == [s \in SUBSET (1..0) |-> 0]
  <2>1. \A s \in SUBSET (1..0) : s = {}
    OBVIOUS
  <2>2. it = [s \in SUBSET (1..0) |->
                IF s = {} THEN 0 ELSE it[s \ {Max(s)}] + v[Max(s)]]
    BY <2>1
  <2> QED
    BY <2>2 DEF Recursion
<1>2. ASSUME NEW n \in Nat, P(n)
      PROVE  P(n + 1)
  <2>1. PICK a : a = [s \in SUBSET (1..n) |->
                        IF s = {} THEN 0 ELSE a[s \ {Max(s)}] + v[Max(s)]]
    BY <1>2 DEF Recursion
  <2> DEFINE it == [s \in SUBSET (1..(n + 1)) |->
                      IF n + 1 \in s THEN a[s \ {n + 1}] + v[n + 1] ELSE a[s]]
  <2>2. ASSUME NEW s \in SUBSET (1..(n + 1))
        PROVE  it[s] = IF s = {} THEN 0 ELSE it[s \ {Max(s)}] + v[Max(s)]
    <3>1. CASE n + 1 \in s
      <4>1. Max(s) = n + 1
        BY <3>1, MaxIs
      <4>2. s \ {n + 1} \in SUBSET (1..(n + 1)) /\ n + 1 \notin s \ {n + 1}
        OBVIOUS
      <4>3. it[s \ {n + 1}] = a[s \ {n + 1}]
        BY <4>2
      <4>4. it[s] = a[s \ {n + 1}] + v[n + 1]
        BY <3>1
      <4> QED
        BY <3>1, <4>1, <4>3, <4>4
    <3>2. CASE n + 1 \notin s
      <4>1. s \in SUBSET (1..n)
        <5>1. \A x \in s : x \in 1..n
          BY <3>2
        <5> QED
          BY <5>1
      <4>2. it[s] = a[s]
        BY <3>2
      <4>3. a[s] = IF s = {} THEN 0 ELSE a[s \ {Max(s)}] + v[Max(s)]
        BY <2>1, <4>1
      <4>4. s \ {Max(s)} \in SUBSET (1..(n + 1)) /\ n + 1 \notin s \ {Max(s)}
        BY <3>2
      <4>5. it[s \ {Max(s)}] = a[s \ {Max(s)}]
        BY <4>4
      <4> QED
        BY <4>2, <4>3, <4>5
    <3> QED
      BY <3>1, <3>2
  <2>3. it = [s \in SUBSET (1..(n + 1)) |->
                IF s = {} THEN 0 ELSE it[s \ {Max(s)}] + v[Max(s)]]
    <3>1. it = [s \in SUBSET (1..(n + 1)) |-> it[s]]
      OBVIOUS
    <3> HIDE DEF it
    <3> QED
      BY <2>2, <3>1
  <2> QED
    BY <2>3 DEF Recursion
<1> HIDE DEF P
<1>3. T = {}
  <2>1. ASSUME T # {}
        PROVE  FALSE
    <3>1. PICK n \in T : \A m \in T : ~(m < n)
      BY <2>1, LeastOf
    <3>2. n \in Nat /\ n # 0
      BY <1>1
    <3>3. n - 1 \in Nat /\ n - 1 < n /\ (n - 1) + 1 = n
      BY <3>2
    <3>4. P(n - 1)
      BY <3>1, <3>3
    <3> QED
      BY <1>2, <3>1, <3>3, <3>4
  <2> QED
    BY <2>1
<1> QED
  BY <1>3 DEF P

LEMMA RecursionSums ==
  ASSUME NEW n \in Nat, NEW v, NEW it, Recursion(n, v, it), NEW t, Sums(n, v, t)
  PROVE  it[1..n] = t[n]
<1> DEFINE T == {k \in 0..n : it[1..k] # t[k]}
<1>1. ASSUME NEW s \in SUBSET (1..n)
      PROVE  it[s] = IF s = {} THEN 0 ELSE it[s \ {Max(s)}] + v[Max(s)]
  BY DEF Recursion
<1>2. it[1..0] = t[0]
  <2>1. 1..0 = {}
    OBVIOUS
  <2>2. it[{}] = 0
    BY <1>1
  <2> QED
    BY <2>1, <2>2 DEF Sums
<1>3. ASSUME NEW k \in 1..n, it[1..(k - 1)] = t[k - 1]
      PROVE  it[1..k] = t[k]
  <2>1. 1..k \in SUBSET (1..n) /\ 1..k # {} /\ k \in 1..k /\ k \in Nat
    OBVIOUS
  <2>2. Max(1..k) = k
    BY <2>1, MaxIs
  <2>3. (1..k) \ {k} = 1..(k - 1)
    OBVIOUS
  <2>4. it[1..k] = it[1..(k - 1)] + v[k]
    BY <1>1, <2>1, <2>2, <2>3
  <2> QED
    BY <1>3, <2>4 DEF Sums
<1>4. T = {}
  <2>1. ASSUME T # {}
        PROVE  FALSE
    <3>0. T \in SUBSET Nat
      OBVIOUS
    <3>1. PICK k \in T : \A m \in T : ~(m < k)
      BY <2>1, <3>0, LeastOf
    <3>2. k \in 1..n /\ k - 1 \in 0..n /\ k - 1 < k
      BY <1>2, <3>1
    <3>3. it[1..(k - 1)] = t[k - 1]
      BY <3>1, <3>2
    <3> QED
      BY <1>3, <3>1, <3>2, <3>3
  <2> QED
    BY <2>1
<1> QED
  BY <1>4

LEMMA SumsAppend ==
  ASSUME NEW n \in Nat, NEW v, NEW t, Sums(n, v, t), NEW w, NEW x \in Int,
         \A k \in 1..n : w[k] = v[k], w[n + 1] = x
  PROVE  \E r : Sums(n + 1, w, r) /\ r[n + 1] = t[n] + x
<1> DEFINE r == [k \in 0..(n + 1) |-> IF k = n + 1 THEN t[n] + x ELSE t[k]]
<1>1. r \in [0..(n + 1) -> Int] /\ r[0] = 0 /\ r[n + 1] = t[n] + x
  BY DEF Sums
<1>2. ASSUME NEW k \in 1..(n + 1)
      PROVE  r[k] = r[k - 1] + w[k]
  <2>1. CASE k = n + 1
    BY <2>1
  <2>2. CASE k \in 1..n
    <3>1. r[k] = t[k] /\ r[k - 1] = t[k - 1] /\ t[k] = t[k - 1] + v[k]
      BY <2>2 DEF Sums
    <3> QED
      BY <2>2, <3>1
  <2> QED
    BY <2>1, <2>2
<1> HIDE DEF r
<1> QED
  BY <1>1, <1>2 DEF Sums

\* A sum over every subset of S, whatever the order.
Books(S, w, h) ==
  /\ h \in [SUBSET S -> Int]
  /\ h[{}] = 0
  /\ \A T \in SUBSET S : \A g \in S \ T : h[T \cup {g}] = h[T] + w[g]

\* The summands x go on from w with one more, of g, and make e.
GoesOn(S, w, h, g, x, U, e) ==
  /\ g \notin S /\ U = S \cup {g}
  /\ \A f \in S : x[f] = w[f]
  /\ \A f \in U : x[f] \in Int
  /\ e = h[S] + x[g]

LEMMA BooksGrow ==
  ASSUME NEW S, NEW w, NEW h, Books(S, w, h), NEW g, NEW x, NEW U, NEW e,
         GoesOn(S, w, h, g, x, U, e)
  PROVE  \E b : Books(U, x, b) /\ b[U] = e
<1>0. /\ g \notin S /\ U = S \cup {g}
      /\ \A f \in S : x[f] = w[f]
      /\ \A f \in S \cup {g} : x[f] \in Int
      /\ e = h[S] + x[g]
  BY DEF GoesOn
<1> DEFINE b == [T \in SUBSET (S \cup {g}) |-> IF g \in T THEN h[T \ {g}] + x[g] ELSE h[T]]
<1>1. ASSUME NEW T \in SUBSET (S \cup {g})
      PROVE  T \ {g} \in SUBSET S /\ h[T \ {g}] \in Int
  BY DEF Books
<1>2. ASSUME NEW T \in SUBSET (S \cup {g}), g \notin T
      PROVE  T \in SUBSET S /\ h[T] \in Int
  BY <1>2 DEF Books
<1>3. b \in [SUBSET (S \cup {g}) -> Int]
  BY <1>0, <1>1, <1>2
<1>4. b[{}] = 0
  BY DEF Books
<1>5. ASSUME NEW T \in SUBSET (S \cup {g}), NEW f \in (S \cup {g}) \ T
      PROVE  b[T \cup {f}] = b[T] + x[f]
  <2>1. T \cup {f} \in SUBSET (S \cup {g})
    OBVIOUS
  <2>2. CASE f = g
    <3>1. b[T] = h[T] /\ (T \cup {g}) \ {g} = T
      BY <2>2
    <3>2. b[T \cup {g}] = h[(T \cup {g}) \ {g}] + x[g]
      BY <2>1, <2>2
    <3> QED
      BY <2>2, <3>1, <3>2
  <2>3. CASE f # g /\ g \in T
    <3>1. b[T] = h[T \ {g}] + x[g]
      BY <2>3
    <3>2. b[T \cup {f}] = h[(T \cup {f}) \ {g}] + x[g]
      BY <2>1, <2>3
    <3>3. (T \cup {f}) \ {g} = (T \ {g}) \cup {f}
      BY <2>3
    <3>4. h[(T \ {g}) \cup {f}] = h[T \ {g}] + w[f]
      BY <1>1, <2>3 DEF Books
    <3>5. x[f] = w[f] /\ f \in S
      BY <1>0, <2>3
    <3>6. h[T \ {g}] \in Int /\ h[(T \ {g}) \cup {f}] \in Int
      <4>1. (T \ {g}) \cup {f} \in SUBSET S
        BY <1>1, <3>5
      <4> QED
        BY <1>1, <4>1 DEF Books
    <3> HIDE DEF b
    <3> DEFINE p == h[T \ {g}]
               q == h[(T \ {g}) \cup {f}]
    <3>7. b[T] = p + x[g] /\ b[T \cup {f}] = q + x[g] /\ q = p + x[f] /\ p \in Int /\ q \in Int
      BY <3>1, <3>2, <3>3, <3>4, <3>5, <3>6
    <3> QED
      <4> HIDE DEF p, q
      <4>1. q + x[g] = (p + x[g]) + x[f]
        <5>1. x[f] \in Int
          BY <1>0, <1>5
        <5> QED
          BY <1>0, <3>7, <5>1
      <4> QED
        BY <3>7, <4>1
  <2>4. CASE f # g /\ g \notin T
    <3>1. b[T] = h[T] /\ b[T \cup {f}] = h[T \cup {f}]
      BY <2>1, <2>4
    <3>2. T \in SUBSET S /\ f \in S \ T /\ x[f] = w[f]
      BY <1>0, <1>2, <2>4
    <3> QED
      BY <3>1, <3>2 DEF Books
  <2> QED
    BY <2>2, <2>3, <2>4
<1>6. b[S \cup {g}] = h[S] + x[g]
  <2>1. (S \cup {g}) \ {g} = S
    BY <1>0
  <2> QED
    BY <2>1
<1> HIDE DEF b
<1> QED
  BY <1>0, <1>3, <1>4, <1>5, <1>6 DEF Books

\* q lists S, in some order, and these are the summands in that order.
Lists(n, q, S) ==
  /\ n \in Nat
  /\ q \in [1..n -> S]
  /\ \A i, j \in 1..n : q[i] = q[j] => i = j
  /\ \A g \in S : \E i \in 1..n : q[i] = g
InOrder(n, q, w) == [k \in 1..n |-> w[q[k]]]

\* Adding up the members of S in any order gives that sum.
LEMMA BooksSum ==
  ASSUME NEW S, NEW w, NEW h, Books(S, w, h), NEW n, NEW q, Lists(n, q, S)
  PROVE  \E t : Sums(n, InOrder(n, q, w), t) /\ t[n] = h[S]
<1> DEFINE v == InOrder(n, q, w)
<1>0. /\ n \in Nat /\ q \in [1..n -> S]
      /\ \A i, j \in 1..n : q[i] = q[j] => i = j
      /\ \A g \in S : \E i \in 1..n : q[i] = g
      /\ \A k \in 1..n : v[k] = w[q[k]]
  BY DEF Lists, InOrder
<1> HIDE DEF v
<1> DEFINE Until(k) == {q[i] : i \in 1..k}
           t == [k \in 0..n |-> h[Until(k)]]
<1>1. ASSUME NEW k \in 0..n
      PROVE  Until(k) \in SUBSET S
  <2>1. \A i \in 1..k : i \in 1..n
    BY <1>0
  <2> QED
    BY <1>0, <2>1
<1>2. t \in [0..n -> Int]
  BY <1>1 DEF Books
<1>3. Until(0) = {} /\ Until(n) = S
  <2>1. 1..0 = {}
    OBVIOUS
  <2> QED
    BY <1>0, <2>1
<1>4. ASSUME NEW k \in 1..n
      PROVE  t[k] = t[k - 1] + v[k]
  <2>1. 1..k = (1..(k - 1)) \cup {k} /\ k - 1 \in 0..n /\ k \in 0..n
    BY <1>0
  <2>2. Until(k) = Until(k - 1) \cup {q[k]}
    BY <2>1
  <2>3. q[k] \in S \ Until(k - 1)
    <3>1. \A i \in 1..(k - 1) : i \in 1..n /\ i # k
      BY <1>0
    <3> QED
      BY <1>0, <3>1
  <2>4. Until(k - 1) \in SUBSET S
    BY <1>1, <2>1
  <2> HIDE DEF Until
  <2>5. h[Until(k - 1) \cup {q[k]}] = h[Until(k - 1)] + w[q[k]]
    BY <2>3, <2>4 DEF Books
  <2> QED
    BY <1>0, <2>1, <2>2, <2>5
<1> HIDE DEF Until
<1>5. t[0] = 0 /\ t[n] = h[S]
  <2>1. 0 \in 0..n /\ n \in 0..n
    BY <1>0
  <2>2. t[0] = h[{}] /\ t[n] = h[S]
    BY <1>3, <2>1
  <2> QED
    BY <2>2 DEF Books
<1> HIDE DEF t
<1> QED
  BY <1>2, <1>4, <1>5 DEF Sums, v

-----------------------------------------------------------------------------
(* Coins.                                                                  *)

\* The games that paid a user, what each of them paid, and the prices of its guns.
Games(u) == {g \in Game : paid[<<g, u>>] > 0}
Worth(u) == [g \in Games(u) |-> paid[<<g, u>>] * result[g][u].coin]
PricesPaid(u) == [k \in DOMAIN users[u].guns |-> users[u].guns[k].price]

\* What the folds of CoinsAccounted choose.
Earnings(u, q) ==
  CHOOSE iter : iter = [s \in SUBSET DOMAIN q |->
    IF s = {} THEN 0
    ELSE iter[s \ {Max(s)}] + paid[<<q[Max(s)], u>>] * result[q[Max(s)]][u].coin]
Expenses(q) ==
  CHOOSE iter : iter = [s \in SUBSET DOMAIN q |->
    IF s = {} THEN 0 ELSE iter[s \ {Max(s)}] + q[Max(s)].price]

LEMMA SpentIs ==
  ASSUME NEW u, users[u].guns \in Seq(Bought), NEW t, Sums(Len(users[u].guns), PricesPaid(u), t)
  PROVE  Spent(u) = t[Len(users[u].guns)]
<1> DEFINE q == users[u].guns
           n == Len(q)
           v == PricesPaid(u)
<1>1. n \in Nat /\ DOMAIN q = 1..n
  OBVIOUS
<1>2. v = [k \in DOMAIN q |-> q[k].price]
  BY DEF PricesPaid
<1>3. Spent(u) = Expenses(q)[DOMAIN q]
  BY DEF Spent, FoldLeft, MapThenFoldSet, Expenses
<1>4. Sums(n, v, t)
  OBVIOUS
<1> HIDE DEF q, n, v
<1>5. PICK it : it = [s \in SUBSET (1..n) |->
                        IF s = {} THEN 0 ELSE it[s \ {Max(s)}] + v[Max(s)]]
  BY <1>1, RecursionExists DEF Recursion
<1>6. ASSUME NEW s \in SUBSET (1..n), s # {}
      PROVE  v[Max(s)] = q[Max(s)].price
  <2>1. Max(s) \in DOMAIN q
    BY <1>1, <1>6, MaxIn
  <2> QED
    BY <1>2, <2>1
<1>7. it = [s \in SUBSET DOMAIN q |->
              IF s = {} THEN 0 ELSE it[s \ {Max(s)}] + q[Max(s)].price]
  BY <1>1, <1>5, <1>6
<1> DEFINE e == Expenses(q)
<1>8. e = [s \in SUBSET DOMAIN q |->
             IF s = {} THEN 0 ELSE e[s \ {Max(s)}] + q[Max(s)].price]
  BY <1>7 DEF Expenses
<1> HIDE DEF e
<1>9. e = [s \in SUBSET (1..n) |-> IF s = {} THEN 0 ELSE e[s \ {Max(s)}] + v[Max(s)]]
  BY <1>1, <1>6, <1>8
<1>10. Recursion(n, v, e)
  BY <1>9 DEF Recursion
<1>11. e[1..n] = t[n]
  BY <1>1, <1>4, <1>10, RecursionSums
<1> QED
  BY <1>1, <1>3, <1>11 DEF e, q, n

\* SetToSeq lists a finite set.
LEMMA ListFacts ==
  ASSUME NEW S, IsFiniteSet(S)
  PROVE  \E n : Lists(n, SetToSeq(S), S)
<1> DEFINE n == Cardinality(S)
           q == SetToSeq(S)
<1>1. n \in Nat /\ ExistsBijection(1..n, S)
  BY FS_CardinalityType
<1>2. \E f \in [1..n -> S] : IsInjective(f)
  BY <1>1 DEF ExistsBijection, Bijection, Injection
<1>3. q \in [1..n -> S] /\ IsInjective(q)
  BY <1>2 DEF SetToSeq
<1> HIDE DEF q
<1>4. q \in Injection(1..n, S)
  BY <1>3 DEF Injection
<1>5. Cardinality(1..n) = n
  <2> DEFINE k == n
  <2>1. k \in Nat
    BY <1>1
  <2> HIDE DEF k
  <2>2. Cardinality(1..k) = k
    BY <2>1, FS_Interval
  <2> QED
    BY <2>2 DEF k
<1>6. q \in Surjection(1..n, S)
  BY <1>4, <1>5, FS_Injection
<1>7. /\ \A i, j \in 1..n : q[i] = q[j] => i = j
      /\ \A g \in S : \E i \in 1..n : q[i] = g
  BY <1>3, <1>6 DEF IsInjective, Surjection
<1> HIDE DEF n
<1> QED
  BY <1>1, <1>3, <1>7 DEF q, Lists

LEMMA EarnedIs ==
  ASSUME NEW u, IsFiniteSet(Games(u)), NEW h, Books(Games(u), Worth(u), h)
  PROVE  Earned(u) = h[Games(u)]
<1> DEFINE S == Games(u)
           q == SetToSeq(S)
           w == Worth(u)
<1>1. PICK n : Lists(n, q, S)
  BY ListFacts
<1>2. Earned(u) = Earnings(u, q)[DOMAIN q]
  BY Zenon DEF Earned, Games, FoldLeft, MapThenFoldSet, Earnings
<1>3. \A g \in S : w[g] = paid[<<g, u>>] * result[g][u].coin
  BY DEF Games, Worth
<1>4. Books(S, w, h)
  OBVIOUS
<1> HIDE DEF S, q, w
<1>5. n \in Nat /\ q \in [1..n -> S]
  BY <1>1 DEF Lists
<1> DEFINE v == InOrder(n, q, w)
<1>6. PICK t : Sums(n, v, t) /\ t[n] = h[S]
  BY <1>1, <1>4, BooksSum
<1>7. \A k \in 1..n : v[k] = w[q[k]]
  BY DEF InOrder
<1> HIDE DEF v
<1>8. PICK it : it = [s \in SUBSET (1..n) |->
                        IF s = {} THEN 0 ELSE it[s \ {Max(s)}] + v[Max(s)]]
  BY <1>5, RecursionExists DEF Recursion
<1>9. ASSUME NEW s \in SUBSET (1..n), s # {}
      PROVE  v[Max(s)] = paid[<<q[Max(s)], u>>] * result[q[Max(s)]][u].coin
  <2>1. Max(s) \in 1..n
    BY <1>5, <1>9, MaxIn
  <2>2. q[Max(s)] \in S
    BY <1>5, <2>1
  <2> QED
    BY <1>3, <1>7, <2>1, <2>2
<1>10. DOMAIN q = 1..n
  BY <1>5
<1>11. it = [s \in SUBSET DOMAIN q |->
               IF s = {} THEN 0
               ELSE it[s \ {Max(s)}] + paid[<<q[Max(s)], u>>] * result[q[Max(s)]][u].coin]
  BY <1>8, <1>9, <1>10
<1> DEFINE e == Earnings(u, q)
<1>12. e = [s \in SUBSET DOMAIN q |->
              IF s = {} THEN 0
              ELSE e[s \ {Max(s)}] + paid[<<q[Max(s)], u>>] * result[q[Max(s)]][u].coin]
  BY <1>11 DEF Earnings
<1> HIDE DEF e
<1>13. e = [s \in SUBSET (1..n) |-> IF s = {} THEN 0 ELSE e[s \ {Max(s)}] + v[Max(s)]]
  BY <1>9, <1>10, <1>12
<1>14. Recursion(n, v, e)
  BY <1>13 DEF Recursion
<1>15. e[1..n] = t[n]
  BY <1>5, <1>6, <1>14, RecursionSums
<1> QED
  BY <1>2, <1>6, <1>10, <1>15 DEF e, S

\* The account of a user is the sum of what came in and went out.
Booked(u) ==
  LET bought == Len(users[u].guns)
  IN \E h, t : /\ Books(Games(u), Worth(u), h)
               /\ Sums(bought, PricesPaid(u), t)
               /\ users[u].coins = StartCoins + h[Games(u)] - t[bought]

BooksKept ==
  /\ \A u \in Known : IsFiniteSet(Games(u)) /\ Booked(u)
  /\ \A g \in Game : \A u \in ID : paid[<<g, u>>] > 0 => u \in DOMAIN result[g]

LEMMA BookedAccounted ==
  ASSUME AccountsAssumption, Typed, NEW u \in Known, IsFiniteSet(Games(u)), Booked(u)
  PROVE  users[u].coins = StartCoins + Earned(u) - Spent(u)
<1>1. PICK h, t : /\ Books(Games(u), Worth(u), h)
                  /\ Sums(Len(users[u].guns), PricesPaid(u), t)
                  /\ users[u].coins = StartCoins + h[Games(u)] - t[Len(users[u].guns)]
  BY DEF Booked
<1>2. users[u].guns \in Seq(Bought)
  BY DEF Typed, UsersTyped, Doc
<1>3. Earned(u) = h[Games(u)]
  BY <1>1, EarnedIs
<1>4. Spent(u) = t[Len(users[u].guns)]
  BY <1>1, <1>2, SpentIs
<1> QED
  BY <1>1, <1>3, <1>4

-----------------------------------------------------------------------------
(* The three kinds of steps.                                               *)

\* No coins move; a new user has what every user starts with.
SameMoney ==
  /\ paid' = paid
  /\ \A u \in Known : /\ u \in Known' /\ users'[u].coins = users[u].coins
                      /\ users'[u].guns = users[u].guns
  /\ \A u \in Known' \ Known : users'[u].coins = StartCoins /\ users'[u].guns = <<>>
  /\ \A g \in Game : status[g] # "none" => result'[g] = result[g]

Sale(u, gun) ==
  /\ CanBuy(u, gun)
  /\ users' = [users EXCEPT ![u] = SellGun(@, gun)]
  /\ UNCHANGED <<seq, result, paid>>

Payment(c) == At(c, "write") /\ AddExpLevelCoin(c) /\ UNCHANGED <<seq, result>>

LEMMA QuietMoney ==
  ASSUME UNCHANGED <<users, result, paid>>
  PROVE  SameMoney
BY DEF SameMoney, Known

LEMMA MoneyMoves ==
  ASSUME AccountsAssumption, Typed, Next
  PROVE  \/ SameMoney
         \/ \E u \in Known : \E gun \in Bought : Sale(u, gun)
         \/ \E c \in Caller : Payment(c)
<1>1. ASSUME NEW c \in Caller, At(c, "insert"), Insert(c), UNCHANGED <<seq, result, paid>>
      PROVE  SameMoney
  <2> DEFINE doc == NewUser(call[c].email)
             id == call[c].id
  <2>1. doc.coins = StartCoins /\ doc.guns = <<>>
    BY DEF NewUser
  <2> HIDE DEF doc, id
  <2>2. users' = [u \in Known \cup {id} |-> IF u \in Known THEN users[u] ELSE doc]
    BY <1>1 DEF Insert, doc, id
  <2>3. Known' = Known \cup {id}
    BY <2>2 DEF Known
  <2> QED
    BY <1>1, <2>1, <2>2, <2>3 DEF SameMoney
<1>2. ASSUME NEW u \in Known, SetProfile(u), UNCHANGED <<result, paid>>
      PROVE  SameMoney
  <2>1. users \in [Known -> Doc]
    BY DEF Typed, UsersTyped
  <2>2. Known' = Known
    BY <1>2, <2>1 DEF SetProfile, Known
  <2>3. ASSUME NEW v \in Known
        PROVE  users'[v].coins = users[v].coins /\ users'[v].guns = users[v].guns
    <3>1. users'[v] = users[v] \/ users'[v] = [users[v] EXCEPT !.profile = "edited"]
      BY <1>2, <2>1 DEF SetProfile
    <3>2. users[v] \in Doc
      BY <2>1
    <3> QED
      BY <3>1, <3>2 DEF Doc
  <2> QED
    BY <1>2, <2>2, <2>3 DEF SameMoney
<1>3. ASSUME NEW c \in Caller, CallerStep(c)
      PROVE  \/ SameMoney
             \/ \E u \in Known : \E gun \in Bought : Sale(u, gun)
             \/ Payment(c)
  <2>1. CASE \/ \E e \in Email : NextUserID(c, e)
             \/ InsertUser(c) \/ InsertDuplicate(c) \/ InsertFails(c) \/ Answered(c)
    BY <1>1, <2>1, QuietMoney
       DEF NextUserID, InsertUser, InsertDuplicate, InsertFails, Answered
  <2>2. ASSUME NEW g \in Game, NEW kills \in Results, FinishRoom(c, g, kills)
        PROVE  SameMoney
    <3>1. UNCHANGED <<users, paid>> /\ \A h \in Game : status[h] # "none" => result'[h] = result[h]
      BY <2>2 DEF FinishRoom, Typed, ResultsTyped
    <3> QED
      BY <3>1 DEF SameMoney, Known
  <2>3. CASE SettleRead(c) \/ SettleReadFails(c) \/ SettleDone(c)
    BY <2>3, QuietMoney DEF SettleRead, SettleReadFails, SettleDone
  <2>4. CASE SettleWrite(c) \/ SettleWriteFails(c)
    BY <2>4, QuietMoney DEF SettleWrite, SettleWriteFails, Payment
  <2>5. CASE \/ \E u \in Known : \E gun \in Gun : \E price \in Prices :
                  LookUpGun(c, u, gun, price)
             \/ BuyMisses(c) \/ Explain(c)
    BY <2>5, QuietMoney DEF LookUpGun, BuyMisses, Explain
  <2>6. CASE BuyGun(c) \/ BuyFails(c)
    <3>1. At(c, "buy") /\ UNCHANGED <<seq, result, paid>>
      BY <2>6 DEF BuyGun, BuyFails
    <3>2. call[c].user \in Known /\ call[c].gun \in Bought
      BY <3>1, BuyerFacts DEF At
    <3> QED
      BY <2>6, <3>1, <3>2, QuietMoney DEF BuyGun, BuyFails, Sale
  <2>7. CASE \E u \in Known : FindToModify(c, u) \/ EquipGun(c, u)
    BY <1>2, <2>7, QuietMoney DEF FindToModify, EquipGun
  <2>8. CASE ModifyProfile(c)
    <3>1. call[c].user \in Known
      BY <2>8 DEF ModifyProfile, At, Typed, CallSound
    <3> QED
      BY <1>2, <2>8, <3>1, QuietMoney DEF ModifyProfile
  <2> QED
    BY <1>3, <2>1, <2>2, <2>3, <2>4, <2>5, <2>6, <2>7, <2>8 DEF CallerStep
<1>4. ASSUME NEW g \in Game, RequestLost(g)
      PROVE  SameMoney
  BY <1>4, QuietMoney DEF RequestLost
<1> QED
  BY <1>3, <1>4 DEF Next

-----------------------------------------------------------------------------

\* Games that paid are settled, for players of theirs, once.
LEMMA GameFacts ==
  ASSUME AccountsAssumption, Typed, SettleSound, BooksKept, NEW u \in ID, NEW g \in Games(u)
  PROVE  /\ g \in Game /\ paid[<<g, u>>] = 1 /\ status[g] # "none"
         /\ u \in DOMAIN result[g] /\ u \in Known /\ result[g][u].coin \in Nat
         /\ Worth(u)[g] = result[g][u].coin
<1>1. g \in Game /\ paid[<<g, u>>] \in Nat /\ paid[<<g, u>>] > 0
  BY DEF Games, Typed, ResultsTyped
<1>2. paid[<<g, u>>] = 1 /\ status[g] # "none"
  BY <1>1 DEF SettleSound, GameSound
<1>3. u \in DOMAIN result[g] /\ u \in Known /\ result[g][u].coin \in Nat
  BY <1>1 DEF BooksKept, Typed, ResultsTyped, Won
<1>4. Worth(u)[g] = paid[<<g, u>>] * result[g][u].coin
  BY DEF Worth
<1> QED
  BY <1>1, <1>2, <1>3, <1>4

LEMMA BookedStays ==
  ASSUME AccountsAssumption, Typed, SettleSound, BooksKept, NEW u \in Known, u \in Known',
         Games(u)' = Games(u), \A g \in Games(u) : paid'[<<g, u>>] = paid[<<g, u>>],
         \A g \in Games(u) : result'[g] = result[g],
         users'[u].coins = users[u].coins, users'[u].guns = users[u].guns
  PROVE  IsFiniteSet(Games(u))' /\ Booked(u)'
<1>1. Worth(u)' = Worth(u)
  BY DEF Worth
<1>2. PricesPaid(u)' = PricesPaid(u)
  BY DEF PricesPaid
<1>3. IsFiniteSet(Games(u))' /\ Booked(u)
  BY DEF BooksKept
<1>4. Booked(u)'
  BY <1>1, <1>2, <1>3 DEF Booked
<1> QED
  BY <1>3, <1>4

\* With no games and no guns there is nothing to add.
LEMMA NewBooks ==
  ASSUME AccountsAssumption, NEW u, Games(u)' = {}, users'[u].guns = <<>>,
         users'[u].coins = StartCoins
  PROVE  IsFiniteSet(Games(u))' /\ Booked(u)'
<1> DEFINE h == [s \in SUBSET {} |-> 0]
           t == [k \in 0..0 |-> 0]
<1>1. Books(Games(u)', Worth(u)', h)
  <2>1. h \in [SUBSET {} -> Int] /\ h[{}] = 0
    OBVIOUS
  <2> HIDE DEF h
  <2> QED
    BY <2>1 DEF Books
<1>2. Len(users'[u].guns) = 0
  OBVIOUS
<1>3. Sums(0, PricesPaid(u)', t)
  BY DEF Sums
<1>4. StartCoins \in Int /\ h[{}] = 0 /\ t[0] = 0
  BY DEF AccountsAssumption
<1> HIDE DEF h, t
<1>5. users'[u].coins = StartCoins + h[{}] - t[0]
  BY <1>4
<1>6. Booked(u)'
  BY <1>1, <1>2, <1>3, <1>5 DEF Booked
<1> QED
  BY <1>6, FS_EmptySet

LEMMA QuietBooks ==
  ASSUME AccountsAssumption, Typed, Typed', SettleSound, BooksKept, SameMoney
  PROVE  BooksKept'
<1>1. ASSUME NEW u \in Known
      PROVE  IsFiniteSet(Games(u))' /\ Booked(u)'
  <2>1. u \in ID
    BY KnownIDs
  <2>2. Games(u)' = Games(u)
    BY DEF Games, SameMoney
  <2>3. \A g \in Games(u) : result'[g] = result[g]
    BY <2>1, GameFacts DEF SameMoney
  <2>4. /\ u \in Known' /\ users'[u].coins = users[u].coins /\ users'[u].guns = users[u].guns
        /\ \A g \in Games(u) : paid'[<<g, u>>] = paid[<<g, u>>]
    BY DEF SameMoney
  <2> QED
    BY <2>2, <2>3, <2>4, BookedStays
<1>2. ASSUME NEW u \in Known' \ Known
      PROVE  IsFiniteSet(Games(u))' /\ Booked(u)'
  <2>1. u \in ID
    BY KnownIDs DEF ID, Typed, UsersTyped, AccountsAssumption
  <2>2. Games(u) = {}
    BY <2>1, GameFacts
  <2>3. Games(u)' = {}
    BY <2>2 DEF Games, SameMoney
  <2>4. users'[u].coins = StartCoins /\ users'[u].guns = <<>>
    BY DEF SameMoney
  <2> QED
    BY <2>3, <2>4, NewBooks
<1>3. ASSUME NEW g \in Game, NEW u \in ID, paid'[<<g, u>>] > 0
      PROVE  u \in DOMAIN result'[g]
  <2>1. g \in Games(u)
    BY <1>3 DEF SameMoney, Games
  <2>2. u \in DOMAIN result[g] /\ status[g] # "none"
    BY <2>1, GameFacts
  <2> QED
    BY <2>2 DEF SameMoney
<1>4. ID' = ID
  BY DEF ID
<1> QED
  BY <1>1, <1>2, <1>3, <1>4 DEF BooksKept

LEMMA SaleBooks ==
  ASSUME AccountsAssumption, Typed, SettleSound, BooksKept,
         NEW u \in Known, NEW gun \in Bought, Sale(u, gun)
  PROVE  BooksKept'
<1>1. users \in [Known -> Doc] /\ users[u] \in Doc
  BY DEF Typed, UsersTyped
<1>2. Known' = Known /\ UNCHANGED <<result, paid>>
  BY <1>1 DEF Sale, Known
<1>3. ID' = ID /\ \A v : Games(v)' = Games(v)
  BY <1>2 DEF ID, Games
<1>4. ASSUME NEW v \in Known, v # u
      PROVE  IsFiniteSet(Games(v))' /\ Booked(v)'
  <2>1. users'[v] = users[v]
    BY <1>1, <1>4 DEF Sale
  <2> QED
    BY <1>2, <1>3, <2>1, BookedStays
<1>5. IsFiniteSet(Games(u))' /\ Booked(u)'
  <2> DEFINE old == users[u].guns
             new == users'[u].guns
             n == Len(old)
             v == PricesPaid(u)
             w == PricesPaid(u)'
             p == gun.price
  <2>1. old \in Seq(Bought) /\ users[u].coins \in Nat
    BY <1>1 DEF Doc
  <2>2. p \in Nat
    BY DEF Bought, AccountsAssumption
  <2>3. users'[u] = SellGun(users[u], gun)
    BY <1>1 DEF Sale
  <2>4. new = Append(old, gun) /\ users'[u].coins = users[u].coins - p
    BY <1>1, <2>3 DEF SellGun, Doc
  <2>5. PICK h, t : /\ Books(Games(u), Worth(u), h)
                    /\ Sums(n, v, t)
                    /\ users[u].coins = StartCoins + h[Games(u)] - t[n]
    BY DEF BooksKept, Booked
  <2>6. v = [k \in DOMAIN old |-> old[k].price] /\ w = [k \in DOMAIN new |-> new[k].price]
    BY DEF PricesPaid
  <2>7. /\ n \in Nat /\ Len(new) = n + 1 /\ DOMAIN old = 1..n /\ DOMAIN new = 1..(n + 1)
        /\ \A k \in 1..n : new[k] = old[k]
        /\ new[n + 1] = gun
    <3> HIDE DEF old, new
    <3> QED
      BY <2>1, <2>4
  <2>8. (\A k \in 1..n : w[k] = v[k]) /\ w[n + 1] = p
    <3> HIDE DEF old, new, v, w, n
    <3>1. \A k \in 1..n : k \in DOMAIN old /\ k \in DOMAIN new
      BY <2>7
    <3>2. n + 1 \in DOMAIN new
      BY <2>7
    <3> QED
      BY <2>6, <2>7, <3>1, <3>2
  <2>9. PICK r : Sums(n + 1, w, r) /\ r[n + 1] = t[n] + p
    <3> HIDE DEF n, v, w, p
    <3>1. n \in Nat /\ Sums(n, v, t) /\ p \in Int
      BY <2>2, <2>5, <2>7
    <3> QED
      BY <2>8, <3>1, SumsAppend
  <2>10. Worth(u)' = Worth(u)
    BY <1>2, <1>3 DEF Worth
  <2>11. users'[u].coins = StartCoins + h[Games(u)] - r[n + 1]
    <3> DEFINE a == users[u].coins
               b == users'[u].coins
               e == h[Games(u)]
               s == t[n]
               z == r[n + 1]
    <3>1. a \in Int /\ StartCoins \in Int /\ p \in Int /\ e \in Int /\ s \in Int
      <4>1. n \in 0..n
        BY <2>7
      <4> QED
        BY <2>1, <2>2, <2>5, <4>1 DEF AccountsAssumption, Books, Sums
    <3>2. a = StartCoins + e - s /\ b = a - p /\ z = s + p
      BY <2>4, <2>5, <2>9
    <3> HIDE DEF a, b, e, s, z, p
    <3>3. b = StartCoins + e - z
      BY <3>1, <3>2
    <3> QED
      BY <3>3 DEF b, e, z
  <2>12. Booked(u)'
    <3>1. Books(Games(u)', Worth(u)', h)
      BY <1>3, <2>5, <2>10
    <3>2. Sums(Len(users'[u].guns), PricesPaid(u)', r)
      BY <2>7, <2>9
    <3>3. users'[u].coins = StartCoins + h[Games(u)'] - r[Len(users'[u].guns)]
      BY <1>3, <2>7, <2>11
    <3> HIDE DEF old, new, n, v, w, p
    <3> QED
      BY <3>1, <3>2, <3>3 DEF Booked
  <2> QED
    BY <1>3, <2>12 DEF BooksKept
<1>6. \A g \in Game : \A v \in ID : paid'[<<g, v>>] > 0 => v \in DOMAIN result'[g]
  BY <1>2 DEF BooksKept
<1> QED
  BY <1>2, <1>3, <1>4, <1>5, <1>6 DEF BooksKept

\* A reward that is paid is one more game, which has not paid the user before.
LEMMA PaymentBooks ==
  ASSUME AccountsAssumption, Typed, SettleSound, BooksKept, NEW c \in Caller, Payment(c),
         NEW u, u = Head(call[c].todo), NEW g, g = call[c].game
  PROVE  BooksKept'
<1> DEFINE x == <<g, u>>
           won == result[g][u]
<1>1. /\ Known' = Known /\ u \in Known /\ g \in Game
      /\ paid' = [paid EXCEPT ![x] = @ + 1] /\ result' = result
  BY RewardGrows DEF Payment
<1>2. u \in ID /\ users \in [Known -> Doc] /\ paid \in [Game \X ID -> Nat]
  BY <1>1, KnownIDs DEF Typed, UsersTyped, ResultsTyped
<1>3. paid[x] = 0 /\ u \in DOMAIN result[g]
  <2>1. At(c, "write") /\ call[c].op \in {"read", "write"}
    BY DEF Payment, At
  <2>2. call[c].todo \in Seq(ID) /\ call[c].todo # <<>>
    BY <2>1, WorkFacts DEF Typed, CallSound
  <2>3. 1 \in DOMAIN call[c].todo /\ u = call[c].todo[1]
    BY <2>2
  <2>4. paid[<<g, call[c].todo[1]>>] = 0
    BY <2>1, <2>3 DEF SettleSound, WorkSound
  <2>5. call[c].todo[1] \in DOMAIN result[g]
    BY <2>1, <2>3 DEF Typed, CallSound
  <2> QED
    BY <2>3, <2>4, <2>5
<1>4. won \in Won /\ won.coin \in Nat
  BY <1>1, <1>3 DEF Typed, ResultsTyped, Won
<1>5. /\ users' = [users EXCEPT ![u].exp = @ + won.exp, ![u].coins = @ + won.coin,
                                ![u].level = NewLevel(c, won.exp)]
  BY DEF Payment, AddExpLevelCoin
<1> HIDE DEF won
<1>6. users'[u].coins = users[u].coins + won.coin /\ users'[u].guns = users[u].guns
  BY <1>1, <1>2, <1>5 DEF Doc
<1>7. x \in Game \X ID
  BY <1>1, <1>2
<1>8. paid'[x] = 1 /\ \A y \in (Game \X ID) \ {x} : paid'[y] = paid[y]
  <2> HIDE DEF x
  <2> QED
    BY <1>1, <1>2, <1>3, <1>7
<1>9. /\ \A v \in ID \ {u} : \A f \in Game : paid'[<<f, v>>] = paid[<<f, v>>]
      /\ \A f \in Game \ {g} : paid'[<<f, u>>] = paid[<<f, u>>]
  <2>1. \A v \in ID \ {u} : \A f \in Game : <<f, v>> \in (Game \X ID) \ {x}
    OBVIOUS
  <2>2. \A f \in Game \ {g} : <<f, u>> \in (Game \X ID) \ {x}
    BY <1>2
  <2> QED
    BY <1>8, <2>1, <2>2
<1>10. ASSUME NEW v \in Known, v # u
       PROVE  IsFiniteSet(Games(v))' /\ Booked(v)'
  <2>1. users'[v] = users[v]
    BY <1>2, <1>5, <1>10
  <2>2. v \in ID \ {u}
    BY <1>10, KnownIDs
  <2>3. \A f \in Game : paid'[<<f, v>>] = paid[<<f, v>>]
    BY <1>9, <2>2
  <2>4. Games(v)' = Games(v) /\ \A f \in Games(v) : f \in Game
    BY <2>3 DEF Games
  <2> QED
    BY <1>1, <2>1, <2>3, <2>4, BookedStays
<1>11. IsFiniteSet(Games(u))' /\ Booked(u)'
  <2> DEFINE S == Games(u)
             w == Worth(u)
             y == Worth(u)'
             n == Len(users[u].guns)
             U == S \cup {g}
  <2>1. g \notin S /\ S \subseteq Game
    BY <1>3 DEF Games
  <2>2. Games(u)' = S \cup {g}
    <3>1. \A f \in Game : paid'[<<f, u>>] > 0 <=> f = g \/ paid[<<f, u>>] > 0
      BY <1>8, <1>9
    <3> QED
      BY <1>1, <3>1 DEF Games
  <2>3. y = [f \in S \cup {g} |-> paid'[<<f, u>>] * result[f][u].coin]
    BY <1>1, <2>2 DEF Worth
  <2>4. ASSUME NEW f \in S
        PROVE  y[f] = w[f] /\ y[f] \in Int
    <3>1. f # g /\ f \in Game
      BY <2>1
    <3>2. w[f] = result[f][u].coin /\ w[f] \in Nat /\ paid[<<f, u>>] = 1
      BY <1>2, GameFacts
    <3>3. y[f] = paid'[<<f, u>>] * result[f][u].coin
      BY <2>3
    <3>4. paid'[<<f, u>>] = 1
      BY <1>9, <3>1, <3>2
    <3> HIDE DEF w, y
    <3> QED
      BY <3>2, <3>3, <3>4
  <2>5. y[g] = won.coin /\ y[g] \in Int
    <3>1. y[g] = paid'[x] * result[g][u].coin
      BY <2>3
    <3> HIDE DEF y
    <3> QED
      BY <1>4, <1>8, <3>1 DEF won
  <2>6. PICK h, t : /\ Books(S, w, h)
                    /\ Sums(n, PricesPaid(u), t)
                    /\ users[u].coins = StartCoins + h[S] - t[n]
    BY <1>1 DEF BooksKept, Booked
  <2>7. n \in Nat
    BY <1>1, <1>2 DEF Doc
  <2> HIDE DEF S, w, y, n
  <2> DEFINE sum == h[S] + y[g]
  <2> HIDE DEF U, sum
  <2>8. PICK b : Books(U, y, b) /\ b[U] = sum
    <3>1. \A f \in S : y[f] = w[f]
      BY <2>4
    <3>2. \A f \in S \cup {g} : y[f] \in Int
      BY <2>4, <2>5
    <3>3. U = S \cup {g} /\ sum = h[S] + y[g]
      BY DEF U, sum
    <3>4. GoesOn(S, w, h, g, y, U, sum)
      BY <2>1, <3>1, <3>2, <3>3 DEF GoesOn
    <3> QED
      BY <2>6, <3>4, BooksGrow
  <2> USE DEF U, sum
  <2>9. users'[u].coins = StartCoins + b[S \cup {g}] - t[n]
    <3> DEFINE a == users[u].coins
               z == users'[u].coins
               e == h[S]
               d == b[S \cup {g}]
               s == t[n]
               p == won.coin
    <3>1. a \in Int /\ StartCoins \in Int /\ p \in Int /\ e \in Int /\ s \in Int
      <4>1. n \in 0..n
        BY <2>7
      <4>2. e \in Int
        BY <2>6 DEF Books
      <4>3. s \in Int
        BY <2>6, <4>1 DEF Sums
      <4>4. a \in Int
        BY <1>1, <1>2 DEF Doc
      <4> QED
        BY <1>4, <4>2, <4>3, <4>4 DEF AccountsAssumption
    <3>2. a = StartCoins + e - s /\ z = a + p /\ d = e + p
      BY <1>6, <2>5, <2>6, <2>8
    <3> HIDE DEF a, z, e, d, s, p
    <3>3. z = StartCoins + d - s
      BY <3>1, <3>2
    <3> QED
      BY <3>3 DEF z, d, s
  <2>10. PricesPaid(u)' = PricesPaid(u) /\ Len(users'[u].guns) = n
    BY <1>6 DEF PricesPaid, n
  <2>11. Booked(u)'
    BY <2>2, <2>6, <2>8, <2>9, <2>10 DEF Booked, y
  <2>12. IsFiniteSet(S)
    BY <1>1 DEF BooksKept, S
  <2>13. IsFiniteSet(S \cup {g})
    BY <2>12, FS_AddElement
  <2> QED
    BY <2>2, <2>11, <2>13
<1>12. \A f \in Game : \A v \in ID : paid'[<<f, v>>] > 0 => v \in DOMAIN result'[f]
  <2> SUFFICES ASSUME NEW f \in Game, NEW v \in ID, paid'[<<f, v>>] > 0
               PROVE  v \in DOMAIN result[f]
    BY <1>1
  <2>1. CASE f = g /\ v = u
    BY <1>3, <2>1
  <2>2. CASE f # g \/ v # u
    <3>1. <<f, v>> \in (Game \X ID) \ {x}
      BY <2>2
    <3>2. paid[<<f, v>>] > 0
      BY <1>8, <3>1
    <3> QED
      BY <3>2 DEF BooksKept
  <2> QED
    BY <2>1, <2>2
<1>13. ID' = ID
  BY DEF ID
<1> QED
  BY <1>1, <1>10, <1>11, <1>12, <1>13 DEF BooksKept

LEMMA StutterBooks ==
  ASSUME BooksKept, UNCHANGED vars
  PROVE  BooksKept'
BY DEF vars, BooksKept, Booked, Games, Worth, PricesPaid, Known, ID

\* The coins of a user are what it started with and its rewards, less the price of its
\* guns, whatever settlements and purchases come in between each other or fail half-way
\* (AddPlayerExpLevelCoin, BuyGunToPlayerWare).
THEOREM AlwaysCoinsAccounted == Spec => []CoinsAccounted
<1>1. Init => BooksKept
  BY DEF Init, BooksKept, Known, ID
<1>2. Typed /\ Typed' /\ SettleSound /\ BooksKept /\ [Next]_vars => BooksKept'
  <2>1. ASSUME Typed, Typed', SettleSound, BooksKept, Next
        PROVE  BooksKept'
    <3>1. CASE SameMoney
      BY <2>1, <3>1, QuietBooks, AccountsAssumption
    <3>2. CASE \E u \in Known : \E gun \in Bought : Sale(u, gun)
      BY <2>1, <3>2, SaleBooks, AccountsAssumption
    <3>3. CASE \E c \in Caller : Payment(c)
      BY <2>1, <3>3, PaymentBooks, AccountsAssumption
    <3> QED
      BY <2>1, <3>1, <3>2, <3>3, MoneyMoves, AccountsAssumption
  <2> QED
    BY <2>1, StutterBooks
<1>3. Typed /\ BooksKept => CoinsAccounted
  BY BookedAccounted, AccountsAssumption DEF BooksKept, CoinsAccounted
<1> QED
  BY <1>1, <1>2, <1>3, AlwaysTyped, AlwaysSettling, PTL DEF Spec
=============================================================================
