------------------------------- MODULE Accounts -------------------------------
(***************************************************************************)
(* The users of the logic server: registration, the reward of a finished    *)
(* game, the purchase of a gun, edits of the profile, and what the gateway   *)
(* tells the client (logicserver/repo/user.go, with mall.go, auth.go,        *)
(* player_info.go, httpgateway/gateway.go, service.go and the request that    *)
(* RoomManager.finishRoom makes).                                           *)
(*                                                                         *)
(* Every request is a goroutine of its own, here a caller.  MongoDB          *)
(* runs one command on one document atomically and nothing more, so a       *)
(* request is as many steps as it has commands, and others come in between; *)
(* any command may fail, and a failed update may have been applied.         *)
(*                                                                         *)
(* Nickname, photo and equipped gun are one field, "profile": nothing reads *)
(* them here.  Passwords are left out, and so is the check of the token that *)
(* says who asks; a request it refuses changes nothing.  Queries (player     *)
(* info, warehouse, equipped gun, mall) read one document and are left out.  *)
(***************************************************************************)
EXTENDS Integers, FiniteSets, SequencesExt

CONSTANTS Caller,      \* goroutines serving requests
          Settlers,    \* those of them that may serve a settlement
          Email,
          Game,        \* games that end, each in a room of its own
          Gun,         \* gun ids of the mall
          Prices,      \* the prices a gun may have in the mall
          MaxUsers,    \* bound: ids handed out
          Level,       \* consts.Level
          StartCoins   \* coins of a new user

ASSUME AccountsAssumption ==
  /\ Settlers \subseteq Caller
  /\ Prices \subseteq Nat
  /\ MaxUsers \in Nat
  /\ Level \in Seq(Nat)
  /\ StartCoins \in Nat

VARIABLES
  seq,      \* the counter of user ids
  users,    \* documents of the users collection, by user id
  result,   \* of a finished game, the request to settle it
  status,   \* of that request: "none", "sent", "lost", "answered"
  errors,   \* of its answer: the players whose settlement failed
  paid,     \* history: how often a game's reward was added for a user
  call      \* what each caller is doing

vars == <<seq, users, result, status, errors, paid, call>>

ID == 1..MaxUsers
Known == DOMAIN users
Idle == [op |-> "idle"]

\* judgePlayerLevel: one more than the index of the first entry that is not
\* below exp, found by bisection; entries are ascending.
JudgePlayerLevel(exp) == Cardinality({i \in DOMAIN Level : Level[i] < exp}) + 1

TypeOK ==
  /\ seq \in 0..MaxUsers
  /\ Known \subseteq 1..seq
  /\ \A u \in Known :
       /\ users[u].email \in Email
       /\ users[u].level \in 1..(Len(Level) + 1)
       /\ users[u].exp \in Nat
       /\ users[u].coins \in Nat
       /\ users[u].guns \in Seq([id : Gun, price : Prices])
       /\ users[u].profile \in {"new", "edited"}
  /\ status \in [Game -> {"none", "sent", "lost", "answered"}]
  /\ errors \in [Game -> SUBSET ID]
  /\ paid \in [Game \X ID -> Nat]

Init ==
  /\ seq = 0
  /\ users = [u \in {} |-> Idle]
  /\ result = [g \in Game |-> <<>>]
  /\ status = [g \in Game |-> "none"]
  /\ errors = [g \in Game |-> {}]
  /\ paid = [x \in Game \X ID |-> 0]
  /\ call = [c \in Caller |-> Idle]

Do(c, next) == call' = [call EXCEPT ![c] = next]
At(c, op) == call[c].op = op

\* The handler has an answer, about user u and an email or a gun x, and writes it.
\* (An answer that only says that something failed is not kept.)
Tell(c, answer, u, x) ==
  Do(c, [op |-> "told", answer |-> answer, user |-> u, about |-> x])
Failed(c) == Do(c, Idle)
Answered(c) ==
  /\ At(c, "told")
  /\ Do(c, Idle)
  /\ UNCHANGED <<seq, users, result, status, errors, paid>>

-----------------------------------------------------------------------------
(* Registration.                                                           *)

\* CreateUser, nextUserID.
NextUserID(c, e) ==
  /\ At(c, "idle")
  /\ seq < MaxUsers
  /\ seq' = seq + 1
  /\ Do(c, [op |-> "insert", id |-> seq', email |-> e])
  /\ UNCHANGED <<users, result, status, errors, paid>>

NewUser(e) ==
  [email |-> e, level |-> 1, exp |-> 0, coins |-> StartCoins,
   guns |-> <<>>, profile |-> "new"]

\* The unique index uniq_email.
EmailTaken(e) == \E u \in Known : users[u].email = e

\* CreateUser, InsertOne.
Insert(c) ==
  /\ ~EmailTaken(call[c].email)
  /\ users' = [u \in Known \cup {call[c].id} |->
       IF u \in Known THEN users[u] ELSE NewUser(call[c].email)]

\* The user is in; the answer is a failure when its login tokens, which are
\* issued next, cannot be saved.
InsertUser(c) ==
  /\ At(c, "insert")
  /\ Insert(c)
  /\ Tell(c, "registered", call[c].id, call[c].email) \/ Failed(c)
  /\ UNCHANGED <<seq, result, status, errors, paid>>

IsDuplicateAlways(c) == TRUE
\* isDuplicateKeyError of what InsertOne returns.
IsDuplicate(c) == EmailTaken(call[c].email)

\* The id is lost.
InsertDuplicate(c) ==
  /\ At(c, "insert")
  /\ IsDuplicate(c)
  /\ Tell(c, "already exists", 0, call[c].email)
  /\ UNCHANGED <<seq, users, result, status, errors, paid>>

\* The insert fails: the id is lost, unless it was applied all the same.
InsertFails(c) ==
  /\ At(c, "insert")
  /\ Insert(c) \/ UNCHANGED users
  /\ Failed(c)
  /\ UNCHANGED <<seq, result, status, errors, paid>>

-----------------------------------------------------------------------------
(* Settlement.                                                             *)

\* What finishRoom gives the player with the given kills: in a game of two by
\* who killed more, otherwise to everyone the same.
Reward(kills, p) ==
  LET rivals == DOMAIN kills \ {p}
      most == \A q \in rivals : kills[q] < kills[p]
      tie == \A q \in rivals : kills[q] = kills[p]
  IN CASE Cardinality(rivals) # 1 -> [coin |-> 300, exp |-> 200]
       [] Cardinality(rivals) = 1 /\ most -> [coin |-> 1000, exp |-> 500]
       [] Cardinality(rivals) = 1 /\ tie -> [coin |-> 800, exp |-> 400]
       [] OTHER -> [coin |-> 300, exp |-> 200]

\* finishRoom, for the players that are still in the room, and SettleUpRoom.
FinishRoom(c, g, kills) ==
  /\ c \in Settlers /\ At(c, "idle")
  /\ status[g] = "none"
  /\ result' = [result EXCEPT ![g] = [p \in DOMAIN kills |-> Reward(kills, p)]]
  /\ status' = [status EXCEPT ![g] = "sent"]
  /\ \E order \in SetToSeqs(DOMAIN kills) :
       Do(c, [op |-> "read", game |-> g, todo |-> order, failed |-> {}])
  /\ UNCHANGED <<seq, users, errors, paid>>

\* The request does not reach the logic server, which is not tried again.
RequestLost(g) ==
  /\ status[g] = "none"
  /\ status' = [status EXCEPT ![g] = "lost"]
  /\ UNCHANGED <<seq, users, result, errors, paid, call>>

\* AddPlayerExpLevelCoin, FindByUserID.
SettleRead(c) ==
  /\ At(c, "read")
  /\ call[c].todo # <<>>
  /\ Do(c, [op |-> "write", game |-> call[c].game, todo |-> call[c].todo,
            failed |-> call[c].failed, exp |-> users[Head(call[c].todo)].exp])
  /\ UNCHANGED <<seq, users, result, status, errors, paid>>

Skip(c) == [op |-> "read", game |-> call[c].game,
            todo |-> Tail(call[c].todo), failed |-> call[c].failed]
StopAtFailure(c) == [Skip(c) EXCEPT !.todo = <<>>,
                                    !.failed = @ \cup {Head(call[c].todo)}]
\* SettleUpRoom goes on with the other players and remembers the error.
AfterFailure(c) == [Skip(c) EXCEPT !.failed = @ \cup {Head(call[c].todo)}]

SettleReadFails(c) ==
  /\ At(c, "read")
  /\ call[c].todo # <<>>
  /\ Do(c, AfterFailure(c))
  /\ UNCHANGED <<seq, users, result, status, errors, paid>>

StaleLevel(c, exp) == JudgePlayerLevel(call[c].exp)
\* The level that goes with the experience read before.
NewLevel(c, exp) == JudgePlayerLevel(call[c].exp + exp)

\* AddPlayerExpLevelCoin, UpdateOne: $inc and $set on the user's document.
AddExpLevelCoin(c) ==
  LET u == Head(call[c].todo)
      g == call[c].game
      won == result[g][u]
  IN /\ users' = [users EXCEPT ![u].exp = @ + won.exp,
                               ![u].coins = @ + won.coin,
                               ![u].level = NewLevel(c, won.exp)]
     /\ paid' = [paid EXCEPT ![<<g, u>>] = @ + 1]

SettleWrite(c) ==
  /\ At(c, "write")
  /\ AddExpLevelCoin(c)
  /\ Do(c, Skip(c))
  /\ UNCHANGED <<seq, result, status, errors>>

\* The update fails, and may have been applied all the same.
SettleWriteFails(c) ==
  /\ At(c, "write")
  /\ AddExpLevelCoin(c) \/ UNCHANGED <<users, paid>>
  /\ Do(c, AfterFailure(c))
  /\ UNCHANGED <<seq, result, status, errors>>

\* The answer; the room server only logs a failure, of the request or the call.
SettleDone(c) ==
  /\ At(c, "read")
  /\ call[c].todo = <<>>
  /\ status' = [status EXCEPT ![call[c].game] = "answered"]
  /\ errors' = [errors EXCEPT ![call[c].game] = call[c].failed]
  /\ Do(c, Idle)
  /\ UNCHANGED <<seq, users, result, paid>>

-----------------------------------------------------------------------------
(* The mall.                                                               *)

\* BuyGun, GetGunById: the price of the gun, as the mall has it just now.
LookUpGun(c, u, gun, price) ==
  /\ At(c, "idle")
  /\ Do(c, [op |-> "buy", user |-> u, gun |-> [id |-> gun, price |-> price]])
  /\ UNCHANGED <<seq, users, result, status, errors, paid>>

CanBuyTwice(u, gun) == users[u].coins >= gun.price
\* The filter of BuyGunToPlayerWare.
CanBuy(u, gun) ==
  /\ users[u].coins >= gun.price
  /\ \A i \in DOMAIN users[u].guns : users[u].guns[i].id # gun.id

GiveGun(user, gun) == [user EXCEPT !.guns = Append(@, gun)]
\* Its update, on the same document in the same command.
SellGun(user, gun) ==
  [user EXCEPT !.coins = @ - gun.price, !.guns = Append(@, gun)]

BuyGun(c) ==
  LET u == call[c].user IN
  /\ At(c, "buy")
  /\ CanBuy(u, call[c].gun)
  /\ users' = [users EXCEPT ![u] = SellGun(@, call[c].gun)]
  /\ Tell(c, "ok", u, call[c].gun.id)
  /\ UNCHANGED <<seq, result, status, errors, paid>>

\* The filter misses (had: history, the coins that it saw).
BuyMisses(c) ==
  /\ At(c, "buy")
  /\ ~CanBuy(call[c].user, call[c].gun)
  /\ Do(c, [op |-> "why", user |-> call[c].user, gun |-> call[c].gun,
            had |-> users[call[c].user].coins])
  /\ UNCHANGED <<seq, users, result, status, errors, paid>>

\* The update fails, and may have been applied all the same.
BuyFails(c) ==
  /\ At(c, "buy")
  /\ \/ UNCHANGED users
     \/ /\ CanBuy(call[c].user, call[c].gun)
        /\ users' = [users EXCEPT ![call[c].user] = SellGun(@, call[c].gun)]
  /\ Failed(c)
  /\ UNCHANGED <<seq, result, status, errors, paid>>

ReasonSwapped(u, gun) ==
  IF users[u].coins >= gun.price THEN "not enough coins" ELSE "gun already owned"
\* What the coins of the second query say of the miss.
Reason(u, gun) ==
  IF users[u].coins < gun.price THEN "not enough coins" ELSE "gun already owned"

\* The second query, and classifyBuyGunError.
Explain(c) ==
  LET u == call[c].user IN
  /\ At(c, "why")
  /\ Tell(c, Reason(u, call[c].gun), u, call[c].gun.id) \/ Failed(c)
  /\ UNCHANGED <<seq, users, result, status, errors, paid>>

-----------------------------------------------------------------------------
(* The profile.                                                            *)

SetProfile(u) == users' = [users EXCEPT ![u].profile = "edited"]

\* ModifyPlayerNickname and ModifyPlayerProfilePhoto: FindByUserID, whose
\* document they do not use.
FindToModify(c, u) ==
  /\ At(c, "idle")
  /\ Do(c, [op |-> "modify", user |-> u])
  /\ UNCHANGED <<seq, users, result, status, errors, paid>>

\* ModifyNickname and ModifyProfilePhoto, which may fail.
ModifyProfile(c) ==
  /\ At(c, "modify")
  /\ SetProfile(call[c].user) \/ UNCHANGED users
  /\ Do(c, Idle)
  /\ UNCHANGED <<seq, result, status, errors, paid>>

\* SetPlayerEquipGun, of any gun id.
EquipGun(c, u) ==
  /\ At(c, "idle")
  /\ SetProfile(u)
  /\ UNCHANGED <<seq, result, status, errors, paid, call>>

-----------------------------------------------------------------------------
\* The players of a game are users; each has some kills.
Results == UNION {[P -> 0..1] : P \in (SUBSET Known) \ {{}}}

CallerStep(c) ==
  \/ \E e \in Email : NextUserID(c, e)
  \/ InsertUser(c) \/ InsertDuplicate(c) \/ InsertFails(c) \/ Answered(c)
  \/ \E g \in Game : \E kills \in Results : FinishRoom(c, g, kills)
  \/ SettleRead(c) \/ SettleReadFails(c)
  \/ SettleWrite(c) \/ SettleWriteFails(c) \/ SettleDone(c)
  \/ \E u \in Known : \E gun \in Gun : \E price \in Prices :
       LookUpGun(c, u, gun, price)
  \/ BuyGun(c) \/ BuyMisses(c) \/ BuyFails(c) \/ Explain(c)
  \/ \E u \in Known : FindToModify(c, u) \/ EquipGun(c, u)
  \/ ModifyProfile(c)

Next == (\E c \in Caller : CallerStep(c)) \/ (\E g \in Game : RequestLost(g))

Spec == Init /\ [][Next]_vars

-----------------------------------------------------------------------------
(* Properties.                                                             *)

Earned(u) ==
  LET games == SetToSeq({g \in Game : paid[g, u] > 0})
  IN FoldLeft(LAMBDA sum, g : sum + paid[g, u] * result[g][u].coin, 0, games)
Spent(u) == FoldLeft(LAMBDA sum, gun : sum + gun.price, 0, users[u].guns)

\* No coin is lost or made when settlements and purchases of a user interleave
\* and fail half-way: what it has is what it started with, its rewards, less the
\* price of the guns it owns (AddPlayerExpLevelCoin, BuyGunToPlayerWare).
CoinsAccounted ==
  \A u \in Known : users[u].coins = StartCoins + Earned(u) - Spent(u)

\* The comment on BuyGunToPlayerWare: two purchases at the same time do not give
\* the same gun twice, whatever its price became in between.
GunOnce ==
  \A u \in Known : \A i, j \in DOMAIN users[u].guns :
    users[u].guns[i].id = users[u].guns[j].id => i = j

\* A game is settled at most once for each player, and the answer leaves nobody
\* out: who is not among its errors got the reward, whichever commands fail on
\* the way (SettleUpRoom goes on after the failure of one player).
SettledOnce ==
  \A g \in Game : \A u \in ID :
    /\ paid[g, u] <= 1
    /\ status[g] = "answered" /\ u \in DOMAIN result[g] \ errors[g] =>
         paid[g, u] = 1

Owns(u, id) == \E i \in DOMAIN users[u].guns : users[u].guns[i].id = id

\* AddPlayerExpLevelCoin reads the experience in one command and writes the
\* level in another.  A settlement that no other one of the user has overtaken in
\* between leaves the level of the new experience, and one that has been
\* overtaken a level that is too low, never too high.
LevelFollowsExp ==
  [][\A c \in Caller : At(c, "write") /\ call'[c] # call[c] =>
       LET u == Head(call[c].todo)
           level == JudgePlayerLevel(users'[u].exp)
       IN users'[u].exp # users[u].exp =>
            /\ users'[u].level <= level
            /\ users[u].exp = call[c].exp => users'[u].level = level]_vars
\* What a client is told is so when it is told, and stays so, whatever else
\* happens meanwhile and whichever commands failed: a user that is registered is
\* found under its email and id, an email refused as taken has a user, a gun that
\* was bought is the buyer's.
AnswersTrue ==
  \A c \in Caller : At(c, "told") =>
    LET u == call[c].user
        x == call[c].about
    IN CASE call[c].answer = "registered" -> u \in Known /\ users[u].email = x
         [] call[c].answer = "already exists" -> EmailTaken(x)
         [] call[c].answer = "ok" -> Owns(u, x)
         [] OTHER -> TRUE

\* The comment on the second query of BuyGunToPlayerWare: with coins enough, the
\* gun must be owned already.  So it is, unless coins came in between the two
\* commands: the reason is wrong only when a settlement came in between.
OwnedUnlessPaid ==
  [][\A c \in Caller :
       At(c, "why") /\ call'[c].op = "told" /\ call'[c].answer = "gun already owned" =>
         \/ Owns(call[c].user, call[c].gun.id)
         \/ users[call[c].user].coins > call[c].had]_vars
=============================================================================
