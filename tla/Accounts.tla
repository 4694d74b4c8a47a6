------------------------------ MODULE Accounts ------------------------------
(***************************************************************************)
(* apps/auth: registration and login of AuthenticationService, the tokens  *)
(* of TokenProvider, and the two message patterns through which the other  *)
(* process has a token verified (JwtVerifyGuard, WsAuthenticateGuard).     *)
(*                                                                         *)
(* A password stands for itself and for its hashes: hashes are salted, so  *)
(* two hashes of one password differ, but compare recognises the password. *)
(***************************************************************************)
EXTENDS Repository, Sequences

CONSTANTS
  Username, Password,
  Request,          \* the handlers that can be in flight at one time
  MaxAccounts,      \* bound: account ids the database hands out
  MaxTokens         \* bound: tokens signed

ASSUME AccountsAssumption == MaxAccounts \in Nat /\ MaxTokens \in Nat

VARIABLES
  accounts,         \* the table account
  nextAccount,      \* its serial
  tokens,           \* the tokens signed so far, in that order
  expired,          \* those whose time is over
  reqs,             \* where each handler is suspended, and what it knows
  answer            \* the sign-up or sign-in just turned down, or the user just
                    \* reported to the other process, if any

accountVars == <<accounts, nextAccount, tokens, expired, reqs, answer>>

Credentials == [username : Username, password : Password]

\* The payload of a token; presented is history: what its bearer had sent.
Token == [id : Nat \ {0}, username : Username, presented : Credentials]

\* account is what a login has found, or a registration has inserted.
CredentialHandler ==
  [op : {"register", "login"}, pc : {"check", "insert", "compare", "sign"},
   presented : Credentials, account : Nat]

\* fresh is history: the tokens not expired when the handler arrived.
VerifyHandler ==
  [op : {"verify"}, pc : {"verify", "find"}, token : Nat, fresh : SUBSET Nat]

Admission ==
  [op : {"admit"}, user : Nat, token : Nat, fresh : SUBSET Nat]

Idle == [op |-> "idle", pc |-> "idle"]

AccountsTypeOK ==
  /\ nextAccount \in 1 .. (MaxAccounts + 1)
  /\ accounts \in [DOMAIN accounts -> Credentials]
  /\ DOMAIN accounts \subseteq 1 .. (nextAccount - 1)
  /\ tokens \in Seq(Token)
  /\ expired \subseteq DOMAIN tokens
  /\ reqs \in [Request -> CredentialHandler \cup VerifyHandler \cup {Idle}]
  /\ answer \in SUBSET (CredentialHandler \cup Admission)

Named(username) == {a \in DOMAIN accounts : accounts[a].username = username}
-----------------------------------------------------------------------------
AccountsInit ==
  /\ accounts = NoRows
  /\ nextAccount = 1
  /\ tokens = <<>>
  /\ expired = {}
  /\ reqs = [r \in Request |-> Idle]
  /\ answer = {}

KeepAccounts == UNCHANGED <<accounts, nextAccount>>

KeepTokens == UNCHANGED <<tokens, expired>>

Finish(r) == reqs' = [reqs EXCEPT ![r] = Idle]

At(r, op, label) == reqs[r].op = op /\ reqs[r].pc = label

\* The handler goes on with this account, or throws: the client is turned down,
\* with whichever exception.
Proceed(r, label, account) ==
  /\ reqs' = [reqs EXCEPT ![r].pc = label, ![r].account = account]
  /\ answer' = {}

TurnDown(r) == answer' = {reqs[r]} /\ Finish(r)

(***************************************************************************)
(* POST authentication/signup and authentication/sign-in.                  *)
(***************************************************************************)
\* The password is hashed before anything is looked up.
StartCredentials(r) ==
  /\ reqs[r] = Idle
  /\ \E op \in {"register", "login"}, presented \in Credentials :
       reqs' = [reqs EXCEPT ![r] =
         [op |-> op, pc |-> "check", presented |-> presented, account |-> Null]]
  /\ KeepAccounts /\ KeepTokens /\ answer' = {}

\* register: the name must be free.
CheckUsername(r) ==
  /\ At(r, "register", "check")
  /\ IF Named(reqs[r].presented.username) = {}
     THEN Proceed(r, "insert", Null) ELSE TurnDown(r)
  /\ KeepAccounts /\ KeepTokens

\* Slip: the serial is not advanced.
InsertWithSameId(r) ==
  /\ At(r, "register", "insert")
  /\ nextAccount <= MaxAccounts
  /\ IF Named(reqs[r].presented.username) = {}
     THEN /\ accounts' = Insert(accounts, nextAccount, reqs[r].presented)
          /\ Proceed(r, "sign", nextAccount)
     ELSE UNCHANGED accounts /\ TurnDown(r)
  /\ KeepTokens /\ UNCHANGED nextAccount

\* Slip: the column is not unique.
InsertUnchecked(r) ==
  /\ At(r, "register", "insert")
  /\ nextAccount <= MaxAccounts
  /\ nextAccount' = nextAccount + 1
  /\ accounts' = Insert(accounts, nextAccount, reqs[r].presented)
  /\ Proceed(r, "sign", nextAccount)
  /\ KeepTokens

\* Slip: when the insert fails, the row that is there is taken.
InsertOrTake(r) ==
  LET taken == Named(reqs[r].presented.username) IN
  /\ At(r, "register", "insert")
  /\ nextAccount <= MaxAccounts
  /\ nextAccount' = nextAccount + 1
  /\ IF taken = {}
     THEN /\ accounts' = Insert(accounts, nextAccount, reqs[r].presented)
          /\ Proceed(r, "sign", nextAccount)
     ELSE UNCHANGED accounts /\ Proceed(r, "sign", FindOne(taken))
  /\ KeepTokens

\* create: the constraint on username decides between two that found it free.
\* The loser's INSERT has drawn an id from the serial all the same.
\* create answers it with an InternalServerErrorException, not with the
\* ConflictException of the check.
InsertAccount(r) ==
  /\ At(r, "register", "insert")
  /\ nextAccount <= MaxAccounts
  /\ nextAccount' = nextAccount + 1
  /\ IF Named(reqs[r].presented.username) = {}
     THEN /\ accounts' = Insert(accounts, nextAccount, reqs[r].presented)
          /\ Proceed(r, "sign", nextAccount)
     ELSE UNCHANGED accounts /\ TurnDown(r)
  /\ KeepTokens

\* login: findWithSensitiveData, the one query that selects the password.
FindWithSensitiveData(r) ==
  LET found == FindOne(Named(reqs[r].presented.username)) IN
  /\ At(r, "login", "check")
  /\ IF found = Null THEN TurnDown(r) ELSE Proceed(r, "compare", found)
  /\ KeepAccounts /\ KeepTokens

\* Slip: the hash of the password sent is compared with the hash stored.
CompareHashes(r) ==
  /\ At(r, "login", "compare")
  /\ TurnDown(r)
  /\ KeepAccounts /\ KeepTokens

Compare(r) ==
  LET found == reqs[r].account IN
  /\ At(r, "login", "compare")
  /\ IF accounts[found].password = reqs[r].presented.password
     THEN Proceed(r, "sign", found) ELSE TurnDown(r)
  /\ KeepAccounts /\ KeepTokens

\* generateToken of the account that was inserted or found, and the response.
GenerateToken(r) ==
  LET account == reqs[r].account IN
  /\ reqs[r].pc = "sign"
  /\ Len(tokens) < MaxTokens
  /\ tokens' = Append(tokens,
       [id |-> account, username |-> accounts[account].username,
        presented |-> reqs[r].presented])
  /\ Finish(r)
  /\ answer' = {}
  /\ KeepAccounts /\ UNCHANGED expired
-----------------------------------------------------------------------------
(***************************************************************************)
(* The patterns authenticate and ws-authenticate: AuthGuard (HTTP) and     *)
(* WsAuthenticateUserService send the token a client came with.  Without a *)
(* token, or with one that was not signed here, nothing is looked up.      *)
(***************************************************************************)
StartVerify(r) ==
  /\ reqs[r] = Idle
  /\ \E t \in DOMAIN tokens :
       reqs' = [reqs EXCEPT ![r] =
         [op |-> "verify", pc |-> "verify", token |-> t,
          fresh |-> DOMAIN tokens \ expired]]
  /\ KeepAccounts /\ KeepTokens /\ answer' = {}

\* verifyToken answers nothing for a token it does not accept, which both
\* guards turn into an exception.
VerifyToken(r) ==
  /\ At(r, "verify", "verify")
  /\ IF reqs[r].token \in expired THEN Finish(r)
     ELSE reqs' = [reqs EXCEPT ![r].pc = "find"]
  /\ KeepAccounts /\ KeepTokens /\ answer' = {}

\* Both guards look the account of the payload up; it becomes request.user
\* here, and request.user or client.data.user in the process that asked.
FindUser(r) ==
  LET q == reqs[r]
      found == FindOne({tokens[q.token].id} \cap DOMAIN accounts) IN
  /\ At(r, "verify", "find")
  /\ answer' = IF found = Null THEN {}
               ELSE {[op |-> "admit", user |-> found, token |-> q.token,
                      fresh |-> q.fresh]}
  /\ Finish(r)
  /\ KeepAccounts /\ KeepTokens

Expire(t) ==
  /\ expired' = expired \cup {t}
  /\ answer' = {}
  /\ KeepAccounts /\ UNCHANGED <<tokens, reqs>>

\* A statement or the call between the processes fails, or the process stops:
\* an account that was inserted stays, without the token.
Fail(r) ==
  /\ reqs[r] # Idle
  /\ Finish(r)
  /\ KeepAccounts /\ KeepTokens /\ answer' = {}
-----------------------------------------------------------------------------
Register(r) == CheckUsername(r) \/ InsertAccount(r)

Login(r) == FindWithSensitiveData(r) \/ Compare(r)

Verify(r) == StartVerify(r) \/ VerifyToken(r) \/ FindUser(r)

AccountsNext ==
  \/ \E r \in Request :
       \/ StartCredentials(r) \/ Register(r) \/ Login(r) \/ GenerateToken(r)
       \/ Verify(r) \/ Fail(r)
  \/ \E t \in DOMAIN tokens \ expired : Expire(t)

AccountsSpec == AccountsInit /\ [][AccountsNext]_accountVars
-----------------------------------------------------------------------------
(***************************************************************************)
(* Registrations that found a name free at the same time do not both get   *)
(* it.                                                                     *)
(***************************************************************************)
OneAccountPerUsername ==
  \A a, b \in DOMAIN accounts :
    accounts[a].username = accounts[b].username => a = b

(***************************************************************************)
(* Whom a guard of the other process takes for a user is the account whose *)
(* username and password the bearer of the token had presented, also when  *)
(* two sign-ups raced for the name; and the token had not expired when the *)
(* request came in.                                                        *)
(***************************************************************************)
AdmittedUsersAreGenuine ==
  \A e \in answer : e.op = "admit" =>
    /\ e.user \in DOMAIN accounts
    /\ accounts[e.user] = tokens[e.token].presented
    /\ e.token \in e.fresh

(***************************************************************************)
(* Nobody is turned down without a reason: a sign-up only when the name is *)
(* taken, a sign-in only when no account has these credentials, not even   *)
(* one whose sign-up was never answered or raced for the name.             *)
(***************************************************************************)
RefusalsHaveAReason ==
  \A q \in answer :
    /\ q.op = "register" => Named(q.presented.username) # {}
    /\ q.op = "login" => \A a \in DOMAIN accounts : accounts[a] # q.presented
=============================================================================
