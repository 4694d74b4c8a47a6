-------------------------- MODULE AdmissionProofs ---------------------------
(***************************************************************************)
(* Who is taken for which user, and to whom that user may write: proofs    *)
(* about Accounts and about Friendship, which share no state.              *)
(***************************************************************************)
EXTENDS Accounts, Friendship, RepositoryProofs, SequenceTheorems, TLAPS

-----------------------------------------------------------------------------
(***************************************************************************)
(* Accounts.  Names have one account, tokens are their owners', and        *)
(* refusals are right, for any number of handlers, names and passwords.    *)
(***************************************************************************)
\* A token was signed for the account whose credentials its bearer presented.
TokensFit ==
  \A t \in DOMAIN tokens :
    /\ tokens[t].id \in DOMAIN accounts
    /\ accounts[tokens[t].id] = tokens[t].presented

\* What a handler knows is so: rows never change, and a token that has not
\* expired now had not when the handler arrived.
HandlerFits(r) ==
  LET q == reqs[r] IN
  /\ q.pc \in {"compare", "sign"} => q.account \in DOMAIN accounts
  /\ q.pc = "compare" => accounts[q.account].username = q.presented.username
  /\ q.pc = "sign" => accounts[q.account] = q.presented
  /\ q.op = "verify" => q.token \in DOMAIN tokens
  /\ q.op = "verify" => q.token \in q.fresh \/ q.pc = "verify"
  /\ q.op = "verify" => q.token \in q.fresh \/ q.token \in expired

AccountsInv ==
  /\ AccountsTypeOK
  /\ OneAccountPerUsername
  /\ TokensFit
  /\ \A r \in Request : HandlerFits(r)
  /\ AdmittedUsersAreGenuine
  /\ RefusalsHaveAReason

LEMMA InitAccountsInv == AccountsInit => AccountsInv
<1> SUFFICES ASSUME AccountsInit
             PROVE  AccountsInv
  OBVIOUS
<1>1. AccountsTypeOK
  BY AccountsAssumption DEF AccountsInit, AccountsTypeOK, NoRows, Idle
<1>2. OneAccountPerUsername /\ TokensFit
  BY DEF AccountsInit, OneAccountPerUsername, TokensFit, NoRows
<1>3. ASSUME NEW r \in Request PROVE HandlerFits(r)
  BY DEF AccountsInit, HandlerFits, Idle
<1>4. AdmittedUsersAreGenuine /\ RefusalsHaveAReason
  BY DEF AccountsInit, AdmittedUsersAreGenuine, RefusalsHaveAReason
<1> QED
  BY <1>1, <1>2, <1>3, <1>4 DEF AccountsInv

\* The kinds of a handler.
LEMMA HandlerKinds ==
  ASSUME AccountsTypeOK, NEW r \in Request
  PROVE  /\ reqs[r].op \in {"register", "login"} => reqs[r] \in CredentialHandler
         /\ reqs[r].op = "verify" => reqs[r] \in VerifyHandler
         /\ reqs[r].pc = "sign" => reqs[r] \in CredentialHandler
  BY DEF AccountsTypeOK, CredentialHandler, VerifyHandler, Idle

\* No step takes away or changes an account or a token, or makes one valid
\* again.
Grows ==
  /\ \A a \in DOMAIN accounts :
       a \in DOMAIN accounts' /\ accounts'[a] = accounts[a]
  /\ \A t \in DOMAIN tokens : t \in DOMAIN tokens' /\ tokens'[t] = tokens[t]
  /\ expired \subseteq expired'

\* A handler that does not move knows what it knew.
LEMMA HandlersKept ==
  ASSUME AccountsInv, Grows, NEW r \in Request,
         \A q \in Request \ {r} : reqs'[q] = reqs[q],
         HandlerFits(r)'
  PROVE  \A q \in Request : HandlerFits(q)'
<1> SUFFICES ASSUME NEW q \in Request, q # r
             PROVE  HandlerFits(q)'
  OBVIOUS
<1>1. reqs'[q] = reqs[q] /\ HandlerFits(q)
  BY DEF AccountsInv
<1> QED
  BY <1>1 DEF HandlerFits, Grows

\* A handler that ends knows nothing.
LEMMA FinishFits ==
  ASSUME AccountsTypeOK, NEW r \in Request, Finish(r)
  PROVE  /\ HandlerFits(r)'
         /\ reqs' \in [Request -> CredentialHandler \cup VerifyHandler \cup {Idle}]
         /\ \A q \in Request \ {r} : reqs'[q] = reqs[q]
<1>1. reqs'[r] = Idle
  BY DEF Finish, AccountsTypeOK
<1>2. HandlerFits(r)'
  BY <1>1 DEF HandlerFits, Idle
<1> QED
  BY <1>2 DEF Finish, AccountsTypeOK

\* Without an answer there is nothing to be wrong about.
LEMMA NothingAnswered ==
  ASSUME answer' = {}
  PROVE  AdmittedUsersAreGenuine' /\ RefusalsHaveAReason'
  BY DEF AdmittedUsersAreGenuine, RefusalsHaveAReason

\* Steps that only move a handler.
LEMMA TablesKept ==
  ASSUME AccountsInv, KeepAccounts, KeepTokens
  PROVE  /\ Grows
         /\ OneAccountPerUsername'
         /\ TokensFit'
         /\ (reqs' \in [Request -> CredentialHandler \cup VerifyHandler \cup {Idle}]
             /\ answer' \in SUBSET (CredentialHandler \cup Admission)) => AccountsTypeOK'
  BY DEF AccountsInv, AccountsTypeOK, KeepAccounts, KeepTokens, Grows,
     OneAccountPerUsername, TokensFit

LEMMA StartCredentialsStep ==
  ASSUME AccountsInv, NEW r \in Request, StartCredentials(r)
  PROVE  AccountsInv'
<1> USE DEF StartCredentials
<1>1. PICK op \in {"register", "login"}, presented \in Credentials :
        reqs' = [reqs EXCEPT ![r] =
         [op |-> op, pc |-> "check", presented |-> presented, account |-> Null]]
  OBVIOUS
<1> DEFINE q == [op |-> op, pc |-> "check", presented |-> presented,
                 account |-> Null]
<1>2. q \in CredentialHandler
  BY DEF CredentialHandler, Null
<1>3. /\ reqs'[r] = q
      /\ \A x \in Request \ {r} : reqs'[x] = reqs[x]
      /\ reqs' \in [Request -> CredentialHandler \cup VerifyHandler \cup {Idle}]
  BY <1>1, <1>2 DEF AccountsInv, AccountsTypeOK
<1>4. HandlerFits(r)'
  BY <1>3 DEF HandlerFits
<1> QED
  BY <1>3, <1>4, TablesKept, HandlersKept, NothingAnswered DEF AccountsInv

\* A handler that goes on with an account.
LEMMA ProceedFits ==
  ASSUME AccountsTypeOK, NEW r \in Request, NEW account \in Nat,
         reqs[r] \in CredentialHandler,
         NEW label \in {"insert", "compare", "sign"},
         Proceed(r, label, account)
  PROVE  /\ reqs' \in [Request -> CredentialHandler \cup VerifyHandler \cup {Idle}]
         /\ \A q \in Request \ {r} : reqs'[q] = reqs[q]
         /\ reqs'[r].op = reqs[r].op /\ reqs'[r].pc = label
         /\ reqs'[r].presented = reqs[r].presented
         /\ reqs'[r].account = account
         /\ answer' = {}
  BY DEF Proceed, AccountsTypeOK, CredentialHandler

\* A handler that is turned down.
LEMMA TurnDownFits ==
  ASSUME AccountsTypeOK, NEW r \in Request, reqs[r] \in CredentialHandler,
         TurnDown(r)
  PROVE  /\ HandlerFits(r)'
         /\ reqs' \in [Request -> CredentialHandler \cup VerifyHandler \cup {Idle}]
         /\ \A q \in Request \ {r} : reqs'[q] = reqs[q]
         /\ answer' \in SUBSET (CredentialHandler \cup Admission)
         /\ AdmittedUsersAreGenuine'
<1>1. answer' = {reqs[r]}
  BY DEF TurnDown
<1>2. AdmittedUsersAreGenuine'
  BY <1>1 DEF AdmittedUsersAreGenuine, CredentialHandler
<1> QED
  BY <1>1, <1>2, FinishFits DEF TurnDown

LEMMA CheckUsernameStep ==
  ASSUME AccountsInv, NEW r \in Request, CheckUsername(r)
  PROVE  AccountsInv'
<1> USE DEF CheckUsername, At
<1>1. AccountsTypeOK /\ reqs[r] \in CredentialHandler
  BY HandlerKinds DEF AccountsInv
<1>2. CASE Proceed(r, "insert", Null)
  <2>1. HandlerFits(r)'
    BY <1>1, <1>2, ProceedFits DEF HandlerFits, Null
  <2> QED
    BY <1>1, <1>2, <2>1, ProceedFits, TablesKept, HandlersKept, NothingAnswered
       DEF AccountsInv, Null
<1>3. CASE TurnDown(r) /\ Named(reqs[r].presented.username) # {}
  <2>1. RefusalsHaveAReason'
    BY <1>3 DEF RefusalsHaveAReason, TurnDown, KeepAccounts, Named
  <2> QED
    BY <1>1, <1>3, <2>1, TurnDownFits, TablesKept, HandlersKept DEF AccountsInv
<1> QED
  BY <1>2, <1>3

LEMMA FindWithSensitiveDataStep ==
  ASSUME AccountsInv, NEW r \in Request, FindWithSensitiveData(r)
  PROVE  AccountsInv'
<1> USE DEF FindWithSensitiveData, At
<1> DEFINE ids == Named(reqs[r].presented.username)
<1>1. AccountsTypeOK /\ reqs[r] \in CredentialHandler
  BY HandlerKinds DEF AccountsInv
<1>2. ids \in SUBSET (Nat \ {0})
  BY <1>1 DEF Named, AccountsTypeOK
<1>3. FindOne(ids) \in ids \cup {Null} /\ (FindOne(ids) = Null <=> ids = {})
  BY <1>2, FindOneType
<1>4. CASE FindOne(ids) = Null
  <2>1. RefusalsHaveAReason'
    BY <1>3, <1>4 DEF RefusalsHaveAReason, TurnDown, KeepAccounts, Named
  <2> QED
    BY <1>1, <1>4, <2>1, TurnDownFits, TablesKept, HandlersKept DEF AccountsInv
<1>5. CASE FindOne(ids) # Null
  <2>1. FindOne(ids) \in ids /\ FindOne(ids) \in Nat
    BY <1>2, <1>3, <1>5
  <2>2. Proceed(r, "compare", FindOne(ids))
    BY <1>5
  <2>3. HandlerFits(r)'
    BY <1>1, <2>1, <2>2, ProceedFits DEF HandlerFits, Named, KeepAccounts
  <2> QED
    BY <1>1, <2>1, <2>2, <2>3, ProceedFits, TablesKept, HandlersKept,
       NothingAnswered DEF AccountsInv
<1> QED
  BY <1>4, <1>5

LEMMA CompareStep ==
  ASSUME AccountsInv, NEW r \in Request, Compare(r)
  PROVE  AccountsInv'
<1> USE DEF Compare, At
<1> DEFINE found == reqs[r].account
<1>1. AccountsTypeOK /\ reqs[r] \in CredentialHandler
  BY HandlerKinds DEF AccountsInv
<1>2. /\ found \in DOMAIN accounts /\ found \in Nat
      /\ accounts[found].username = reqs[r].presented.username
  BY <1>1 DEF AccountsInv, HandlerFits, CredentialHandler
<1>3. accounts[found] \in Credentials /\ reqs[r].presented \in Credentials
  BY <1>1, <1>2 DEF AccountsTypeOK, CredentialHandler
<1>4. CASE accounts[found].password = reqs[r].presented.password
  <2>1. accounts[found] = reqs[r].presented
    BY <1>2, <1>3, <1>4 DEF Credentials
  <2>2. Proceed(r, "sign", found)
    BY <1>4
  <2>3. HandlerFits(r)'
    BY <1>1, <1>2, <2>1, <2>2, ProceedFits DEF HandlerFits, KeepAccounts
  <2> QED
    BY <1>1, <1>2, <2>2, <2>3, ProceedFits, TablesKept, HandlersKept,
       NothingAnswered DEF AccountsInv
<1>5. CASE accounts[found].password # reqs[r].presented.password
  <2>1. ASSUME NEW a \in DOMAIN accounts PROVE accounts[a] # reqs[r].presented
    BY <1>2, <1>5 DEF AccountsInv, OneAccountPerUsername
  <2>2. TurnDown(r)
    BY <1>5
  <2>3. RefusalsHaveAReason'
    BY <2>1, <2>2 DEF RefusalsHaveAReason, TurnDown, KeepAccounts
  <2> QED
    BY <1>1, <2>2, <2>3, TurnDownFits, TablesKept, HandlersKept DEF AccountsInv
<1> QED
  BY <1>4, <1>5

\* A new row keeps everything that was known of the others.
LEMMA InsertStep ==
  ASSUME AccountsInv, NEW r \in Request, InsertAccount(r),
         Named(reqs[r].presented.username) = {}
  PROVE  AccountsInv'
<1> USE DEF InsertAccount, At
<1>1. AccountsTypeOK /\ reqs[r] \in CredentialHandler
  BY HandlerKinds DEF AccountsInv
<1> DEFINE row == reqs[r].presented
<1>2. /\ accounts' = Insert(accounts, nextAccount, row)
      /\ Proceed(r, "sign", nextAccount)
      /\ row \in Credentials
      /\ nextAccount \in Nat \ {0} /\ nextAccount' = nextAccount + 1
      /\ nextAccount <= MaxAccounts
      /\ UNCHANGED <<tokens, expired>>
  BY <1>1 DEF CredentialHandler, KeepTokens, AccountsTypeOK
<1>3. nextAccount \notin DOMAIN accounts
  BY <1>1, <1>2 DEF AccountsTypeOK
<1>4. /\ DOMAIN accounts' = DOMAIN accounts \cup {nextAccount}
      /\ accounts'[nextAccount] = row
      /\ \A a \in DOMAIN accounts : accounts'[a] = accounts[a]
  BY <1>2, <1>3 DEF Insert
<1>5. Grows
  BY <1>2, <1>4 DEF Grows
<1>6. HandlerFits(r)'
  BY <1>1, <1>2, <1>4, ProceedFits DEF HandlerFits
<1>7. AccountsTypeOK'
  <2>1. accounts' \in [DOMAIN accounts' -> Credentials]
    BY <1>1, <1>2, <1>3 DEF Insert, AccountsTypeOK
  <2>2. /\ nextAccount' \in 1 .. (MaxAccounts + 1)
        /\ DOMAIN accounts' \subseteq 1 .. (nextAccount' - 1)
    BY <1>1, <1>2, <1>4, AccountsAssumption DEF AccountsTypeOK
  <2>3. reqs' \in [Request -> CredentialHandler \cup VerifyHandler \cup {Idle}]
    BY <1>1, <1>2, ProceedFits
  <2>4. tokens' \in Seq(Token) /\ expired' \subseteq DOMAIN tokens' /\ answer' = {}
    BY <1>1, <1>2 DEF AccountsTypeOK, Proceed
  <2> QED
    BY <2>1, <2>2, <2>3, <2>4 DEF AccountsTypeOK
<1>8. OneAccountPerUsername'
  BY <1>4 DEF AccountsInv, OneAccountPerUsername, Named
<1>9. TokensFit'
  BY <1>2, <1>4 DEF AccountsInv, TokensFit
<1>10. \A q \in Request : HandlerFits(q)'
  BY <1>1, <1>2, <1>5, <1>6, ProceedFits, HandlersKept
<1>11. AdmittedUsersAreGenuine' /\ RefusalsHaveAReason'
  BY <1>2, NothingAnswered DEF Proceed
<1> QED
  BY <1>7, <1>8, <1>9, <1>10, <1>11 DEF AccountsInv

\* The loser of a race for the name: only the serial moves.
LEMMA ConflictStep ==
  ASSUME AccountsInv, NEW r \in Request, InsertAccount(r),
         Named(reqs[r].presented.username) # {}
  PROVE  AccountsInv'
<1> USE DEF InsertAccount, At
<1>1. AccountsTypeOK /\ reqs[r] \in CredentialHandler
  BY HandlerKinds DEF AccountsInv
<1>2. /\ UNCHANGED <<accounts, tokens, expired>> /\ TurnDown(r)
      /\ nextAccount' = nextAccount + 1 /\ nextAccount <= MaxAccounts
  BY DEF KeepTokens
<1>3. AccountsTypeOK'
  BY <1>1, <1>2, TurnDownFits, AccountsAssumption DEF AccountsTypeOK
<1>4. OneAccountPerUsername' /\ TokensFit' /\ Grows
  BY <1>2 DEF AccountsInv, OneAccountPerUsername, TokensFit, Grows
<1>5. \A q \in Request : HandlerFits(q)'
  BY <1>1, <1>2, <1>4, TurnDownFits, HandlersKept
<1>6. RefusalsHaveAReason'
  BY <1>2 DEF RefusalsHaveAReason, TurnDown, Named
<1> QED
  BY <1>1, <1>2, <1>3, <1>4, <1>5, <1>6, TurnDownFits DEF AccountsInv

LEMMA GenerateTokenStep ==
  ASSUME AccountsInv, NEW r \in Request, GenerateToken(r)
  PROVE  AccountsInv'
<1> USE DEF GenerateToken
<1> DEFINE account == reqs[r].account
           token == [id |-> account, username |-> accounts[account].username,
                     presented |-> reqs[r].presented]
<1>1. AccountsTypeOK /\ reqs[r] \in CredentialHandler
  BY HandlerKinds DEF AccountsInv
<1>2. account \in DOMAIN accounts /\ accounts[account] = reqs[r].presented
  BY <1>1 DEF AccountsInv, HandlerFits
<1>3. token \in Token
  BY <1>1, <1>2 DEF Token, AccountsTypeOK, CredentialHandler, Credentials
<1>4. /\ tokens' = Append(tokens, token) /\ UNCHANGED <<accounts, nextAccount, expired>>
      /\ answer' = {} /\ Finish(r)
  BY DEF KeepAccounts
<1>5. tokens \in Seq(Token)
  BY <1>1 DEF AccountsTypeOK
<1> HIDE DEF token
<1>6. /\ tokens' \in Seq(Token)
      /\ DOMAIN tokens' = DOMAIN tokens \cup {Len(tokens) + 1}
      /\ \A t \in DOMAIN tokens : tokens'[t] = tokens[t]
      /\ tokens'[Len(tokens) + 1] = token
  BY <1>3, <1>4, <1>5, AppendProperties
<1>7. Grows
  BY <1>4, <1>6 DEF Grows
<1>8. AccountsTypeOK'
  BY <1>1, <1>4, <1>6, FinishFits DEF AccountsTypeOK
<1>9. TokensFit'
  BY <1>2, <1>4, <1>6 DEF AccountsInv, TokensFit, token
<1>10. \A q \in Request : HandlerFits(q)'
  BY <1>1, <1>4, <1>7, FinishFits, HandlersKept
<1> QED
  BY <1>4, <1>8, <1>9, <1>10, NothingAnswered DEF AccountsInv,
     OneAccountPerUsername

LEMMA StartVerifyStep ==
  ASSUME AccountsInv, NEW r \in Request, StartVerify(r)
  PROVE  AccountsInv'
<1> USE DEF StartVerify
<1>1. PICK t \in DOMAIN tokens :
        reqs' = [reqs EXCEPT ![r] =
         [op |-> "verify", pc |-> "verify", token |-> t,
          fresh |-> DOMAIN tokens \ expired]]
  OBVIOUS
<1> DEFINE q == [op |-> "verify", pc |-> "verify", token |-> t,
                 fresh |-> DOMAIN tokens \ expired]
<1>2. DOMAIN tokens \subseteq Nat
  BY DEF AccountsInv, AccountsTypeOK
<1>3. q \in VerifyHandler
  BY <1>2 DEF VerifyHandler
<1>4. /\ reqs'[r] = q
      /\ \A x \in Request \ {r} : reqs'[x] = reqs[x]
      /\ reqs' \in [Request -> CredentialHandler \cup VerifyHandler \cup {Idle}]
  BY <1>1, <1>3 DEF AccountsInv, AccountsTypeOK
<1>5. HandlerFits(r)'
  BY <1>4 DEF HandlerFits, KeepTokens
<1> QED
  BY <1>4, <1>5, TablesKept, HandlersKept, NothingAnswered DEF AccountsInv

LEMMA VerifyTokenStep ==
  ASSUME AccountsInv, NEW r \in Request, VerifyToken(r)
  PROVE  AccountsInv'
<1> USE DEF VerifyToken, At
<1>1. AccountsTypeOK /\ reqs[r] \in VerifyHandler
  BY HandlerKinds DEF AccountsInv
<1>2. CASE Finish(r)
  BY <1>1, <1>2, FinishFits, TablesKept, HandlersKept, NothingAnswered DEF
     AccountsInv
<1>3. CASE /\ reqs[r].token \notin expired
           /\ reqs' = [reqs EXCEPT ![r].pc = "find"]
  <2>1. /\ reqs'[r] = [reqs[r] EXCEPT !.pc = "find"]
        /\ reqs'[r] \in VerifyHandler
        /\ \A x \in Request \ {r} : reqs'[x] = reqs[x]
        /\ reqs' \in [Request -> CredentialHandler \cup VerifyHandler \cup {Idle}]
    BY <1>1, <1>3 DEF AccountsTypeOK, VerifyHandler
  <2>2. /\ reqs'[r].pc = "find" /\ reqs'[r].op = "verify"
        /\ reqs'[r].token = reqs[r].token /\ reqs'[r].fresh = reqs[r].fresh
    BY <1>1, <2>1 DEF VerifyHandler
  <2>3. reqs[r].token \in DOMAIN tokens /\ reqs[r].token \in reqs[r].fresh
    BY <1>1, <1>3 DEF AccountsInv, HandlerFits
  <2>4. HandlerFits(r)'
    BY <2>2, <2>3 DEF HandlerFits, KeepTokens
  <2> QED
    BY <2>1, <2>4, TablesKept, HandlersKept, NothingAnswered DEF AccountsInv
<1> QED
  BY <1>2, <1>3

LEMMA FindUserStep ==
  ASSUME AccountsInv, NEW r \in Request, FindUser(r)
  PROVE  AccountsInv'
<1> USE DEF FindUser, At
<1> DEFINE q == reqs[r]
           ids == {tokens[q.token].id} \cap DOMAIN accounts
           found == FindOne(ids)
           admission == [op |-> "admit", user |-> found, token |-> q.token,
                         fresh |-> q.fresh]
<1>1. AccountsTypeOK /\ q \in VerifyHandler
  BY HandlerKinds DEF AccountsInv
<1>2. q.token \in DOMAIN tokens /\ q.token \in q.fresh
  BY <1>1 DEF AccountsInv, HandlerFits
<1>3. ids \in SUBSET (Nat \ {0})
  BY <1>1 DEF AccountsTypeOK
<1>4. found \in ids \cup {Null} /\ (found = Null <=> ids = {})
  BY <1>3, FindOneType
<1>5. answer' = {} \/ (found # Null /\ answer' = {admission})
  OBVIOUS
<1>6. CASE answer' = {}
  BY <1>1, <1>6, FinishFits, TablesKept, HandlersKept, NothingAnswered DEF
     AccountsInv
<1>7. CASE found # Null /\ answer' = {admission}
  <2>1. found \in ids
    BY <1>4, <1>7
  <2>2. found \in DOMAIN accounts /\ found = tokens[q.token].id /\ found \in Nat
    BY <1>3, <2>1
  <2>3. accounts[found] = tokens[q.token].presented
    BY <1>2, <2>2 DEF AccountsInv, TokensFit
  <2>4. admission \in Admission
    BY <1>1, <2>2 DEF Admission, VerifyHandler
  <2>5. AdmittedUsersAreGenuine'
    <3> HIDE DEF found
    <3> QED
      BY <1>2, <1>7, <2>2, <2>3 DEF AdmittedUsersAreGenuine, KeepAccounts,
         KeepTokens
  <2>6. RefusalsHaveAReason'
    BY <1>7 DEF RefusalsHaveAReason
  <2> QED
    BY <1>1, <1>7, <2>4, <2>5, <2>6, FinishFits, TablesKept, HandlersKept DEF
       AccountsInv
<1> QED
  BY <1>5, <1>6, <1>7

LEMMA ExpireStep ==
  ASSUME AccountsInv, NEW t \in DOMAIN tokens \ expired, Expire(t)
  PROVE  AccountsInv'
<1> USE DEF Expire, KeepAccounts
<1>1. AccountsTypeOK' /\ OneAccountPerUsername' /\ TokensFit'
  BY DEF AccountsInv, AccountsTypeOK, OneAccountPerUsername, TokensFit
<1>2. ASSUME NEW q \in Request PROVE HandlerFits(q)'
  BY DEF AccountsInv, HandlerFits
<1> QED
  BY <1>1, <1>2, NothingAnswered DEF AccountsInv

LEMMA FailStep ==
  ASSUME AccountsInv, NEW r \in Request, Fail(r)
  PROVE  AccountsInv'
  BY FinishFits, TablesKept, HandlersKept, NothingAnswered DEF AccountsInv, Fail

LEMMA StepAccountsInv == AccountsInv /\ [AccountsNext]_accountVars => AccountsInv'
<1> SUFFICES ASSUME AccountsInv, [AccountsNext]_accountVars
             PROVE  AccountsInv'
  OBVIOUS
<1>1. ASSUME NEW r \in Request, Register(r)
      PROVE  AccountsInv'
  BY <1>1, CheckUsernameStep, InsertStep, ConflictStep DEF Register
<1>2. ASSUME NEW r \in Request, Login(r)
      PROVE  AccountsInv'
  BY <1>2, FindWithSensitiveDataStep, CompareStep DEF Login
<1>3. ASSUME NEW r \in Request, Verify(r)
      PROVE  AccountsInv'
  BY <1>3, StartVerifyStep, VerifyTokenStep, FindUserStep DEF Verify
<1>4. CASE UNCHANGED accountVars
  BY <1>4 DEF accountVars, AccountsInv, AccountsTypeOK, OneAccountPerUsername,
     TokensFit, HandlerFits, AdmittedUsersAreGenuine, RefusalsHaveAReason, Named
<1> QED
  BY <1>1, <1>2, <1>3, <1>4, StartCredentialsStep, GenerateTokenStep,
     ExpireStep, FailStep DEF AccountsNext

THEOREM AccountsInvariance == AccountsSpec => []AccountsInv
  BY InitAccountsInv, StepAccountsInv, PTL DEF AccountsSpec

(***************************************************************************)
(* The tables, tokens and handlers of apps/auth keep their types.          *)
(***************************************************************************)
THEOREM AccountsTypeCorrectness == AccountsSpec => []AccountsTypeOK
<1>1. AccountsInv => AccountsTypeOK
  BY DEF AccountsInv
<1> QED
  BY <1>1, AccountsInvariance, PTL

(***************************************************************************)
(* However many sign-ups race for a name, it has one account.              *)
(***************************************************************************)
THEOREM NamesAreUnique == AccountsSpec => []OneAccountPerUsername
<1>1. AccountsInv => OneAccountPerUsername
  BY DEF AccountsInv
<1> QED
  BY <1>1, AccountsInvariance, PTL

(***************************************************************************)
(* Whom a guard of the other process admits had presented the credentials  *)
(* of that account, and the token had not expired when the request came.   *)
(***************************************************************************)
THEOREM AdmissionIsGenuine == AccountsSpec => []AdmittedUsersAreGenuine
<1>1. AccountsInv => AdmittedUsersAreGenuine
  BY DEF AccountsInv
<1> QED
  BY <1>1, AccountsInvariance, PTL

(***************************************************************************)
(* A sign-up is turned down only for a name that is taken, a sign-in only  *)
(* for credentials that no account has.                                    *)
(***************************************************************************)
THEOREM RefusalsAreRight == AccountsSpec => []RefusalsHaveAReason
<1>1. AccountsInv => RefusalsHaveAReason
  BY DEF AccountsInv
<1> QED
  BY <1>1, AccountsInvariance, PTL

-----------------------------------------------------------------------------
(***************************************************************************)
(* Friendship.  What the guard of the messages and the lists of friends may *)
(* say, for any accounts, invitations and number of handlers, while the    *)
(* invitations change as InvitationLifecycle allows.                       *)
(***************************************************************************)
\* The history is up to date: what lasted is so, and what is so was once.
Current(u) ==
  /\ seen[u].held \subseteq Holding(Wanted(uses[u]))
  /\ Holding(Wanted(uses[u])) \subseteq seen[u].ever
  /\ uses[u].kind = "write" =>
       /\ anyone_dm[uses[u].him] => seen[u].opened
       /\ ~ anyone_dm[uses[u].him] => seen[u].shut
       /\ seen[u].friends => \E i \in Between(uses[u].me, uses[u].him) :
                               i \in Holding("accepted")

\* What the guard has found out at each of its lookups.
GuardKnows(u) ==
  LET me == uses[u].me
      him == uses[u].him
      pc == uses[u].pc IN
  uses[u].kind = "write" =>
    /\ pc \in {"from_him", "from_me", "refuse"} => seen[u].shut
    /\ pc \in {"from_me", "refuse"} =>
         \A i \in FromTo(him, me) : i \notin seen[u].held
    /\ pc = "refuse" => \A i \in FromTo(me, him) : i \notin seen[u].held
    /\ pc \in {"from_me", "refuse"} /\ seen[u].friends =>
         \E i \in FromTo(me, him) : i \in seen[u].ever
    /\ pc = "refuse" /\ seen[u].friends =>
         \E i \in FromTo(him, me) : i \in seen[u].ever
    /\ pc = "store" =>
         \/ seen[u].opened
         \/ \E i \in Between(me, him) : i \in seen[u].ever

\* A query that was answered missed nothing that lasts, and what was found was
\* so at some moment and belongs to the account of its list.
ListKnows(u) ==
  Listing(u) =>
    /\ uses[u].todo \subseteq Queries(uses[u].kind)
    /\ \A q \in Queries(uses[u].kind) \ uses[u].todo :
         \A i \in Mine(q[2], Of(uses[u], q[1])) :
           i \in seen[u].held => <<q[1], i>> \in uses[u].found
    /\ \A list \in {1, 2}, i \in Invitation : <<list, i>> \in uses[u].found =>
         /\ i \in seen[u].ever
         /\ \E q \in Queries(uses[u].kind) :
              q[1] = list /\ i \in Mine(q[2], Of(uses[u], list))

UsesInv ==
  /\ TypeOK
  /\ \A u \in Use : uses[u] # NoUse =>
       Current(u) /\ GuardKnows(u) /\ ListKnows(u)

LEMMA InitUsesInv == FriendshipInit => UsesInv
  BY DEF FriendshipInit, Init, UsesInv, TypeOK, Status, Answers, Seen,
     NothingSeen

\* The kinds of a handler.
LEMMA UseKinds ==
  ASSUME TypeOK, NEW u \in Use
  PROVE  /\ uses[u].kind = "write" => uses[u] \in WriteUse
         /\ Listing(u) => uses[u] \in ListUse
         /\ uses[u] = NoUse => uses[u].kind = "none"
         /\ uses[u] # NoUse <=> uses[u].kind = "write" \/ Listing(u)
  BY DEF TypeOK, ListUse, WriteUse, NoUse, Listing

\* What Remember records of a handler that is in flight after the step.
LEMMA Remembered ==
  ASSUME Remember, rows' = rows, NEW u \in Use, uses'[u] # NoUse
  PROVE  /\ seen'[u].held \subseteq Holding(Wanted(uses[u]))'
         /\ Holding(Wanted(uses[u]))' \subseteq seen'[u].ever
         /\ uses[u] # NoUse =>
              /\ seen'[u].held \subseteq seen[u].held
              /\ seen[u].ever \subseteq seen'[u].ever
              /\ seen'[u].friends => seen[u].friends
         /\ seen'[u].friends /\ uses'[u].kind = "write" =>
              \E i \in Between(uses[u].me, uses[u].him)' :
                i \in Holding("accepted")'
         /\ seen'[u].opened <=> \/ seen[u].opened
                                \/ /\ uses'[u].kind = "write"
                                   /\ anyone_dm'[uses'[u].him]
         /\ seen'[u].shut <=> \/ seen[u].shut
                              \/ /\ uses'[u].kind = "write"
                                 /\ ~ anyone_dm'[uses'[u].him]
<1> DEFINE now == {i \in Invitation : status'[i] = Wanted(uses'[u])}
           opened == \/ seen[u].opened
                     \/ uses'[u].kind = "write" /\ anyone_dm'[uses'[u].him]
           shut == \/ seen[u].shut
                   \/ uses'[u].kind = "write" /\ ~ anyone_dm'[uses'[u].him]
           friends == /\ uses'[u].kind = "write"
                      /\ now \cap Between(uses'[u].me, uses'[u].him) # {}
           lasting == friends /\ (uses[u] = NoUse \/ seen[u].friends)
<1>1. Holding(Wanted(uses[u]))' = now
  BY DEF Holding
<1>2. seen'[u] =
        [held |-> IF uses[u] = NoUse THEN now ELSE seen[u].held \cap now,
         ever |-> IF uses[u] = NoUse THEN now ELSE seen[u].ever \cup now,
         opened |-> opened, shut |-> shut, friends |-> lasting]
  BY DEF Remember
<1>a. /\ lasting /\ uses[u] # NoUse => seen[u].friends
      /\ lasting /\ uses'[u].kind = "write" =>
           \E i \in Between(uses[u].me, uses[u].him)' :
             i \in Holding("accepted")'
  <2>1. lasting /\ uses[u] # NoUse => seen[u].friends
    BY Zenon
  <2>2. uses'[u].kind = "write" => now = Holding("accepted")'
    BY DEF Holding, Wanted
  <2>3. lasting => now \cap Between(uses'[u].me, uses'[u].him) # {}
    BY Zenon
  <2>4. ASSUME lasting, uses'[u].kind = "write"
        PROVE  \E i \in Between(uses[u].me, uses[u].him)' :
                 i \in Holding("accepted")'
    <3>1. PICK i : i \in now /\ i \in Between(uses'[u].me, uses'[u].him)
      BY <2>3, <2>4, Zenon
    <3>2. i \in Between(uses[u].me, uses[u].him)'
      BY <3>1 DEF Between, FromTo
    <3> QED
      BY <2>2, <2>4, <3>1, <3>2, Zenon
  <2> HIDE DEF lasting
  <2> QED
    BY <2>1, <2>4, Zenon
<1> HIDE DEF now, opened, shut, lasting, friends
<1>3. /\ seen'[u].held = IF uses[u] = NoUse THEN now ELSE seen[u].held \cap now
      /\ seen'[u].ever = IF uses[u] = NoUse THEN now ELSE seen[u].ever \cup now
      /\ seen'[u].opened = opened /\ seen'[u].shut = shut
      /\ seen'[u].friends = lasting
  BY <1>2
<1>4. /\ seen'[u].opened <=> \/ seen[u].opened
                             \/ /\ uses'[u].kind = "write"
                                /\ anyone_dm'[uses'[u].him]
      /\ seen'[u].shut <=> \/ seen[u].shut
                           \/ /\ uses'[u].kind = "write"
                              /\ ~ anyone_dm'[uses'[u].him]
  BY <1>3, Zenon DEF opened, shut
<1> QED
  BY <1>1, <1>a, <1>3, <1>4

LEMMA CurrentAfter ==
  ASSUME Remember, rows' = rows, NEW u \in Use, uses'[u] # NoUse
  PROVE  Current(u)'
  BY Remembered DEF Current

LEMMA SeenType ==
  ASSUME TypeOK, Remember
  PROVE  seen' \in [Use -> Seen]
<1> SUFFICES ASSUME NEW u \in Use
             PROVE  seen'[u] \in Seen
  BY DEF Remember
<1>1. CASE uses'[u] = NoUse
  BY <1>1 DEF Remember, Seen, NothingSeen
<1>2. CASE uses'[u] # NoUse
  <2> DEFINE now == {i \in Invitation : status'[i] = Wanted(uses'[u])}
             held == IF uses[u] = NoUse THEN now ELSE seen[u].held \cap now
             ever == IF uses[u] = NoUse THEN now ELSE seen[u].ever \cup now
             opened == \/ seen[u].opened
                       \/ uses'[u].kind = "write" /\ anyone_dm'[uses'[u].him]
             shut == \/ seen[u].shut
                     \/ uses'[u].kind = "write" /\ ~ anyone_dm'[uses'[u].him]
             friends == /\ uses'[u].kind = "write"
                        /\ now \cap Between(uses'[u].me, uses'[u].him) # {}
             lasting == friends /\ (uses[u] = NoUse \/ seen[u].friends)
  <2>1. seen'[u] = [held |-> held, ever |-> ever, opened |-> opened,
                    shut |-> shut, friends |-> lasting]
    BY <1>2 DEF Remember
  <2>2. held \in SUBSET Invitation /\ ever \in SUBSET Invitation
    BY DEF TypeOK, Seen
  <2>3. opened \in BOOLEAN /\ shut \in BOOLEAN /\ lasting \in BOOLEAN
    <3>1. seen[u].opened \in BOOLEAN /\ seen[u].shut \in BOOLEAN
      BY DEF TypeOK, Seen
    <3>2. lasting \in BOOLEAN
      BY Zenon
    <3> QED
      BY <3>1, <3>2, Zenon
  <2> HIDE DEF held, ever, opened, shut, friends, lasting
  <2> QED
    BY <2>1, <2>2, <2>3 DEF Seen
<1> QED
  BY <1>1, <1>2

\* A handler that does not move keeps what it knows: the rows never change,
\* what it holds only shrinks, and what it has seen only grows.
LEMMA Rest ==
  ASSUME UsesInv, FriendshipNext, NEW u \in Use, uses'[u] = uses[u],
         uses[u] # NoUse
  PROVE  GuardKnows(u)' /\ ListKnows(u)'
<1>1. GuardKnows(u) /\ ListKnows(u) /\ rows' = rows /\ Remember
  BY DEF UsesInv, FriendshipNext
<1>2. /\ \A i : i \in seen'[u].held => i \in seen[u].held
      /\ \A i : i \in seen[u].ever => i \in seen'[u].ever
      /\ seen[u].opened => seen'[u].opened
      /\ seen[u].shut => seen'[u].shut
      /\ seen'[u].friends => seen[u].friends
  BY <1>1, Remembered
<1>3. GuardKnows(u)'
  BY <1>1, <1>2 DEF GuardKnows, FromTo, Between
<1>4. ListKnows(u)'
  <2>1. /\ \A side, a : Mine(side, a)' = Mine(side, a)
        /\ Listing(u)' <=> Listing(u)
    BY <1>1 DEF Mine, Listing
  <2> QED
    BY <1>1, <1>2, <2>1 DEF ListKnows
<1> QED
  BY <1>3, <1>4

\* A step of the lifecycle or of the account moves no handler.
LEMMA Others ==
  ASSUME UsesInv, FriendshipNext, TypeOK', UNCHANGED uses
  PROVE  UsesInv'
<1>1. Remember /\ rows' = rows
  BY DEF FriendshipNext
<1> SUFFICES ASSUME NEW u \in Use, uses'[u] # NoUse
             PROVE  Current(u)' /\ GuardKnows(u)' /\ ListKnows(u)'
  BY DEF UsesInv
<1> QED
  BY <1>1, CurrentAfter, Rest

\* One handler moves: it is left to show what it knows now.
LEMMA Moves ==
  ASSUME UsesInv, FriendshipNext, NEW u \in Use,
         NEW h \in ListUse \cup WriteUse \cup {NoUse},
         uses' = [uses EXCEPT ![u] = h], UNCHANGED <<status, anyone_dm>>,
         h # NoUse => GuardKnows(u)' /\ ListKnows(u)'
  PROVE  UsesInv'
<1>1. Remember /\ rows' = rows
  BY DEF FriendshipNext
<1>2. TypeOK'
  BY <1>1, SeenType DEF UsesInv, TypeOK
<1> SUFFICES ASSUME NEW v \in Use, uses'[v] # NoUse
             PROVE  Current(v)' /\ GuardKnows(v)' /\ ListKnows(v)'
  BY <1>2 DEF UsesInv
<1>3. CASE v = u
  <2>1. h # NoUse
    BY <1>3 DEF UsesInv, TypeOK
  <2> QED
    BY <1>1, <1>3, <2>1, CurrentAfter
<1>4. CASE v # u
  <2>1. uses'[v] = uses[v]
    BY <1>4 DEF UsesInv, TypeOK
  <2> QED
    BY <1>1, <2>1, CurrentAfter, Rest
<1> QED
  BY <1>3, <1>4

\* A handler that ends, for whatever reason.
LEMMA DoneStep ==
  ASSUME UsesInv, FriendshipNext, NEW u \in Use, Done(u),
         UNCHANGED <<status, anyone_dm>>
  PROVE  UsesInv'
  BY Moves DEF Done

\* What survives a step of the handler itself.
LEMMA Kept ==
  ASSUME UsesInv, FriendshipNext, NEW u \in Use, uses[u] # NoUse,
         uses'[u] # NoUse
  PROVE  /\ rows' = rows
         /\ \A i : i \in seen'[u].held => i \in seen[u].held
         /\ \A i : i \in seen[u].ever => i \in seen'[u].ever
         /\ seen[u].opened => seen'[u].opened
         /\ seen[u].shut => seen'[u].shut
         /\ seen'[u].friends => seen[u].friends
         /\ Current(u) /\ GuardKnows(u) /\ ListKnows(u)
  BY Remembered DEF FriendshipNext, UsesInv

\* The guard goes on to its next lookup.
LEMMA GotoStep ==
  ASSUME UsesInv, FriendshipNext, NEW u \in Use, uses[u].kind = "write",
         NEW label \in {"from_him", "from_me", "store", "refuse"},
         Goto(u, label), UNCHANGED <<status, anyone_dm>>,
         LET me == uses[u].me
             him == uses[u].him
         IN  /\ label \in {"from_him", "from_me", "refuse"} => seen[u].shut
             /\ label \in {"from_me", "refuse"} =>
                  \A i \in FromTo(him, me) : i \notin seen[u].held
             /\ label = "refuse" =>
                  \A i \in FromTo(me, him) : i \notin seen[u].held
             /\ label \in {"from_me", "refuse"} /\ seen[u].friends =>
                  \E i \in FromTo(me, him) : i \in seen[u].ever
             /\ label = "refuse" /\ seen[u].friends =>
                  \E i \in FromTo(him, me) : i \in seen[u].ever
             /\ label = "store" =>
                  \/ seen[u].opened
                  \/ \E i \in Between(me, him) : i \in seen[u].ever
  PROVE  UsesInv'
<1> DEFINE h == [uses[u] EXCEPT !.pc = label]
<1>1. uses[u] \in WriteUse
  BY UseKinds DEF UsesInv
<1>2. /\ h \in WriteUse /\ h # NoUse /\ h.kind = "write" /\ h.pc = label
      /\ h.me = uses[u].me /\ h.him = uses[u].him
  BY <1>1 DEF WriteUse, NoUse
<1>3. uses' = [uses EXCEPT ![u] = h] /\ uses'[u] = h
  BY DEF Goto, UsesInv, TypeOK
<1> HIDE DEF h
<1>4. uses[u] # NoUse
  BY UseKinds DEF UsesInv
<1>5. /\ rows' = rows
      /\ \A i : i \in seen'[u].held => i \in seen[u].held
      /\ \A i : i \in seen[u].ever => i \in seen'[u].ever
      /\ seen[u].opened => seen'[u].opened
      /\ seen[u].shut => seen'[u].shut
      /\ seen'[u].friends => seen[u].friends
  BY <1>2, <1>3, <1>4, Kept
<1>6. /\ \A a, b : FromTo(a, b)' = FromTo(a, b)
      /\ \A a, b : Between(a, b)' = Between(a, b)
  BY <1>5 DEF FromTo, Between
<1>7. GuardKnows(u)'
  BY <1>2, <1>3, <1>5, <1>6 DEF GuardKnows
<1>8. ListKnows(u)'
  BY <1>2, <1>3 DEF ListKnows, Listing
<1> QED
  BY <1>2, <1>3, <1>7, <1>8, Moves

\* A lookup of the guard: a row it finds is so now, one it does not find did
\* not last.
LEMMA WriteStep ==
  ASSUME UsesInv, FriendshipNext, NEW u \in Use, Write(u), UNCHANGED status
  PROVE  UsesInv'
<1>1. UNCHANGED anyone_dm
  BY DEF Write, StartWrite, ReadPrivacy, FindFromHim, FindFromMe, EndWrite
<1>2. CASE StartWrite(u)
  <2>1. PICK me, him \in Account :
          uses' = [uses EXCEPT ![u] =
            [kind |-> "write", pc |-> "privacy", me |-> me, him |-> him]]
    BY <1>2 DEF StartWrite
  <2> DEFINE h == [kind |-> "write", pc |-> "privacy", me |-> me, him |-> him]
  <2>2. h \in WriteUse /\ h.kind = "write" /\ h.pc = "privacy"
    BY DEF WriteUse
  <2>3. uses' = [uses EXCEPT ![u] = h] /\ uses'[u] = h
    BY <2>1 DEF UsesInv, TypeOK
  <2> HIDE DEF h
  <2>4. GuardKnows(u)' /\ ListKnows(u)'
    BY <2>2, <2>3 DEF GuardKnows, ListKnows, Listing
  <2> QED
    BY <1>1, <2>2, <2>3, <2>4, Moves
<1> DEFINE me == uses[u].me
           him == uses[u].him
<1>3. ASSUME uses[u].kind = "write"
      PROVE  /\ GuardKnows(u)
             /\ \A i : i \in seen[u].held => i \in Holding("accepted")
             /\ \A i : i \in Holding("accepted") => i \in seen[u].ever
             /\ anyone_dm[him] => seen[u].opened
             /\ ~ anyone_dm[him] => seen[u].shut
             /\ seen[u].friends =>
                  \E i \in Between(me, him) : i \in Holding("accepted")
  BY <1>3, UseKinds DEF UsesInv, Current, Wanted
<1>4. CASE ReadPrivacy(u)
  BY <1>1, <1>3, <1>4, GotoStep DEF ReadPrivacy, Writing
<1>5. CASE FindFromHim(u)
  <2>1. uses[u].kind = "write" /\ seen[u].shut
    BY <1>3, <1>5 DEF FindFromHim, Writing, GuardKnows
  <2>2. CASE Holding("accepted") \cap FromTo(him, me) # {}
    <3>1. PICK i : i \in Holding("accepted") /\ i \in FromTo(him, me)
      BY <2>2
    <3>2. i \in Between(me, him) /\ i \in seen[u].ever
      BY <1>3, <2>1, <3>1 DEF Between
    <3> QED
      BY <1>1, <1>5, <2>1, <2>2, <3>2, GotoStep DEF FindFromHim
  <2>3. CASE Holding("accepted") \cap FromTo(him, me) = {}
    <3>1. \A i \in FromTo(him, me) : i \notin seen[u].held
      BY <1>3, <2>1, <2>3
    <3>2. seen[u].friends => \E i \in FromTo(me, him) : i \in seen[u].ever
      BY <1>3, <2>1, <2>3 DEF Between
    <3> QED
      BY <1>1, <1>5, <2>1, <2>3, <3>1, <3>2, GotoStep DEF FindFromHim
  <2> QED
    BY <2>2, <2>3
<1>6. CASE FindFromMe(u)
  <2>1. /\ uses[u].kind = "write" /\ seen[u].shut
        /\ \A i \in FromTo(him, me) : i \notin seen[u].held
        /\ seen[u].friends => \E i \in FromTo(me, him) : i \in seen[u].ever
    BY <1>3, <1>6 DEF FindFromMe, Writing, GuardKnows
  <2>2. CASE Holding("accepted") \cap FromTo(me, him) # {}
    <3>1. PICK i : i \in Holding("accepted") /\ i \in FromTo(me, him)
      BY <2>2
    <3>2. i \in Between(me, him) /\ i \in seen[u].ever
      BY <1>3, <2>1, <3>1 DEF Between
    <3> QED
      BY <1>1, <1>6, <2>1, <2>2, <3>2, GotoStep DEF FindFromMe
  <2>3. CASE Holding("accepted") \cap FromTo(me, him) = {}
    <3>1. \A i \in FromTo(me, him) : i \notin seen[u].held
      BY <1>3, <2>1, <2>3
    <3>2. seen[u].friends => \E i \in FromTo(him, me) : i \in seen[u].ever
      BY <1>3, <2>1, <2>3 DEF Between
    <3> QED
      BY <1>1, <1>6, <2>1, <2>3, <3>1, <3>2, GotoStep DEF FindFromMe
  <2> QED
    BY <2>2, <2>3
<1>7. CASE EndWrite(u)
  BY <1>1, <1>7, DoneStep DEF EndWrite
<1> QED
  BY <1>2, <1>4, <1>5, <1>6, <1>7 DEF Write

LEMMA StartListStep ==
  ASSUME UsesInv, FriendshipNext, NEW u \in Use, StartList(u), UNCHANGED status
  PROVE  UsesInv'
<1>1. PICK kind \in {"friends", "mutual", "received", "sent"},
           me \in Account, him \in Account :
        uses' = [uses EXCEPT ![u] =
          [kind |-> kind, me |-> me, him |-> him, todo |-> Queries(kind),
           found |-> {}]]
  BY DEF StartList
<1> DEFINE h == [kind |-> kind, me |-> me, him |-> him,
                 todo |-> Queries(kind), found |-> {}]
<1>2. Queries(kind) \in SUBSET ({1, 2} \X Side)
  BY DEF Queries
<1>3. /\ h \in ListUse /\ h.kind = kind /\ h.todo = Queries(kind)
      /\ h.found = {} /\ h.kind # "write"
  BY <1>2 DEF ListUse
<1>4. uses' = [uses EXCEPT ![u] = h] /\ uses'[u] = h
  BY <1>1 DEF UsesInv, TypeOK
<1>5. UNCHANGED <<status, anyone_dm>>
  BY DEF StartList
<1> HIDE DEF h
<1>6. GuardKnows(u)' /\ ListKnows(u)'
  BY <1>3, <1>4 DEF GuardKnows, ListKnows
<1> QED
  BY <1>3, <1>4, <1>5, <1>6, Moves

\* A query answers with what is so now, and with all of it.
LEMMA FindStep ==
  ASSUME UsesInv, FriendshipNext, NEW u \in Use, Find(u), UNCHANGED status
  PROVE  UsesInv'
<1> DEFINE use == uses[u]
           X(q) == Mine(q[2], Of(use, q[1])) \cap Holding(Wanted(use))
<1>1. PICK q \in use.todo :
        uses' = [uses EXCEPT ![u].todo = @ \ {q},
                             ![u].found = @ \cup ({q[1]} \X X(q))]
  BY DEF Find
<1> DEFINE h == [use EXCEPT !.todo = @ \ {q}, !.found = @ \cup ({q[1]} \X X(q))]
<1>2. use \in ListUse /\ use # NoUse /\ use.kind # "write" /\ Listing(u)
  BY UseKinds DEF UsesInv, Find, Listing
<1>3. /\ use.todo \in SUBSET ({1, 2} \X Side)
      /\ use.found \in SUBSET ({1, 2} \X Invitation)
  BY <1>2 DEF ListUse
<1>4. q[1] \in {1, 2} /\ X(q) \in SUBSET Invitation
  BY <1>3 DEF Holding
<1>5. {q[1]} \X X(q) \in SUBSET ({1, 2} \X Invitation)
  BY <1>4
<1>6. /\ h \in ListUse
      /\ h.kind = use.kind /\ h.me = use.me /\ h.him = use.him
      /\ h.todo = use.todo \ {q}
      /\ h.found = use.found \cup ({q[1]} \X X(q))
  BY <1>2, <1>3, <1>5 DEF ListUse
<1>7. uses' = [uses EXCEPT ![u] = h] /\ uses'[u] = h
  BY <1>1 DEF UsesInv, TypeOK
<1>8. UNCHANGED <<status, anyone_dm>>
  BY DEF Find
<1>9. h # NoUse
  BY <1>2, <1>6, UseKinds DEF UsesInv, Listing, NoUse
<1>10. /\ rows' = rows
       /\ \A i : i \in seen'[u].held => i \in seen[u].held
       /\ \A i : i \in seen[u].ever => i \in seen'[u].ever
       /\ Current(u) /\ ListKnows(u)
  BY <1>2, <1>7, <1>9, Kept
<1>11. /\ \A side, a : Mine(side, a)' = Mine(side, a)
       /\ \A list : Of(h, list) = Of(use, list)
  BY <1>6, <1>10 DEF Mine, Of
<1> HIDE DEF h
<1>12. ASSUME NEW p \in Queries(use.kind), p \notin h.todo,
              NEW i \in Mine(p[2], Of(use, p[1])), i \in seen'[u].held
       PROVE  <<p[1], i>> \in h.found
  <2>1. i \in seen[u].held
    BY <1>10, <1>12
  <2>2. CASE p = q
    <3>1. i \in X(q)
      BY <1>10, <1>12, <2>1, <2>2 DEF Current
    <3> QED
      BY <1>6, <2>2, <3>1
  <2>3. CASE p # q
    <3>1. p \in Queries(use.kind) \ use.todo
      BY <1>6, <1>12, <2>3
    <3>2. <<p[1], i>> \in use.found
      BY <1>2, <1>10, <1>12, <2>1, <3>1 DEF ListKnows
    <3> QED
      BY <1>6, <3>2
  <2> QED
    BY <2>2, <2>3
<1>13. ASSUME NEW list \in {1, 2}, NEW i \in Invitation,
              <<list, i>> \in h.found
       PROVE  /\ i \in seen'[u].ever
              /\ \E p \in Queries(use.kind) :
                   p[1] = list /\ i \in Mine(p[2], Of(use, list))
  <2>1. CASE <<list, i>> \in use.found
    BY <1>2, <1>10, <2>1 DEF ListKnows
  <2>2. CASE <<list, i>> \in {q[1]} \X X(q)
    <3>1. list = q[1] /\ i \in X(q)
      BY <2>2
    <3>2. q \in Queries(use.kind)
      BY <1>2, <1>10 DEF ListKnows
    <3>3. i \in seen[u].ever
      BY <1>10, <3>1 DEF Current
    <3> QED
      BY <1>10, <3>1, <3>2, <3>3
  <2> QED
    BY <1>6, <1>13, <2>1, <2>2
<1>14. h.todo \subseteq Queries(use.kind)
  BY <1>2, <1>6, <1>10 DEF ListKnows
<1>15. ListKnows(u)'
  BY <1>6, <1>7, <1>11, <1>12, <1>13, <1>14 DEF ListKnows
<1>16. GuardKnows(u)'
  BY <1>2, <1>6, <1>7 DEF GuardKnows
<1> QED
  BY <1>6, <1>7, <1>8, <1>15, <1>16, Moves

\* Neither the lifecycle nor the accounts leave their types.
LEMMA OthersStep ==
  ASSUME UsesInv, FriendshipNext, LifecycleStep \/ (UpdatePrivacy /\ UNCHANGED status)
  PROVE  UsesInv'
<1>1. UNCHANGED uses
  BY DEF LifecycleStep, UpdatePrivacy
<1>2. seen' \in [Use -> Seen] /\ rows' = rows
  BY SeenType DEF UsesInv, FriendshipNext
<1>3. anyone_dm' \in [Account -> BOOLEAN]
  BY DEF LifecycleStep, UpdatePrivacy, UsesInv, TypeOK
<1>4. status' \in [Invitation -> Status]
  <2>1. ASSUME NEW ids, NEW from, NEW to \in Status, Move(ids, from, to)
        PROVE  status' \in [Invitation -> Status]
    BY <2>1 DEF Move, UsesInv, TypeOK
  <2>2. CASE LifecycleStep
    BY <2>1, <2>2 DEF LifecycleStep, Next, Send, Answer, Remove, Status, Answers
  <2> QED
    BY <2>2 DEF UsesInv, TypeOK
<1> QED
  BY <1>1, <1>2, <1>3, <1>4, Others DEF UsesInv, TypeOK

(***************************************************************************)
(* Whatever happens to the invitations and the accounts between two        *)
(* queries, what a handler has concluded from them stays justified.        *)
(***************************************************************************)
THEOREM UsesInvariance == FriendshipSpec => []UsesInv
<1>1. UsesInv /\ [FriendshipNext]_vars => UsesInv'
  <2> SUFFICES ASSUME UsesInv, [FriendshipNext]_vars
               PROVE  UsesInv'
    OBVIOUS
  <2>1. CASE FriendshipNext
    <3>1. CASE LifecycleStep
      BY <2>1, <3>1, OthersStep
    <3>2. CASE UseStep
      <4>1. UNCHANGED status
        BY <3>2 DEF UseStep
      <4>2. CASE UpdatePrivacy
        BY <2>1, <4>1, <4>2, OthersStep
      <4>3. ASSUME NEW u \in Use, Write(u)
            PROVE  UsesInv'
        BY <2>1, <4>1, <4>3, WriteStep
      <4>4. ASSUME NEW u \in Use, List(u)
            PROVE  UsesInv'
        BY <2>1, <4>1, <4>4, StartListStep, FindStep, DoneStep
           DEF List, AnswerList
      <4>5. ASSUME NEW u \in Use, FailUse(u)
            PROVE  UsesInv'
        BY <2>1, <4>1, <4>5, DoneStep DEF FailUse
      <4> QED
        BY <3>2, <4>2, <4>3, <4>4, <4>5 DEF UseStep
    <3> QED
      BY <2>1, <3>1, <3>2 DEF FriendshipNext
  <2>2. CASE UNCHANGED vars
    <3>1. /\ status' = status /\ rows' = rows /\ anyone_dm' = anyone_dm
          /\ uses' = uses /\ seen' = seen
      BY <2>2 DEF vars
    <3> QED
      BY <3>1 DEF UsesInv, TypeOK, Current, GuardKnows, ListKnows, Holding,
         FromTo, Between, Mine, Listing
  <2> QED
    BY <2>1, <2>2
<1> QED
  BY InitUsesInv, <1>1, PTL DEF FriendshipSpec

\* The invitations, the accounts and the handlers keep their types.
THEOREM UsesTypeCorrectness == FriendshipSpec => []TypeOK
<1>1. UsesInv => TypeOK
  BY DEF UsesInv
<1> QED
  BY UsesInvariance, <1>1, PTL

(***************************************************************************)
(* AllowToMessageHimGuard lets a message pass only to an account that was  *)
(* open to anyone or a friend at some moment since the message came.       *)
(***************************************************************************)
THEOREM WritersAreAllowed == FriendshipSpec => []WritersWereAllowed
<1>1. UsesInv => WritersWereAllowed
  <2> SUFFICES ASSUME UsesInv, NEW u \in Use, Writing(u, "store")
               PROVE  \/ seen[u].opened
                      \/ seen[u].ever \cap Between(uses[u].me, uses[u].him) # {}
    BY DEF WritersWereAllowed
  <2>1. GuardKnows(u) /\ uses[u].kind = "write" /\ uses[u].pc = "store"
    BY UseKinds DEF UsesInv, Writing
  <2> QED
    BY <2>1 DEF GuardKnows
<1> QED
  BY UsesInvariance, <1>1, PTL

(***************************************************************************)
(* It refuses nobody whose friendship lasted through its three lookups.    *)
(***************************************************************************)
THEOREM FriendsMayWrite == FriendshipSpec => []FriendsAreNotRefused
<1>1. UsesInv => FriendsAreNotRefused
  <2> SUFFICES ASSUME UsesInv, NEW u \in Use, Writing(u, "refuse")
               PROVE  /\ seen[u].shut
                      /\ seen[u].held \cap Between(uses[u].me, uses[u].him) = {}
    BY DEF FriendsAreNotRefused
  <2>1. GuardKnows(u) /\ uses[u].kind = "write" /\ uses[u].pc = "refuse"
    BY UseKinds DEF UsesInv, Writing
  <2> QED
    BY <2>1 DEF GuardKnows, Between
<1> QED
  BY UsesInvariance, <1>1, PTL

(***************************************************************************)
(* It refuses accounts that were friends all along only when their         *)
(* friendship passed from a row of one direction to a row of the other.    *)
(***************************************************************************)
THEOREM FriendsWhoDoNotTurnMayWrite ==
  FriendshipSpec => []OnlyTurnedFriendsAreRefused
<1>1. UsesInv => OnlyTurnedFriendsAreRefused
  <2> SUFFICES ASSUME UsesInv, NEW u \in Use, Writing(u, "refuse"),
                      seen[u].friends
               PROVE  /\ seen[u].ever \cap FromTo(uses[u].me, uses[u].him) # {}
                      /\ seen[u].ever \cap FromTo(uses[u].him, uses[u].me) # {}
    BY DEF OnlyTurnedFriendsAreRefused
  <2>1. GuardKnows(u) /\ uses[u].kind = "write" /\ uses[u].pc = "refuse"
    BY UseKinds DEF UsesInv, Writing
  <2> QED
    BY <2>1 DEF GuardKnows
<1> QED
  BY UsesInvariance, <1>1, PTL

\* What the answered queries of one list have found, and what they have not.
LEMMA ListIsComplete ==
  ASSUME UsesInv, NEW u \in Use, Listing(u), uses[u].todo = {},
         NEW list \in {1, 2}, NEW side \in Side,
         <<list, side>> \in Queries(uses[u].kind),
         NEW i \in Mine(side, Of(uses[u], list)), i \in seen[u].held
  PROVE  <<list, i>> \in uses[u].found
<1>1. ListKnows(u)
  BY UseKinds DEF UsesInv
<1> DEFINE q == <<list, side>>
<1>2. q \in Queries(uses[u].kind) \ uses[u].todo /\ q[1] = list /\ q[2] = side
  OBVIOUS
<1> HIDE DEF q
<1> QED
  BY <1>1, <1>2 DEF ListKnows

LEMMA ListIsSound ==
  ASSUME UsesInv, NEW u \in Use, Listing(u), NEW list \in {1, 2},
         NEW i \in Invitation, <<list, i>> \in uses[u].found
  PROVE  /\ i \in seen[u].ever
         /\ \E side \in Side : /\ <<list, side>> \in Queries(uses[u].kind)
                               /\ i \in Mine(side, Of(uses[u], list))
<1>1. ListKnows(u)
  BY UseKinds DEF UsesInv
<1>2. PICK q \in Queries(uses[u].kind) :
        q[1] = list /\ i \in Mine(q[2], Of(uses[u], list))
  BY <1>1 DEF ListKnows
<1>3. q \in {1, 2} \X Side
  BY DEF Queries
<1>4. q = <<q[1], q[2]>> /\ q[2] \in Side
  BY <1>3
<1> QED
  BY <1>1, <1>2, <1>4 DEF ListKnows

\* The friends of a list that looked in both directions.
LEMMA FriendsListed ==
  ASSUME UsesInv, NEW u \in Use, Listing(u), uses[u].todo = {},
         NEW list \in {1, 2},
         \A side \in Side : <<list, side>> \in Queries(uses[u].kind)
  PROVE  /\ FriendsBy(seen[u].held, Of(uses[u], list))
              \subseteq FriendsIn(uses[u], list)
         /\ FriendsIn(uses[u], list)
              \subseteq FriendsBy(seen[u].ever, Of(uses[u], list))
<1> DEFINE a == Of(uses[u], list)
<1>1. ASSUME NEW i \in Mine("sender", a) \cup Mine("receiver", a),
             i \in seen[u].held
      PROVE  i \in Invitation /\ <<list, i>> \in uses[u].found
  <2>1. i \in Invitation
    BY DEF Mine
  <2>2. <<list, i>> \in uses[u].found
    BY <1>1, ListIsComplete DEF Side
  <2> QED
    BY <2>1, <2>2
<1>2. ASSUME NEW i \in Invitation, <<list, i>> \in uses[u].found
      PROVE  /\ i \in seen[u].ever
             /\ i \in Mine("sender", a) \cup Mine("receiver", a)
  BY <1>2, ListIsSound DEF Side
<1> HIDE DEF a
<1>3. FriendsBy(seen[u].held, a) \subseteq FriendsIn(uses[u], list)
  BY <1>1 DEF FriendsBy, FriendsIn, a
<1>4. FriendsIn(uses[u], list) \subseteq FriendsBy(seen[u].ever, a)
  BY <1>2 DEF FriendsBy, FriendsIn, a
<1> QED
  BY <1>3, <1>4 DEF a

(***************************************************************************)
(* The lists of friends, of mutual friends and of pending invitations miss *)
(* nothing that lasted from their first query to the last, and name nothing*)
(* that was so at no moment.                                               *)
(***************************************************************************)
THEOREM ListsAreRight == FriendshipSpec => []ListsAreTrue
<1>1. ASSUME UsesInv, NEW u \in Use, Listing(u), uses[u].todo = {}
      PROVE  /\ uses[u].kind = "friends" =>
                  /\ FriendsBy(seen[u].held, uses[u].me)
                       \subseteq FriendsIn(uses[u], 1)
                  /\ FriendsIn(uses[u], 1)
                       \subseteq FriendsBy(seen[u].ever, uses[u].me)
             /\ uses[u].kind = "mutual" =>
                  /\ FriendsBy(seen[u].held, uses[u].me)
                       \cap FriendsBy(seen[u].held, uses[u].him)
                       \subseteq MutualFriends(uses[u])
                  /\ MutualFriends(uses[u])
                       \subseteq FriendsBy(seen[u].ever, uses[u].me)
                         \cap FriendsBy(seen[u].ever, uses[u].him)
  <2>1. uses[u].kind \in {"friends", "mutual"} =>
          \A side \in Side : <<1, side>> \in Queries(uses[u].kind)
    BY DEF Queries, Side
  <2>2. uses[u].kind = "mutual" =>
          \A side \in Side : <<2, side>> \in Queries(uses[u].kind)
    BY DEF Queries, Side
  <2>3. Of(uses[u], 1) = uses[u].me /\ Of(uses[u], 2) = uses[u].him
    BY DEF Of
  <2>4. uses[u].kind \in {"friends", "mutual"} =>
          /\ FriendsBy(seen[u].held, uses[u].me) \subseteq FriendsIn(uses[u], 1)
          /\ FriendsIn(uses[u], 1) \subseteq FriendsBy(seen[u].ever, uses[u].me)
    BY <1>1, <2>1, <2>3, FriendsListed
  <2>5. uses[u].kind = "mutual" =>
          /\ FriendsBy(seen[u].held, uses[u].him) \subseteq FriendsIn(uses[u], 2)
          /\ FriendsIn(uses[u], 2) \subseteq FriendsBy(seen[u].ever, uses[u].him)
    BY <1>1, <2>2, <2>3, FriendsListed
  <2> QED
    BY <2>4, <2>5 DEF MutualFriends
<1>2. ASSUME UsesInv, NEW u \in Use, Listing(u), uses[u].todo = {},
             NEW side \in Side,
             Queries(uses[u].kind) = {<<1, side>>}
      PROVE  /\ seen[u].held \cap Mine(side, uses[u].me)
                  \subseteq Requests(uses[u])
             /\ Requests(uses[u])
                  \subseteq seen[u].ever \cap Mine(side, uses[u].me)
  <2>1. Of(uses[u], 1) = uses[u].me /\ Mine(side, uses[u].me) \subseteq Invitation
    BY DEF Of, Mine
  <2>2. ASSUME NEW i \in Mine(side, uses[u].me), i \in seen[u].held
        PROVE  <<1, i>> \in uses[u].found
    BY <1>2, <2>1, <2>2, ListIsComplete
  <2>3. ASSUME NEW i \in Invitation, <<1, i>> \in uses[u].found
        PROVE  i \in seen[u].ever /\ i \in Mine(side, uses[u].me)
    <3>1. PICK s \in Side : /\ <<1, s>> \in Queries(uses[u].kind)
                            /\ i \in Mine(s, Of(uses[u], 1))
                            /\ i \in seen[u].ever
      BY <1>2, <2>3, ListIsSound
    <3>2. s = side
      BY <1>2, <3>1
    <3> QED
      BY <2>1, <3>1, <3>2
  <2> QED
    BY <2>1, <2>2, <2>3 DEF Requests
<1>3. Queries("received") = {<<1, "receiver">>}
        /\ Queries("sent") = {<<1, "sender">>}
  BY DEF Queries, Side
<1>4. UsesInv => ListsAreTrue
  BY <1>1, <1>2, <1>3 DEF ListsAreTrue, Side
<1> QED
  BY UsesInvariance, <1>4, PTL
=============================================================================
