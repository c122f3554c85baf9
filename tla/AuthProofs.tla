----------------------------- MODULE AuthProofs -----------------------------
(***************************************************************************)
(* First the life of refresh tokens for every number of tabs, tokens,      *)
(* changes and faults: a token that was exchanged is dead, a live one is   *)
(* indexed or was swept, and a revocation leaves nothing alive that was    *)
(* written before it ended, unless it was swept.                           *)
(*                                                                         *)
(* The inductive invariant says of a revocation between its two calls that *)
(* every live token is in what it read or was written since (ReqOK, last   *)
(* part): when it ends, what is still live was swept.  The state's parts   *)
(* are parameters, so that one lemma serves all steps that issue nothing.  *)
(*                                                                         *)
(* Then the counters, cooldowns and mailed codes, for every number of      *)
(* clients, scenes, codes and faults.                                      *)
(***************************************************************************)
EXTENDS AuthTokens, AuthThrottle, TLAPS

ReqOK(r, n, lv, iss, pw) ==
  /\ r \in Request
  /\ r.token <= n
  /\ r.pc = "auth" => r.token = 0
  /\ r.pc = "set" => r.token \notin lv
  /\ r.pc \in {"read", "wipe"} => r.seen \in 1 .. pw
  /\ r.pc = "wipe" => \A j \in lv : j \in r.jtis \/ iss[j].swept

TokenOK(j, ix, iss, rv) ==
  /\ j \in ix \/ iss[j].swept
  /\ iss[j].since >= rv \/ iss[j].swept

StoreOK(lv, ix, iss, pw, rv) ==
  /\ iss \in Seq(Issue) /\ Len(iss) <= MaxTokens
  /\ lv \subseteq 1 .. Len(iss) /\ ix \subseteq 1 .. Len(iss)
  /\ pw \in 1 .. MaxChanges + 1
  /\ rv \in 0 .. pw
  /\ \A j \in lv : TokenOK(j, ix, iss, rv)
  /\ \A j \in 1 .. Len(iss) : iss[j].parent < j /\ iss[j].parent \notin lv

BrowserOK ==
  /\ storage \in 0 .. Len(issued)
  /\ mem \in [Tabs -> 0 .. Len(issued)]
  /\ faults \in 0 .. MaxFaults

ReqsOK ==
  /\ req = [t \in Tabs |-> req[t]]
  /\ \A t \in Tabs : ReqOK(req[t], Len(issued), live, issued, password)

Inv ==
  /\ StoreOK(live, index, issued, password, revoked)
  /\ BrowserOK
  /\ ReqsOK

-----------------------------------------------------------------------------
LEMMA InitInv == Init => Inv
<1> SUFFICES ASSUME Init PROVE Inv
  OBVIOUS
<1>1. StoreOK(live, index, issued, password, revoked)
  BY BoundsAssumption DEF Init, StoreOK, Issue
<1>2. BrowserOK
  BY BoundsAssumption DEF Init, BrowserOK
<1>3. NoRequest \in Request /\ NoRequest.token = 0 /\ NoRequest.pc = "idle"
  BY BoundsAssumption DEF NoRequest, Ask, Request
<1>4. \A t \in Tabs : ReqOK(NoRequest, Len(issued), live, issued, password)
  BY <1>3 DEF Init, ReqOK
<1>5. ReqsOK
  BY <1>4 DEF Init, ReqsOK
<1> QED
  BY <1>1, <1>2, <1>5 DEF Inv

\* The bounds of the stores in the form TypeOK states them.
LEMMA InvTypes ==
  ASSUME Inv
  PROVE  TypeOK
<1>1. Len(issued) \in Nat /\ Len(issued) <= MaxTokens
  BY DEF Inv, StoreOK
<1>2. 1 .. Len(issued) \subseteq Tokens /\ 0 .. Len(issued) \subseteq 0 .. MaxTokens
  BY <1>1, BoundsAssumption DEF Tokens
<1>3. live \subseteq Tokens /\ index \subseteq Tokens
  BY <1>2 DEF Inv, StoreOK
<1>4. storage \in 0 .. MaxTokens /\ mem \in [Tabs -> 0 .. MaxTokens] /\ faults \in 0 .. MaxFaults
  BY <1>2 DEF Inv, BrowserOK
<1>5. req \in [Tabs -> Request]
  BY DEF Inv, ReqsOK, ReqOK
<1>6. password \in 1 .. MaxChanges + 1 /\ revoked \in 0 .. MaxChanges + 1
  BY BoundsAssumption DEF Inv, StoreOK
<1>7. issued \in Seq(Issue)
  BY DEF Inv, StoreOK
<1> QED
  BY <1>1, <1>3, <1>4, <1>5, <1>6, <1>7 DEF TypeOK

\* A request keeps its part of the invariant while no token is issued, tokens die and
\* the password moves on.
LEMMA ReqKeeps ==
  ASSUME NEW r, NEW n \in Nat, NEW lv, NEW iss, NEW pw \in Nat, NEW lw, NEW pw2 \in Nat,
         ReqOK(r, n, lv, iss, pw), lw \subseteq lv, pw <= pw2
  PROVE  ReqOK(r, n, lw, iss, pw2)
<1>1. \A k \in 1 .. pw : k \in 1 .. pw2
  OBVIOUS
<1> QED
  BY <1>1 DEF ReqOK

\* Tokens that die leave the parents of the others dead and the rest as it was.
LEMMA StoreKeeps ==
  ASSUME NEW lv, NEW ix, NEW iss, NEW pw, NEW rv, NEW lw,
         StoreOK(lv, ix, iss, pw, rv), lw \subseteq lv
  PROVE  StoreOK(lw, ix, iss, pw, rv)
BY DEF StoreOK

\* What a step that issues no token has to show: the new request, and how the stores
\* moved.
LEMMA StepKeeps ==
  ASSUME Inv, NEW t \in Tabs, NEW R,
         req' = [req EXCEPT ![t] = R],
         issued' = issued,
         live' \subseteq live,
         password' \in Nat, password <= password',
         ReqOK(R, Len(issued), live', issued, password'),
         StoreOK(live', index', issued, password', revoked'),
         BrowserOK'
  PROVE  Inv'
<1>1. password \in Nat /\ Len(issued) \in Nat
  BY DEF Inv, StoreOK
<1>2. ASSUME NEW u \in Tabs PROVE ReqOK(req'[u], Len(issued), live', issued, password')
  <2>1. CASE u = t
    BY <2>1 DEF Inv, ReqsOK
  <2>2. CASE u # t
    <3>1. req'[u] = req[u]
      BY <2>2 DEF Inv, ReqsOK
    <3>2. ReqOK(req[u], Len(issued), live, issued, password)
      BY DEF Inv, ReqsOK
    <3>3. ReqOK(req[u], Len(issued), live', issued, password')
      BY <1>1, <3>2, ReqKeeps
    <3> QED
      BY <3>1, <3>3
  <2> QED
    BY <2>1, <2>2
<1>3. req' = [u \in Tabs |-> req'[u]]
  BY DEF Inv, ReqsOK
<1>4. ReqsOK'
  BY <1>2, <1>3 DEF ReqsOK
<1> QED
  BY <1>4 DEF Inv

\* The same for a step that changes its request and nothing in the stores.
LEMMA RequestKeeps ==
  ASSUME Inv, NEW t \in Tabs, NEW R,
         req' = [req EXCEPT ![t] = R],
         UNCHANGED <<live, index, issued, revoked, password>>,
         ReqOK(R, Len(issued), live, issued, password),
         BrowserOK'
  PROVE  Inv'
<1>1. password \in Nat
  BY DEF Inv, StoreOK
<1>2. StoreOK(live', index', issued, password', revoked')
  BY DEF Inv
<1>3. password' \in Nat /\ password <= password' /\ live' \subseteq live
  BY <1>1
<1>4. ReqOK(R, Len(issued), live', issued, password')
  OBVIOUS
<1> QED
  BY <1>2, <1>3, <1>4, StepKeeps

LEMMA BrowserKeeps ==
  ASSUME Inv, UNCHANGED <<issued, storage, mem>>, faults' \in 0 .. MaxFaults
  PROVE  BrowserOK'
BY DEF Inv, BrowserOK

\* A request that answers, and one that is sent, carry no obligation but their types.
LEMMA AnsweredOK ==
  ASSUME NEW op \in {"none", "login", "refresh", "logout", "change", "reset"},
         NEW s \in {"ok", "denied", "down"}, NEW n \in Nat, n <= MaxTokens,
         NEW k \in 0 .. n, NEW lv, NEW iss, NEW pw
  PROVE  ReqOK(Answer(op, k, s), n, lv, iss, pw)
<1>1. 0 \in 0 .. MaxChanges + 1 /\ k \in 0 .. MaxTokens /\ k <= n
  BY BoundsAssumption
<1>2. Answer(op, k, s) \in Request
  BY <1>1 DEF Answer, Request
<1>3. Answer(op, k, s).token = k /\ Answer(op, k, s).pc = "reply"
  BY DEF Answer
<1> QED
  BY <1>1, <1>2, <1>3 DEF ReqOK

LEMMA AskedOK ==
  ASSUME NEW op \in {"none", "login", "refresh", "logout", "change", "reset"},
         NEW pc \in {"idle", "auth", "validate", "revoke", "clear", "look", "read", "consume"},
         NEW n \in Nat, n <= MaxTokens, NEW k \in 0 .. n,
         NEW pw \in 1 .. MaxChanges + 1, NEW v \in 0 .. pw, NEW lv, NEW iss,
         pc = "auth" => k = 0,
         pc = "read" => v # 0
  PROVE  ReqOK(Ask(op, pc, k, v), n, lv, iss, pw)
<1>1. k \in 0 .. MaxTokens /\ v \in 0 .. MaxChanges + 1 /\ k <= n
  BY BoundsAssumption
<1>2. Ask(op, pc, k, v) \in Request
  BY <1>1 DEF Ask, Request
<1>3. v # 0 => v \in 1 .. pw
  OBVIOUS
<1>4. /\ Ask(op, pc, k, v).token = k /\ Ask(op, pc, k, v).pc = pc
      /\ Ask(op, pc, k, v).op = op /\ Ask(op, pc, k, v).seen = v
  BY DEF Ask
<1> QED
  BY <1>1, <1>2, <1>3, <1>4 DEF ReqOK

LEMMA Facts ==
  ASSUME Inv, NEW t \in Tabs
  PROVE  /\ Len(issued) \in Nat /\ Len(issued) <= MaxTokens
         /\ password \in 1 .. MaxChanges + 1 /\ revoked \in 0 .. password
         /\ storage \in 0 .. Len(issued) /\ mem[t] \in 0 .. Len(issued)
         /\ ReqOK(req[t], Len(issued), live, issued, password)
         /\ req[t].op \in {"none", "login", "refresh", "logout", "change", "reset"}
         /\ req[t].token \in 0 .. Len(issued)
<1>1. ReqOK(req[t], Len(issued), live, issued, password)
  BY DEF Inv, ReqsOK
<1>2. Len(issued) \in Nat /\ Len(issued) <= MaxTokens
  BY DEF Inv, StoreOK
<1>3. req[t] \in Request /\ req[t].token <= Len(issued)
  BY <1>1 DEF ReqOK
<1>4. req[t].op \in {"none", "login", "refresh", "logout", "change", "reset"}
      /\ req[t].token \in 0 .. MaxTokens
  BY <1>3 DEF Request
<1>5. req[t].token \in 0 .. Len(issued)
  BY <1>2, <1>3, <1>4, BoundsAssumption
<1>6. password \in 1 .. MaxChanges + 1 /\ revoked \in 0 .. password
  BY DEF Inv, StoreOK
<1>7. storage \in 0 .. Len(issued) /\ mem[t] \in 0 .. Len(issued)
  BY DEF Inv, BrowserOK
<1> QED
  BY <1>1, <1>2, <1>4, <1>5, <1>6, <1>7

\* A step that only answers.
LEMMA AnswersKeeps ==
  ASSUME Inv, NEW t \in Tabs, NEW s \in {"ok", "denied", "down"}, Answers(t, s),
         UNCHANGED <<tokens, password>>, BrowserOK'
  PROVE  Inv'
<1>1. ReqOK(Answer(req[t].op, req[t].token, s), Len(issued), live, issued, password)
  BY Facts, AnsweredOK
<1> QED
  BY <1>1, RequestKeeps DEF Answers, tokens

LEMMA SendsKeeps ==
  ASSUME Inv, NEW t \in Tabs, NEW op \in {"login", "refresh", "logout", "change", "reset"},
         NEW pc \in {"auth", "validate", "revoke", "look"},
         NEW k \in 0 .. Len(issued), NEW v \in 0 .. password, Sends(t, op, pc, k, v),
         pc = "auth" => k = 0, pc = "revoke" => op = "logout",
         UNCHANGED <<tokens, password>>, BrowserOK'
  PROVE  Inv'
<1>1. ReqOK(Ask(op, pc, k, v), Len(issued), live, issued, password)
  BY Facts, AskedOK
<1> QED
  BY <1>1, RequestKeeps DEF Sends, tokens

\* A request that moves on with nothing to check at its next call.
LEMMA GoesKeeps ==
  ASSUME Inv, NEW t \in Tabs, NEW pc \in {"set", "commit"}, Goes(t, pc),
         pc = "set" => req[t].token \notin live',
         live' \subseteq live, UNCHANGED <<issued, password>>,
         StoreOK(live', index', issued, password, revoked'), BrowserOK'
  PROVE  Inv'
<1> DEFINE R == [req[t] EXCEPT !.pc = pc]
<1>1. req[t] \in Request /\ req[t].token <= Len(issued)
  BY Facts DEF ReqOK
<1>2. R \in Request /\ R.pc = pc /\ R.token = req[t].token /\ R.seen = req[t].seen
  BY <1>1 DEF Request
<1>3. ReqOK(R, Len(issued), live', issued, password)
  BY <1>1, <1>2 DEF ReqOK
<1>4. req' = [req EXCEPT ![t] = R]
  BY DEF Goes, Inv, ReqsOK
<1>5. issued' = issued /\ password' \in Nat /\ password <= password' /\ live' \subseteq live
  BY Facts
<1>6. ReqOK(R, Len(issued), live', issued, password')
  BY <1>3
<1>7. StoreOK(live', index', issued, password', revoked') /\ BrowserOK'
  OBVIOUS
<1> HIDE DEF R
<1> QED
  BY <1>4, <1>5, <1>6, <1>7, StepKeeps

-----------------------------------------------------------------------------
LEMMA SubmitLoginOK ==
  ASSUME Inv, NEW t \in Tabs, SubmitLogin(t)
  PROVE  Inv'
<1>1. PICK v \in {0, password} : Sends(t, "login", "auth", 0, v)
  BY DEF SubmitLogin
<1>2. v \in 0 .. password /\ 0 \in 0 .. Len(issued)
  BY Facts
<1>3. UNCHANGED <<tokens, password, browser, faults>>
  BY DEF SubmitLogin
<1>4. BrowserOK'
  BY <1>3, BrowserKeeps DEF tokens, browser, Inv, BrowserOK
<1> QED
  BY <1>1, <1>2, <1>3, <1>4, SendsKeeps

LEMMA AuthenticateOK ==
  ASSUME Inv, NEW t \in Tabs, Authenticate(t)
  PROVE  Inv'
<1>1. UNCHANGED <<tokens, password, browser, faults>>
  BY DEF Authenticate
<1>2. BrowserOK'
  BY <1>1, BrowserKeeps DEF tokens, browser, Inv, BrowserOK
<1>3. CASE Answers(t, "denied")
  BY <1>1, <1>2, <1>3, AnswersKeeps
<1>4. CASE req[t].seen = password /\ Goes(t, "set")
  <2>1. req[t].token = 0
    BY <1>4, Facts DEF Authenticate, At, ReqOK
  <2>2. 0 \notin live
    BY Facts DEF Inv, StoreOK
  <2>3. StoreOK(live', index', issued, password, revoked') /\ live' = live
    BY <1>1 DEF Inv, tokens
  <2> QED
    BY <1>1, <1>2, <1>4, <2>1, <2>2, <2>3, GoesKeeps DEF tokens
<1> QED
  BY <1>3, <1>4 DEF Authenticate

LEMMA FinishLoginOK ==
  ASSUME Inv, NEW t \in Tabs, FinishLogin(t)
  PROVE  Inv'
<1>1. BrowserOK'
  BY BrowserKeeps DEF FinishLogin, tokens, browser, Inv, BrowserOK
<1> QED
  BY <1>1, AnswersKeeps DEF FinishLogin

LEMMA ValidateTokenOK ==
  ASSUME Inv, NEW t \in Tabs, ValidateToken(t)
  PROVE  Inv'
<1>1. UNCHANGED <<tokens, password, browser, faults>>
  BY DEF ValidateToken
<1>2. BrowserOK'
  BY <1>1, BrowserKeeps DEF tokens, browser, Inv, BrowserOK
<1>3. CASE Answers(t, "denied")
  BY <1>1, <1>2, <1>3, AnswersKeeps
<1>4. CASE req' = [req EXCEPT ![t] = Ask("refresh", "revoke", req[t].token, 0)]
  <2>1. ReqOK(Ask("refresh", "revoke", req[t].token, 0), Len(issued), live, issued, password)
    <3>1. 0 \in 0 .. password
      BY Facts
    <3> QED
      BY <3>1, Facts, AskedOK
  <2> QED
    BY <1>1, <1>2, <1>4, <2>1, RequestKeeps DEF tokens
<1> QED
  BY <1>3, <1>4 DEF ValidateToken

LEMMA RevokeTokenOK ==
  ASSUME Inv, NEW t \in Tabs, RevokeToken(t)
  PROVE  Inv'
<1> DEFINE k == req[t].token
<1>1. live' = live \ {k} /\ index' = IF k \in live THEN index \ {k} ELSE index
  BY DEF RevokeToken
<1>2. UNCHANGED <<issued, revoked, password, browser, faults>>
  BY DEF RevokeToken
<1>3. BrowserOK'
  BY <1>2, BrowserKeeps DEF browser, Inv, BrowserOK
<1>4. StoreOK(live, index, issued, password, revoked)
  BY DEF Inv
<1>5. \A j \in live' : TokenOK(j, index', issued, revoked)
  BY <1>1, <1>4 DEF StoreOK, TokenOK
<1>6. StoreOK(live', index', issued, password, revoked)
  BY <1>1, <1>4, <1>5 DEF StoreOK
<1>7. CASE req[t].op = "refresh" /\ Goes(t, "set")
  <2>1. req[t].token \notin live'
    BY <1>1
  <2> QED
    BY <1>1, <1>2, <1>3, <1>6, <1>7, <2>1, GoesKeeps
<1>8. CASE Answers(t, "ok")
  <2>1. ReqOK(Answer(req[t].op, req[t].token, "ok"), Len(issued), live', issued, password)
    BY Facts, AnsweredOK
  <2>2. issued' = issued /\ password' \in Nat /\ password <= password' /\ live' \subseteq live
    BY <1>1, <1>2, Facts
  <2>3. ReqOK(Answer(req[t].op, req[t].token, "ok"), Len(issued), live', issued, password')
    BY <1>2, <2>1
  <2>4. StoreOK(live', index', issued, password', revoked')
    BY <1>2, <1>6
  <2>5. req' = [req EXCEPT ![t] = Answer(req[t].op, req[t].token, "ok")]
    BY <1>8 DEF Answers
  <2> QED
    BY <1>3, <2>2, <2>3, <2>4, <2>5, StepKeeps
<1> QED
  BY <1>7, <1>8 DEF RevokeToken

LEMMA SubmitLogoutOK ==
  ASSUME Inv, NEW t \in Tabs, SubmitLogout(t)
  PROVE  Inv'
<1>1. BrowserOK'
  BY BrowserKeeps DEF SubmitLogout, tokens, browser, Inv, BrowserOK
<1>2. mem[t] \in 0 .. Len(issued) /\ 0 \in 0 .. password
  BY Facts
<1> QED
  BY <1>1, <1>2, SendsKeeps DEF SubmitLogout

\* A token is issued: the others keep their part, the new one is indexed.
LEMMA IssueTokenOK ==
  ASSUME Inv, NEW t \in Tabs, IssueToken(t)
  PROVE  Inv'
<1> DEFINE n == Len(issued)
           e == [parent |-> req[t].token, since |-> revoked, swept |-> Sweeping]
<1>1. /\ n \in Nat /\ n + 1 \in 1 .. MaxTokens
      /\ password \in 1 .. MaxChanges + 1 /\ revoked \in 0 .. password
      /\ req[t].token \in 0 .. n /\ req[t].token \notin live
      /\ req[t].op \in {"none", "login", "refresh", "logout", "change", "reset"}
  BY Facts DEF IssueToken, NewToken, Tokens, ReqOK
<1>2. e \in Issue
  BY <1>1, BoundsAssumption DEF Issue, Sweeping
<1>3. e.parent = req[t].token /\ e.since = revoked /\ e.swept = Sweeping
  OBVIOUS
<1>4. /\ live' = live \union {n + 1} /\ index' = index \union {n + 1}
      /\ issued' = Append(issued, e)
      /\ UNCHANGED <<revoked, password, storage, mem, faults>>
      /\ req' = [req EXCEPT ![t] = IF req[t].op = "login" THEN Ask("login", "clear", n + 1, 0)
                                   ELSE Answer(req[t].op, n + 1, "ok")]
  BY DEF IssueToken, NewToken, browser
<1>5. StoreOK(live, index, issued, password, revoked)
  BY DEF Inv
<1>6. issued \in Seq(Issue) /\ live \subseteq 1 .. n /\ index \subseteq 1 .. n
  BY <1>5 DEF StoreOK
<1>7. /\ issued' \in Seq(Issue) /\ Len(issued') = n + 1
      /\ issued'[n + 1] = e /\ \A j \in 1 .. n : issued'[j] = issued[j]
  BY <1>2, <1>4, <1>6
<1>8. \A j \in 1 .. n :
         issued[j] \in Issue /\ issued[j].parent < j /\ issued[j].parent \notin live
  BY <1>5, <1>6 DEF StoreOK
<1>9. /\ ReqOK(req[t], n, live, issued, password)
      /\ \A u \in Tabs : ReqOK(req[u], n, live, issued, password)
  BY DEF Inv, ReqsOK
<1> HIDE DEF n, e
<1>10. StoreOK(live', index', issued', password', revoked')
  <2>1. live' \subseteq 1 .. n + 1 /\ index' \subseteq 1 .. n + 1
    <3>1. \A j \in 1 .. n : j \in 1 .. n + 1
      BY <1>1
    <3>2. n + 1 \in 1 .. n + 1
      BY <1>1
    <3> QED
      BY <1>4, <1>6, <3>1, <3>2
  <2>2. ASSUME NEW j \in live' PROVE TokenOK(j, index', issued', revoked')
    <3>1. CASE j = n + 1
      <4>1. issued'[j] = e /\ j \in index'
        BY <1>4, <1>7, <3>1
      <4>2. issued'[j].since >= revoked'
        BY <1>1, <1>3, <1>4, <4>1
      <4> QED
        BY <4>1, <4>2 DEF TokenOK
    <3>2. CASE j # n + 1
      <4>1. j \in live /\ j \in 1 .. n /\ issued'[j] = issued[j]
        BY <1>4, <1>6, <1>7, <3>2
      <4>2. TokenOK(j, index, issued, revoked)
        BY <1>5, <4>1 DEF StoreOK
      <4> QED
        BY <1>4, <4>1, <4>2 DEF TokenOK
    <3> QED
      BY <3>1, <3>2
  <2>3. ASSUME NEW j \in 1 .. n + 1
        PROVE  issued'[j].parent < j /\ issued'[j].parent \notin live'
    <3>1. CASE j = n + 1
      <4>1. issued'[j].parent = req[t].token
        BY <1>7, <1>3, <3>1
      <4> QED
        BY <1>1, <1>4, <3>1, <4>1
    <3>2. CASE j # n + 1
      <4>1. j \in 1 .. n /\ issued'[j] = issued[j]
        BY <1>1, <1>7, <3>2
      <4>2. issued[j].parent < j /\ issued[j].parent \notin live
        BY <1>8, <4>1
      <4>3. issued[j] \in Issue
        BY <1>8, <4>1
      <4>4. issued[j].parent \in Nat
        BY <4>3, BoundsAssumption DEF Issue
      <4> QED
        BY <1>1, <1>4, <4>1, <4>2, <4>4
    <3> QED
      BY <3>1, <3>2
  <2>4. n + 1 <= MaxTokens /\ password' \in 1 .. MaxChanges + 1 /\ revoked' \in 0 .. password'
    BY <1>1, <1>4, BoundsAssumption
  <2> QED
    BY <1>7, <2>1, <2>2, <2>3, <2>4 DEF StoreOK
<1>11. ASSUME NEW u \in Tabs, u # t PROVE ReqOK(req'[u], Len(issued'), live', issued', password')
  <2>1. req'[u] = req[u]
    BY <1>4, <1>11 DEF Inv, ReqsOK
  <2>2. ReqOK(req[u], n, live, issued, password)
    BY <1>9
  <2>3. req[u] \in Request /\ req[u].token \in Nat
    BY <2>2, BoundsAssumption DEF ReqOK, Request
  <2>4. req[u].token <= n + 1
    BY <1>1, <2>2, <2>3 DEF ReqOK
  <2>5. ASSUME req[u].pc = "set" PROVE req[u].token \notin live'
    BY <1>1, <1>4, <2>2, <2>3, <2>5 DEF ReqOK
  <2>6. ASSUME req[u].pc = "wipe", NEW j \in live' PROVE j \in req[u].jtis \/ issued'[j].swept
    <3>1. CASE j = n + 1
      BY <1>7, <1>3, <2>6, <3>1 DEF Sweeping
    <3>2. CASE j # n + 1
      BY <1>4, <1>6, <1>7, <2>2, <2>6, <3>2 DEF ReqOK
    <3> QED
      BY <3>1, <3>2
  <2>7. ReqOK(req[u], n + 1, live', issued', password')
    BY <1>4, <2>2, <2>3, <2>4, <2>5, <2>6 DEF ReqOK
  <2> QED
    BY <1>7, <2>1, <2>7
<1>12. ReqOK(req'[t], Len(issued'), live', issued', password')
  <2>1. n + 1 \in 0 .. n + 1 /\ n + 1 \in Nat /\ n + 1 <= MaxTokens /\ 0 \in 0 .. password
    BY <1>1
  <2>2. /\ ReqOK(Ask("login", "clear", n + 1, 0), n + 1, live', issued', password)
        /\ ReqOK(Answer(req[t].op, n + 1, "ok"), n + 1, live', issued', password)
    BY <1>1, <2>1, AskedOK, AnsweredOK
  <2>3. req'[t] \in {Ask("login", "clear", n + 1, 0), Answer(req[t].op, n + 1, "ok")}
    BY <1>4 DEF Inv, ReqsOK
  <2> QED
    BY <1>4, <1>7, <2>2, <2>3
<1>13. ReqsOK'
  <2>1. req' = [u \in Tabs |-> req'[u]]
    BY <1>4 DEF Inv, ReqsOK
  <2> QED
    BY <1>11, <1>12, <2>1 DEF ReqsOK
<1>14. BrowserOK'
  <2>1. 0 .. n \subseteq 0 .. n + 1
    BY <1>1
  <2> QED
    BY <1>4, <1>7, <2>1 DEF Inv, BrowserOK, n
<1> QED
  BY <1>10, <1>13, <1>14 DEF Inv

-----------------------------------------------------------------------------
LEMMA SubmitPasswordOK ==
  ASSUME Inv, NEW t \in Tabs, SubmitPassword(t)
  PROVE  Inv'
<1>1. UNCHANGED <<tokens, password, browser, faults>>
  BY DEF SubmitPassword
<1>2. BrowserOK'
  BY <1>1, BrowserKeeps DEF tokens, browser, Inv, BrowserOK
<1>3. 0 \in 0 .. Len(issued) /\ 0 \in 0 .. password /\ password \in 0 .. password
  BY Facts
<1>4. ASSUME NEW v \in {0, password}, Sends(t, "change", "look", 0, v) PROVE Inv'
  <2>1. v \in 0 .. password
    BY <1>3
  <2> QED
    BY <1>1, <1>2, <1>3, <1>4, <2>1, SendsKeeps
<1>5. ASSUME Sends(t, "reset", "look", 0, 0) PROVE Inv'
  BY <1>1, <1>2, <1>3, <1>5, SendsKeeps
<1> QED
  BY <1>4, <1>5 DEF SubmitPassword

LEMMA LookUpAccountOK ==
  ASSUME Inv, NEW t \in Tabs, LookUpAccount(t)
  PROVE  Inv'
<1>1. UNCHANGED <<tokens, password, browser, faults>>
  BY DEF LookUpAccount
<1>2. BrowserOK'
  BY <1>1, BrowserKeeps DEF tokens, browser, Inv, BrowserOK
<1>3. ASSUME Answers(t, "denied") PROVE Inv'
  BY <1>1, <1>2, <1>3, AnswersKeeps
<1>4. ASSUME Goes(t, "commit") PROVE Inv'
  <2>1. StoreOK(live', index', issued, password, revoked') /\ live' \subseteq live
    BY <1>1 DEF Inv, tokens
  <2> QED
    BY <1>1, <1>2, <1>4, <2>1, GoesKeeps DEF tokens
<1> QED
  BY <1>3, <1>4 DEF LookUpAccount

LEMMA CommitPasswordOK ==
  ASSUME Inv, NEW t \in Tabs, CommitPassword(t)
  PROVE  Inv'
<1> DEFINE R == Ask(req[t].op, "read", 0, password + 1)
<1>1. password' = password + 1 /\ password + 1 \in 1 .. MaxChanges + 1
  BY Facts, BoundsAssumption DEF CommitPassword
<1>2. UNCHANGED <<live, index, issued, revoked, storage, mem, faults>>
  BY DEF CommitPassword, tokens, browser
<1>3. BrowserOK'
  BY <1>2, BrowserKeeps DEF Inv, BrowserOK
<1>4. ReqOK(R, Len(issued), live, issued, password + 1)
  <2>1. 0 \in 0 .. Len(issued) /\ password + 1 \in 0 .. password + 1 /\ password + 1 # 0
    BY <1>1, Facts
  <2> QED
    BY <1>1, <2>1, Facts, AskedOK
<1>5. StoreOK(live', index', issued', password', revoked')
  <2>1. revoked' \in 0 .. password'
    BY <1>1, <1>2, Facts
  <2> QED
    BY <1>1, <1>2, <2>1 DEF Inv, StoreOK
<1>6. /\ req' = [req EXCEPT ![t] = R]
      /\ issued' = issued /\ live' \subseteq live
      /\ password' \in Nat /\ password <= password'
      /\ ReqOK(R, Len(issued), live', issued, password')
  BY <1>1, <1>2, <1>4, Facts DEF CommitPassword
<1>7. StoreOK(live', index', issued, password', revoked')
  BY <1>2, <1>5
<1> HIDE DEF R
<1> QED
  BY <1>3, <1>6, <1>7, StepKeeps

\* What the revocation read is, at that moment, every live token that was not swept.
LEMMA ReadIndexOK ==
  ASSUME Inv, NEW t \in Tabs, ReadIndex(t)
  PROVE  Inv'
<1> DEFINE R == [req[t] EXCEPT !.pc = "wipe", !.jtis = index]
<1>1. UNCHANGED <<live, index, issued, revoked, password, storage, mem, faults>>
  BY DEF ReadIndex, tokens, browser
<1>2. BrowserOK'
  BY <1>1, BrowserKeeps DEF Inv, BrowserOK
<1>3. req[t].pc = "read" /\ ReqOK(req[t], Len(issued), live, issued, password)
  BY Facts DEF ReadIndex
<1>4. req[t] \in Request /\ index \subseteq Tokens
  BY <1>3, InvTypes DEF ReqOK, TypeOK
<1>5. /\ R \in Request /\ R.pc = "wipe" /\ R.jtis = index
      /\ R.token = req[t].token /\ R.seen = req[t].seen
  BY <1>4 DEF Request
<1>6. \A j \in live : j \in index \/ issued[j].swept
  BY DEF Inv, StoreOK, TokenOK
<1>7. req' = [req EXCEPT ![t] = R]
  BY DEF ReadIndex, Inv, ReqsOK
<1> HIDE DEF R
<1>8. ReqOK(R, Len(issued), live, issued, password)
  BY <1>3, <1>5, <1>6 DEF ReqOK
<1> QED
  BY <1>1, <1>2, <1>7, <1>8, RequestKeeps

\* What is live after a revocation was swept.
LEMMA WipeTokensOK ==
  ASSUME Inv, NEW t \in Tabs, WipeTokens(t)
  PROVE  Inv'
<1> DEFINE R == Ask(req[t].op, "consume", 0, 0)
<1>1. /\ live' = live \ req[t].jtis /\ index' = {} /\ req' = [req EXCEPT ![t] = R]
      /\ revoked' = IF revoked < req[t].seen THEN req[t].seen ELSE revoked
      /\ UNCHANGED <<issued, password, storage, mem, faults>>
  BY DEF WipeTokens, browser
<1>2. BrowserOK'
  BY <1>1, BrowserKeeps DEF Inv, BrowserOK
<1>3. req[t].pc = "wipe" /\ ReqOK(req[t], Len(issued), live, issued, password)
  BY Facts DEF WipeTokens
<1>4. \A j \in live' : issued[j].swept
  BY <1>1, <1>3 DEF ReqOK
<1>5. \A j \in live' : TokenOK(j, index', issued, revoked')
  BY <1>4 DEF TokenOK
<1>6. revoked' \in 0 .. password
  BY <1>1, <1>3, Facts DEF ReqOK
<1>7. StoreOK(live', index', issued, password', revoked')
  BY <1>1, <1>5, <1>6 DEF Inv, StoreOK
<1>8. ReqOK(R, Len(issued), live', issued, password')
  <2>1. 0 \in 0 .. Len(issued) /\ 0 \in 0 .. password
    BY Facts
  <2>2. ReqOK(R, Len(issued), live', issued, password)
    BY <2>1, Facts, AskedOK
  <2> QED
    BY <1>1, <2>2
<1>9. issued' = issued /\ live' \subseteq live /\ password' \in Nat /\ password <= password'
  BY <1>1, Facts
<1> HIDE DEF R
<1> QED
  BY <1>1, <1>2, <1>7, <1>8, <1>9, StepKeeps

LEMMA FinishPasswordOK ==
  ASSUME Inv, NEW t \in Tabs, FinishPassword(t)
  PROVE  Inv'
<1>1. BrowserOK'
  BY BrowserKeeps DEF FinishPassword, tokens, browser, Inv, BrowserOK
<1> QED
  BY <1>1, AnswersKeeps DEF FinishPassword

-----------------------------------------------------------------------------
LEMMA RedisFailsOK ==
  ASSUME Inv, NEW t \in Tabs, RedisFails(t)
  PROVE  Inv'
<1>1. faults' \in 0 .. MaxFaults
  BY BoundsAssumption DEF RedisFails, Inv, BrowserOK
<1>2. BrowserOK'
  BY <1>1, BrowserKeeps DEF RedisFails, tokens, browser
<1> QED
  BY <1>2, AnswersKeeps DEF RedisFails

LEMMA TokenExpiresOK ==
  ASSUME Inv, TokenExpires
  PROVE  Inv'
<1>1. live' \subseteq live
  BY DEF TokenExpires
<1>2. UNCHANGED <<index, issued, revoked, password, storage, mem, req, faults>>
  BY DEF TokenExpires, browser
<1>3. StoreOK(live', index', issued', password', revoked')
  <2>1. StoreOK(live', index, issued, password, revoked)
    BY <1>1, StoreKeeps DEF Inv
  <2> QED
    BY <1>2, <2>1
<1>4. BrowserOK'
  BY <1>2, BrowserKeeps DEF Inv, BrowserOK
<1>5. ASSUME NEW u \in Tabs PROVE ReqOK(req'[u], Len(issued'), live', issued', password')
  <2>1. Len(issued) \in Nat /\ password \in Nat /\ password <= password
        /\ ReqOK(req[u], Len(issued), live, issued, password)
    BY Facts
  <2>2. ReqOK(req[u], Len(issued), live', issued, password)
    BY <1>1, <2>1, ReqKeeps
  <2> QED
    BY <1>2, <2>2
<1>6. ReqsOK'
  BY <1>2, <1>5 DEF Inv, ReqsOK
<1> QED
  BY <1>3, <1>4, <1>6 DEF Inv

\* The auth store takes pairs from localStorage or from its own request.
LEMMA InitializeOK ==
  ASSUME Inv, NEW t \in Tabs, Initialize(t)
  PROVE  Inv'
<1>1. UNCHANGED <<live, index, issued, revoked, password, faults>>
  BY DEF Initialize, tokens
<1>2. BrowserOK'
  <2>1. storage \in 0 .. Len(issued) /\ 0 \in 0 .. Len(issued)
    BY Facts
  <2> QED
    BY <1>1, <2>1 DEF Initialize, ClearAuth, SetTokens, Inv, BrowserOK
<1>3. ASSUME Sends(t, "refresh", "validate", storage, 0) PROVE Inv'
  <2>1. storage \in 0 .. Len(issued) /\ 0 \in 0 .. password
    BY Facts
  <2> QED
    BY <1>1, <1>2, <1>3, <2>1, SendsKeeps DEF tokens
<1>4. ASSUME req' = req PROVE Inv'
  BY <1>1, <1>2, <1>4 DEF Inv, ReqsOK
<1> QED
  BY <1>3, <1>4 DEF Initialize

LEMMA ReceiveOK ==
  ASSUME Inv, NEW t \in Tabs, Receive(t)
  PROVE  Inv'
<1>1. UNCHANGED <<live, index, issued, revoked, password, faults>>
  BY DEF Receive, tokens
<1>2. BrowserOK'
  <2>1. req[t].token \in 0 .. Len(issued) /\ 0 \in 0 .. Len(issued)
    BY Facts
  <2> QED
    BY <1>1, <2>1 DEF Receive, ClearAuth, SetTokens, browser, Inv, BrowserOK
<1>3. ReqOK(NoRequest, Len(issued), live, issued, password)
  <2>1. 0 \in 0 .. Len(issued) /\ 0 \in 0 .. password
    BY Facts
  <2> QED
    BY <2>1, Facts, AskedOK DEF NoRequest
<1> QED
  BY <1>1, <1>2, <1>3, RequestKeeps DEF Receive

LEMMA StepInv == Inv /\ [Next]_vars => Inv'
<1> SUFFICES ASSUME Inv, [Next]_vars PROVE Inv'
  OBVIOUS
<1>1. ASSUME NEW t \in Tabs, SignIn(t) PROVE Inv'
  BY <1>1, SubmitLoginOK, AuthenticateOK, IssueTokenOK, FinishLoginOK DEF SignIn
<1>2. ASSUME NEW t \in Tabs, Rotate(t) PROVE Inv'
  BY <1>2, ValidateTokenOK, RevokeTokenOK, SubmitLogoutOK DEF Rotate
<1>3. ASSUME NEW t \in Tabs, ChangePassword(t) PROVE Inv'
  BY <1>3, SubmitPasswordOK, LookUpAccountOK, CommitPasswordOK, ReadIndexOK, WipeTokensOK,
     FinishPasswordOK DEF ChangePassword
<1>4. ASSUME UNCHANGED vars PROVE Inv'
  BY <1>4 DEF vars, Inv, BrowserOK, ReqsOK
<1> QED
  BY <1>1, <1>2, <1>3, <1>4, InitializeOK, ReceiveOK, RedisFailsOK, TokenExpiresOK DEF Next

-----------------------------------------------------------------------------
LEMMA AlwaysInv == Spec => []Inv
<1>1. Init => Inv
  BY InitInv
<1>2. Inv /\ [Next]_vars => Inv'
  BY StepInv
<1> QED
  BY <1>1, <1>2, PTL DEF Spec

\* The keys, the index, the row, the requests and the stores of the tabs stay within
\* their types.
THEOREM TypeCorrect == Spec => []TypeOK
<1>1. Inv => TypeOK
  BY InvTypes
<1> QED
  BY <1>1, AlwaysInv, PTL

\* A live refresh token is in its user's index, where revocation looks for it, or was
\* written between the two calls of a revocation (set_refresh_token,
\* revoke_all_refresh_tokens_for_user).
THEOREM LiveTokensAreIndexed == Spec => []LiveIsIndexed
<1>1. Inv => LiveIsIndexed
  BY DEF Inv, StoreOK, TokenOK, LiveIsIndexed
<1> QED
  BY <1>1, AlwaysInv, PTL

\* What a finished revocation of a changed password leaves alive was written after it had
\* finished, or between the two calls of a revocation (revoke_all_refresh_tokens_for_user).
THEOREM OldTokensDie == Spec => []OldTokensAreDead
<1>1. Inv => OldTokensAreDead
  BY DEF Inv, StoreOK, TokenOK, OldTokensAreDead
<1> QED
  BY <1>1, AlwaysInv, PTL

\* Of a token and the one it was exchanged for, the older is dead (refresh_token_pair).
THEOREM RotationKills == Spec => []RotatedIsDead
<1>1. Inv => RotatedIsDead
  BY DEF Inv, StoreOK, RotatedIsDead, Issued
<1> QED
  BY <1>1, AlwaysInv, PTL
-----------------------------------------------------------------------------
(***************************************************************************)
(* The counters, the cooldowns and the codes (AuthThrottle).  ThrottleInv  *)
(* says of a scene that, while no send outlived its cooldown or failed     *)
(* after its mail, the one send under way is the one that holds it         *)
(* (MailOK), and of codes that a number belongs to one scene, that a code  *)
(* not yet stored was never checked, and that a code with one holder at a  *)
(* time worked once exactly when its holder is about to consume it or it   *)
(* is stored no more (CodesOK).                                            *)
(***************************************************************************)
Pending == {"find", "post", "store"}
Sending == Pending \union {"release"}
Using   == {"check", "look", "commit", "consume"}
Mailing == {"block", "tally", "window", "limit", "cool"}

CallOK(r) ==
  /\ r \in Call
  /\ r.pc \in Sending \union Mailing \union Using => r.scene \in Scenes
  /\ r.pc \in Sending \union Using => r.code > 0
  /\ r.code > 0 => r.scene \in Scenes
  /\ r.pc = "find" => r.scene = "reset"

\* Code k was made for scene s.
Holds(s, k) ==
  /\ k > 0
  /\ \/ code[s] = k
     \/ mail[s].last = k
     \/ \E c \in Clients : call[c].scene = s /\ call[c].code = k

\* Code k is stored nowhere and will not be.
Dead(k) ==
  /\ \A s \in Scenes : code[s] # k
  /\ \A c \in Clients : call[c].pc \in Pending => call[c].code # k

\* Code k was checked by one request at a time.
OnceOK(k) ==
  /\ k \notin used.twice
  /\ \A c, d \in HoldersOf(k) : c = d
  /\ \A c \in HoldersOf(k) : k \in used.once <=> call[c].pc = "consume"
  /\ k \in used.once /\ HoldersOf(k) = {} => Dead(k)

UsedOK ==
  /\ used.once \subseteq 1 .. codes
  /\ misses = 0 => \A k \in 1 .. MaxCodes : k \notin used.shared => OnceOK(k)

OwnedOK ==
  \A s \in Scenes, k \in 1 .. MaxCodes : Holds(s, k) =>
    k <= codes /\ (\A t \in Scenes : Holds(t, k) => s = t)

\* A code on its way is stored nowhere, and others at most try it.
FreshOK(c) ==
  call[c].pc \in Pending =>
    /\ \A s \in Scenes : code[s] # call[c].code
    /\ \A d \in Clients : d # c /\ call[d].code = call[c].code => call[d].pc = "check"

CodesOK == UsedOK /\ OwnedOK /\ \A c \in Clients : FreshOK(c)

\* The stored code is the newest mail's, and a running cooldown has a reason.
Settled(s) ==
  /\ code[s] \in {0, mail[s].last}
  /\ cooldown[s] => mail[s].state = "left" \/ (s = "reset" /\ mail[s].state = "nobody")

SceneOK(s) ==
  /\ \A c, d \in SendsOf(s) : c = d
  /\ SendsOf(s) # {} => cooldown[s]
  /\ misses = 0 =>
       /\ SendsOf(s) = {} => Settled(s)
       /\ \A c \in SendsOf(s) :
            IF call[c].pc = "store" THEN mail[s].last = call[c].code /\ mail[s].state = "left"
                                    ELSE code[s] \in {0, mail[s].last}

MailOK == \A s \in Scenes : ~mail[s].unsure => SceneOK(s)

CallsOK == \A c \in Clients : CallOK(call[c])

ThrottleInv == ThrottleTypeOK /\ CallsOK /\ CodesOK /\ MailOK /\ CountersExpire

-----------------------------------------------------------------------------
\* What a step of client c does to the requests.
Others(c) == call' \in [Clients -> Call] /\ \A d \in Clients : d # c => call'[d] = call[d]

Moved(c, p) ==
  /\ Others(c)
  /\ call'[c].pc = p /\ call'[c].op = call[c].op /\ call'[c].scene = call[c].scene
  /\ call'[c].code = call[c].code

Ended(c) ==
  /\ Others(c)
  /\ call'[c] = NoCall /\ call'[c].pc = "idle" /\ call'[c].scene = "none" /\ call'[c].code = 0

LEMMA MovedIs ==
  ASSUME call \in [Clients -> Call], NEW c \in Clients, NEW p \in CallPcs, CallGoes(c, p)
  PROVE  Moved(c, p)
<1> DEFINE new == [call[c] EXCEPT !.pc = p]
<1>1. /\ new \in Call /\ new.pc = p /\ new.op = call[c].op /\ new.scene = call[c].scene
      /\ new.code = call[c].code
  BY DEF Call
<1>2. call' = [call EXCEPT ![c] = new]
  BY DEF CallGoes
<1> HIDE DEF new
<1> QED
  BY <1>1, <1>2 DEF Moved, Others

LEMMA NoCallIs == NoCall \in Call /\ NoCall.pc = "idle" /\ NoCall.scene = "none" /\ NoCall.code = 0
  BY ThrottleAssumption DEF NoCall, Call, CallPcs

LEMMA EndedIs ==
  ASSUME call \in [Clients -> Call], NEW c \in Clients, CallEnds(c)
  PROVE  Ended(c)
  BY NoCallIs DEF CallEnds, Ended, Others

LEMMA StartedIs ==
  ASSUME call \in [Clients -> Call], NEW c \in Clients,
         NEW op \in {"login", "send", "register", "change", "reset"}, NEW p \in CallPcs,
         NEW s \in Scenes \union {"none"}, NEW k \in 0 .. MaxCodes,
         CallStarts(c, op, p, s, k)
  PROVE  /\ Others(c) /\ call[c].pc = "idle"
         /\ call'[c].op = op /\ call'[c].pc = p /\ call'[c].scene = s /\ call'[c].code = k
<1> DEFINE new == [NoCall EXCEPT !.op = op, !.pc = p, !.scene = s, !.code = k]
<1>1. /\ new \in Call
      /\ new.op = op /\ new.pc = p /\ new.scene = s /\ new.code = k
  <2> DEFINE r1 == [NoCall EXCEPT !.op = op]
             r2 == [r1 EXCEPT !.pc = p]
             r3 == [r2 EXCEPT !.scene = s]
             r4 == [r3 EXCEPT !.code = k]
  <2>1. r1 \in Call /\ r1.op = op
    BY NoCallIs DEF Call
  <2> HIDE DEF r1
  <2>2. r2 \in Call /\ r2.op = op /\ r2.pc = p
    BY <2>1 DEF Call
  <2> HIDE DEF r2
  <2>3. r3 \in Call /\ r3.op = op /\ r3.pc = p /\ r3.scene = s
    BY <2>2 DEF Call
  <2> HIDE DEF r3
  <2>4. r4 \in Call /\ r4.op = op /\ r4.pc = p /\ r4.scene = s /\ r4.code = k
    BY <2>3 DEF Call
  <2>5. new = r4
    BY DEF r3, r2, r1
  <2> QED
    BY <2>4, <2>5
<1>2. call' = [call EXCEPT ![c] = new] /\ call[c].pc = "idle"
  BY DEF CallStarts, CallAt
<1> HIDE DEF new
<1> QED
  BY <1>1, <1>2 DEF Others

\* The steps that also write the request's count or code.
LEMMA CountedIs ==
  ASSUME call \in [Clients -> Call], NEW c \in Clients, NEW p \in CallPcs,
         NEW k \in 0 .. MailLimit + 1,
         \/ call' = [call EXCEPT ![c].n = k, ![c].pc = p]
         \/ call' = [call EXCEPT ![c].pc = p, ![c].n = k]
  PROVE  Moved(c, p)
<1> DEFINE old  == call[c]
           pOnly == [old EXCEPT !.pc = p]
           kOnly == [old EXCEPT !.n = k]
           both == [kOnly EXCEPT !.pc = p]
           again == [pOnly EXCEPT !.n = k]
           Good(r) == /\ r \in Call /\ r.op = old.op /\ r.scene = old.scene /\ r.code = old.code
                      /\ r.pc = p
<1>1. kOnly \in Call /\ kOnly.op = old.op /\ kOnly.scene = old.scene /\ kOnly.code = old.code
  BY DEF Call
<1>2. Good(pOnly)
  BY DEF Call
<1>3. call' = [call EXCEPT ![c] = both] \/ call' = [call EXCEPT ![c] = again]
  OBVIOUS
<1> HIDE DEF old, pOnly, kOnly
<1>4. Good(both)
  BY <1>1 DEF Call
<1>5. Good(again)
  BY <1>2 DEF Call
<1> HIDE DEF both, again
<1> QED
  BY <1>3, <1>4, <1>5 DEF Moved, Others, old

LEMMA TakenIs ==
  ASSUME call \in [Clients -> Call], NEW c \in Clients, NEW p \in CallPcs,
         NEW k \in 0 .. MaxCodes, call' = [call EXCEPT ![c].pc = p, ![c].code = k]
  PROVE  /\ Others(c) /\ call'[c].op = call[c].op /\ call'[c].scene = call[c].scene
         /\ call'[c].code = k /\ call'[c].pc = p
<1> DEFINE new == [call[c] EXCEPT !.pc = p, !.code = k]
<1>1. /\ new \in Call /\ new.pc = p /\ new.op = call[c].op /\ new.scene = call[c].scene
      /\ new.code = k
  BY DEF Call
<1>2. call' = [call EXCEPT ![c] = new]
  OBVIOUS
<1> HIDE DEF new
<1> QED
  BY <1>1, <1>2 DEF Others

\* What decides about codes and cooldowns stays as it is.
Still == <<cooldown, code, codes, mail, used, misses>>' = <<cooldown, code, codes, mail, used, misses>>

\* A request that starts, or one that goes on without writing.
Starts(c) ==
  /\ Others(c) /\ call[c].pc = "idle"
  /\ \/ call'[c].pc = "count" /\ call'[c].code = 0
     \/ call'[c].pc = "block" /\ call'[c].code = 0 /\ call'[c].scene \in Scenes
     \/ /\ call'[c].pc = "check" /\ call'[c].scene \in Scenes
        /\ call'[c].code = mail[call'[c].scene].last /\ call'[c].code > 0

Walks(c) ==
  \/ \E p \in CallPcs \ (Sending \union Using) :
       /\ Moved(c, p) /\ call[c].pc \notin Sending \union Using
       /\ p \in Mailing => call[c].pc \in Mailing
  \/ call[c].pc = "find" /\ Moved(c, "post")
  \/ call[c].pc = "post" /\ Moved(c, "release")
  \/ call[c].pc = "look" /\ Moved(c, "commit")

\* The requests that write.
Takes(c) ==
  /\ AcquireCooldown(c) /\ ~cooldown[call[c].scene] /\ codes # MaxCodes
  /\ Others(c) /\ call'[c].op = call[c].op /\ call'[c].scene = call[c].scene
  /\ call'[c].code = codes + 1
  /\ call'[c].pc = IF call[c].scene = "reset" THEN "find" ELSE "post"

Finds(c) == FindMailbox(c) /\ ~account /\ Ended(c)

Posts(c) ==
  /\ PostMail(c) /\ Moved(c, "store")
  /\ mail' = [mail EXCEPT ![call[c].scene].last = call[c].code,
                          ![call[c].scene].state = "left"]

\* The mail left, yet the send is taken as failed.
Doubts(c) ==
  /\ PostMail(c) /\ Moved(c, "release")
  /\ mail' = [mail EXCEPT ![call[c].scene] =
                [last |-> call[c].code, state |-> "left", unsure |-> TRUE]]

Passes(c) ==
  /\ CheckCode(c) /\ Moved(c, "look") /\ code[call[c].scene] = call[c].code
  /\ used' = [used EXCEPT !.shared =
                IF HoldersOf(call[c].code) = {} THEN @ ELSE @ \union {call[c].code}]

Commits(c) ==
  /\ CommitChange(c) /\ Moved(c, "consume")
  /\ used' = [used EXCEPT !.once  = @ \union {call[c].code},
                          !.twice = @ \union ({call[c].code} \intersect used.once)]

Fails(c) ==
  /\ Ended(c) /\ misses' = misses + 1
  /\ <<cooldown, code, codes, mail, used>>' = <<cooldown, code, codes, mail, used>>

Steps(c) ==
  \/ Still /\ (Starts(c) \/ Walks(c) \/ (Ended(c) /\ call[c].pc \notin Sending \union {"consume"}))
  \/ Takes(c) \/ Finds(c) \/ Posts(c) \/ Doubts(c) \/ Passes(c) \/ Commits(c) \/ Fails(c)
  \/ StoreCode(c) /\ Ended(c)
  \/ ReleaseCooldown(c) /\ Ended(c)
  \/ ConsumeCode(c) /\ Ended(c)

Acts(c) == Login(c) \/ SendCode(c) \/ UseCode(c) \/ StoreFails(c)

\* Every step of a request is one of these.
LEMMA ActKinds ==
  ASSUME ThrottleInv, NEW c \in Clients, Acts(c)
  PROVE  Steps(c)
<1>1. call \in [Clients -> Call] /\ codes \in 0 .. MaxCodes
  BY DEF ThrottleInv, ThrottleTypeOK
<1>2. CASE Login(c)
  <2>1. CASE SubmitCredentials(c)
    <3>1. CallStarts(c, "login", "count", "none", 0)
      BY <2>1 DEF SubmitCredentials
    <3>2. /\ "login" \in {"login", "send", "register", "change", "reset"} /\ "count" \in CallPcs
          /\ "none" \in Scenes \union {"none"} /\ 0 \in 0 .. MaxCodes
      BY ThrottleAssumption DEF CallPcs
    <3>3. /\ Others(c) /\ call[c].pc = "idle" /\ call'[c].pc = "count" /\ call'[c].code = 0
      BY <1>1, <3>1, <3>2, StartedIs, ZenonT(60)
    <3> QED
      BY <2>1, <3>3 DEF SubmitCredentials, Steps, Still, Starts
  <2>2. CASE ReadFailures(c)
    BY <1>1, <2>2, MovedIs, EndedIs
       DEF ReadFailures, Steps, Still, Walks, CallPcs, CallAt, Sending, Using, Mailing, Pending
  <2>3. CASE CheckPassword(c)
    BY <1>1, <2>3, MovedIs
       DEF CheckPassword, Steps, Still, Walks, CallPcs, CallAt, Sending, Using, Mailing, Pending
  <2>4. CASE CountFailure(c)
    BY <1>1, <2>4, MovedIs, EndedIs
       DEF CountFailure, Steps, Still, Walks, CallPcs, CallAt, Sending, Using, Mailing, Pending
  <2>5. CASE StartFailWindow(c) \/ ClearFailures(c)
    BY <1>1, <2>5, EndedIs
       DEF StartFailWindow, ClearFailures, Steps, Still, CallAt, Sending, Pending
  <2> QED
    BY <1>2, <2>1, <2>2, <2>3, <2>4, <2>5 DEF Login
<1>3. CASE SendCode(c)
  <2>1. CASE SubmitSend(c)
    <3>1. PICK s \in Scenes : CallStarts(c, "send", "block", s, 0)
      BY <2>1 DEF SubmitSend
    <3>2. /\ Others(c) /\ call[c].pc = "idle" /\ call'[c].pc = "block"
          /\ call'[c].scene = s /\ call'[c].code = 0
      BY <1>1, <3>1, StartedIs, ThrottleAssumption DEF CallPcs
    <3> QED
      BY <2>1, <3>2 DEF SubmitSend, Steps, Still, Starts
  <2>2. CASE CheckBlock(c)
    BY <1>1, <2>2, MovedIs, EndedIs
       DEF CheckBlock, Steps, Still, Walks, CallPcs, CallAt, Sending, Using, Mailing, Pending
  <2>3. CASE TallyMail(c)
    <3>1. /\ call[c].pc = "tally"
          /\ \E p \in {"window", "limit"}, n \in 0 .. MailLimit + 1 :
               call' = [call EXCEPT ![c].n = n, ![c].pc = p]
      <4>1. call[c].scene \in Scenes
        BY <2>3 DEF TallyMail, CallAt, ThrottleInv, CallsOK, CallOK, Mailing
      <4>2. mails \in [Scenes -> Counter(MailLimit + 1)]
        BY DEF ThrottleInv, ThrottleTypeOK
      <4>3. mails'[call[c].scene].count \in 0 .. MailLimit + 1
        BY <2>3, <4>1, <4>2, ThrottleAssumption DEF TallyMail, Incr, Counter
      <4> QED
        BY <2>3, <4>3 DEF TallyMail, CallAt
    <3>2. Moved(c, "window") \/ Moved(c, "limit")
      BY <1>1, <3>1, CountedIs, Zenon DEF CallPcs
    <3> QED
      BY <2>3, <3>1, <3>2
         DEF TallyMail, Steps, Still, Walks, CallPcs, Sending, Using, Mailing, Pending
  <2>4. CASE StartMailWindow(c)
    BY <1>1, <2>4, MovedIs
       DEF StartMailWindow, Steps, Still, Walks, CallPcs, CallAt, Sending, Using, Mailing, Pending
  <2>5. CASE CheckLimit(c)
    <3>1. CASE call[c].n > MailLimit
      BY <1>1, <2>5, <3>1, EndedIs DEF CheckLimit, Steps, Still, CallAt, Sending, Pending
    <3>2. CASE ~(call[c].n > MailLimit)
      <4>1. call[c].pc = "limit" /\ call' = [call EXCEPT ![c].pc = "cool", ![c].n = 0]
        BY <2>5, <3>2 DEF CheckLimit, CallAt
      <4>2. Moved(c, "cool")
        <5>1. 0 \in 0 .. MailLimit + 1 /\ "cool" \in CallPcs
          BY ThrottleAssumption DEF CallPcs
        <5> QED
          BY <1>1, <4>1, <5>1, CountedIs, Zenon
      <4> QED
        BY <2>5, <4>1, <4>2
           DEF CheckLimit, Steps, Still, Walks, CallPcs, Sending, Using, Mailing, Pending
    <3> QED
      BY <3>1, <3>2
  <2>6. CASE AcquireCooldown(c)
    <3>1. CASE cooldown[call[c].scene] \/ codes = MaxCodes
      BY <1>1, <2>6, <3>1, EndedIs DEF AcquireCooldown, Steps, Still, CallAt, Sending, Pending
    <3>2. CASE ~(cooldown[call[c].scene] \/ codes = MaxCodes)
      <4> DEFINE p == IF call[c].scene = "reset" THEN "find" ELSE "post"
      <4>1. p \in CallPcs /\ call' = [call EXCEPT ![c].pc = p, ![c].code = codes + 1]
        BY <2>6, <3>2 DEF AcquireCooldown, CallPcs
      <4>2. codes + 1 \in 0 .. MaxCodes
        BY <1>1, <3>2, ThrottleAssumption
      <4>3. /\ Others(c) /\ call'[c].op = call[c].op /\ call'[c].scene = call[c].scene
            /\ call'[c].code = codes + 1 /\ call'[c].pc = p
        <5> HIDE DEF p
        <5> QED
          BY <1>1, <4>1, <4>2, TakenIs, Zenon
      <4> QED
        BY <2>6, <3>2, <4>3 DEF Steps, Takes
    <3> QED
      BY <3>1, <3>2
  <2>7. CASE FindMailbox(c)
    BY <1>1, <2>7, MovedIs, EndedIs DEF FindMailbox, Steps, Still, Walks, Finds, CallPcs, CallAt
  <2>8. CASE PostMail(c)
    BY <1>1, <2>8, MovedIs DEF PostMail, Steps, Still, Walks, Posts, Doubts, CallPcs, CallAt
  <2>9. CASE StoreCode(c) \/ ReleaseCooldown(c)
    BY <1>1, <2>9, EndedIs DEF StoreCode, ReleaseCooldown, Steps
  <2> QED
    BY <1>3, <2>1, <2>2, <2>3, <2>4, <2>5, <2>6, <2>7, <2>8, <2>9 DEF SendCode
<1>4. CASE UseCode(c)
  <2>1. CASE SubmitCode(c)
    <3>1. PICK s \in Scenes : mail[s].last # 0 /\ CallStarts(c, s, "check", s, mail[s].last)
      BY <2>1 DEF SubmitCode
    <3>2. mail[s].last \in 0 .. MaxCodes /\ mail[s].last > 0
      BY <3>1, ThrottleAssumption DEF ThrottleInv, ThrottleTypeOK
    <3>3. /\ Others(c) /\ call[c].pc = "idle" /\ call'[c].pc = "check"
          /\ call'[c].scene = s /\ call'[c].code = mail[s].last
      BY <1>1, <3>1, <3>2, StartedIs, ScenesAssumption DEF CallPcs
    <3> QED
      BY <2>1, <3>2, <3>3 DEF SubmitCode, Steps, Still, Starts
  <2>2. CASE CheckCode(c)
    BY <1>1, <2>2, MovedIs, EndedIs DEF CheckCode, Steps, Still, Passes, CallPcs, CallAt, Sending, Pending
  <2>3. CASE MatchAccount(c)
    BY <1>1, <2>3, MovedIs, EndedIs DEF MatchAccount, Steps, Still, Walks, CallPcs, CallAt, Sending, Pending
  <2>4. CASE CommitChange(c)
    BY <1>1, <2>4, MovedIs, EndedIs DEF CommitChange, Steps, Still, Commits, CallPcs, CallAt, Sending, Pending
  <2>5. CASE ConsumeCode(c)
    BY <1>1, <2>5, EndedIs DEF ConsumeCode, Steps
  <2> QED
    BY <1>4, <2>1, <2>2, <2>3, <2>4, <2>5 DEF UseCode
<1>5. CASE StoreFails(c)
  BY <1>1, <1>5, EndedIs DEF StoreFails, Steps, Fails
<1> QED
  BY <1>2, <1>3, <1>4, <1>5 DEF Acts

LEMMA StepsOthers ==
  ASSUME NEW c \in Clients, Steps(c)
  PROVE  Others(c)
  BY DEF Steps, Starts, Walks, Moved, Ended, Takes, Finds, Posts, Doubts, Passes, Commits, Fails

\* The other steps leave the requests alone.
LEMMA StepKinds ==
  ASSUME ThrottleInv, [ThrottleNext]_throttleVars
  PROVE  \/ Still /\ call' = call
         \/ CooldownEnds \/ CodeExpires
         \/ \E c \in Clients : Steps(c)
<1>1. CASE UNCHANGED throttleVars \/ FailWindowEnds \/ MailWindowEnds \/ BlockEnds
  BY <1>1 DEF throttleVars, FailWindowEnds, MailWindowEnds, BlockEnds, Still
<1>2. CASE \E c \in Clients : Acts(c)
  BY <1>2, ActKinds
<1> QED
  BY <1>1, <1>2 DEF ThrottleNext, Acts

LEMMA CallsStep ==
  ASSUME ThrottleInv, [ThrottleNext]_throttleVars
  PROVE  call' \in [Clients -> Call] /\ CallsOK'
<1>1. call \in [Clients -> Call] /\ CallsOK /\ codes \in 0 .. MaxCodes
  BY DEF ThrottleInv, ThrottleTypeOK
<1>2. CASE call' = call
  BY <1>1, <1>2 DEF CallsOK
<1>3. ASSUME NEW c \in Clients, Steps(c) PROVE call' \in [Clients -> Call] /\ CallsOK'
  <2>1. Others(c)
    BY <1>3, StepsOthers
  <2>2. CallOK(call'[c])
    <3>1. call'[c] \in Call /\ call'[c].code \in 0 .. MaxCodes /\ CallOK(call[c])
      BY <1>1, <2>1 DEF Others, Call, CallsOK
    <3>2. CASE Starts(c)
      BY <3>1, <3>2, ThrottleAssumption DEF Starts, CallOK, Sending, Using, Mailing, Pending
    <3>3. CASE Walks(c)
      BY <3>1, <3>3 DEF Walks, Moved, CallOK, Sending, Using, Mailing, Pending
    <3>4. CASE Ended(c)
      BY <3>1, <3>4 DEF Ended, CallOK, Sending, Using, Mailing, Pending
    <3>5. CASE Takes(c)
      <4>1. call[c].pc = "cool" /\ codes + 1 > 0
        BY <1>1, <3>5, ThrottleAssumption DEF Takes, AcquireCooldown, CallAt
      <4> QED
        BY <3>1, <3>5, <4>1 DEF Takes, CallOK, Sending, Using, Mailing, Pending
    <3>6. CASE Posts(c) \/ Doubts(c)
      BY <3>1, <3>6 DEF Posts, Doubts, PostMail, CallAt, Moved, CallOK, Sending, Using, Mailing, Pending
    <3>7. CASE Passes(c) \/ Commits(c)
      BY <3>1, <3>7
         DEF Passes, Commits, CheckCode, CommitChange, CallAt, Moved, CallOK, Sending, Using, Mailing,
             Pending
    <3> QED
      BY <1>3, <3>2, <3>3, <3>4, <3>5, <3>6, <3>7 DEF Steps, Finds, Fails
  <2> QED
    BY <1>1, <2>1, <2>2 DEF Others, CallsOK
<1> QED
  BY <1>2, <1>3, StepKinds DEF CooldownEnds, CodeExpires

\* The fields of a record that INCR, EXPIRE and DEL leave.
LEMMA CounterTypes ==
  ASSUME NEW limit \in Nat, NEW key \in Counter(limit)
  PROVE  /\ NoKey \in Counter(limit)
         /\ Expire(key) \in Counter(limit)
         /\ Expire(key).count = key.count /\ Expire(key).ttl = (key.count > 0)
         /\ Incr(key, limit) \in Counter(limit) /\ Incr(key, limit).ttl = key.ttl
<1>1. NoKey \in Counter(limit)
  BY DEF Counter, NoKey
<1>2. key.count \in 0 .. limit /\ key.ttl \in BOOLEAN
  BY DEF Counter
<1>3. /\ Expire(key) \in Counter(limit)
      /\ Expire(key).count = key.count /\ Expire(key).ttl = (key.count > 0)
  <2> DEFINE b == key.count > 0
  <2>1. b \in BOOLEAN /\ Expire(key) = [key EXCEPT !.ttl = b]
    BY <1>2 DEF Expire
  <2> HIDE DEF b
  <2>2. /\ [key EXCEPT !.ttl = b] \in Counter(limit)
        /\ [key EXCEPT !.ttl = b].count = key.count /\ [key EXCEPT !.ttl = b].ttl = b
    BY <2>1 DEF Counter
  <2> QED
    BY <2>1, <2>2, Zenon DEF b
<1>4. (IF key.count < limit THEN key.count + 1 ELSE key.count) \in 0 .. limit
  BY <1>2
<1>5. Incr(key, limit) \in Counter(limit) /\ Incr(key, limit).ttl = key.ttl
  BY <1>2, <1>4 DEF Counter, Incr
<1> QED
  BY <1>1, <1>3, <1>5

Mails == [Scenes -> [last : 0 .. MaxCodes, state : MailStates, unsure : BOOLEAN]]

LEMMA UsedAfter ==
  ASSUME used \in Uses, NEW k \in 1 .. MaxCodes,
         used' = [used EXCEPT !.once = @ \union {k}, !.twice = @ \union ({k} \intersect used.once)]
  PROVE  /\ used' \in Uses
         /\ used'.once = used.once \union {k}
         /\ used'.twice = used.twice \union ({k} \intersect used.once)
         /\ used'.shared = used.shared
<1> DEFINE a == used.once \union {k}
           b == used.twice \union ({k} \intersect used.once)
           first == [used EXCEPT !.once = a]
           second == [first EXCEPT !.twice = b]
<1>1. a \in SUBSET (1 .. MaxCodes) /\ b \in SUBSET (1 .. MaxCodes)
  BY DEF Uses
<1>2. used' = second
  OBVIOUS
<1> HIDE DEF a, b
<1>3. /\ first \in Uses /\ first.once = a /\ first.twice = used.twice
      /\ first.shared = used.shared
  BY <1>1 DEF Uses
<1> HIDE DEF first
<1>4. second \in Uses /\ second.once = a /\ second.twice = b /\ second.shared = used.shared
  BY <1>1, <1>3 DEF Uses
<1> QED
  BY <1>2, <1>4 DEF a, b

LEMMA TypesStep ==
  ASSUME ThrottleInv, [ThrottleNext]_throttleVars
  PROVE  ThrottleTypeOK'
<1>1. call' \in [Clients -> Call]
  BY CallsStep
<1> USE DEF ThrottleInv, ThrottleTypeOK
<1>2. CASE UNCHANGED throttleVars
  BY <1>2 DEF throttleVars
<1>3. ASSUME NEW c \in Clients, Login(c) PROVE ThrottleTypeOK'
  <2>1. fails' = fails \/ fails' \in {NoKey, Expire(fails), Incr(fails, Threshold)}
    BY <1>3
       DEF Login, SubmitCredentials, ReadFailures, CheckPassword, CountFailure, StartFailWindow,
           ClearFailures
  <2>2. fails' \in Counter(Threshold)
    <3>1. Threshold \in Nat /\ fails \in Counter(Threshold)
      BY ThrottleAssumption
    <3>2. {NoKey, Expire(fails), Incr(fails, Threshold)} \subseteq Counter(Threshold)
      BY <3>1, CounterTypes, Zenon
    <3> QED
      BY <2>1, <3>1, <3>2
  <2> QED
    BY <1>1, <1>3, <2>2
       DEF Login, SubmitCredentials, ReadFailures, CheckPassword, CountFailure, StartFailWindow,
           ClearFailures
<1>4. ASSUME NEW c \in Clients, SendCode(c) PROVE ThrottleTypeOK'
  <2> DEFINE s == call[c].scene
  <2>1. call[c].pc \in Mailing \union Sending => s \in Scenes /\ call[c].code \in 0 .. MaxCodes
    BY DEF CallsOK, CallOK, Call
  <2>2. CASE SubmitSend(c) \/ CheckBlock(c) \/ CheckLimit(c)
    BY <1>1, <2>2 DEF SubmitSend, CheckBlock, CheckLimit
  <2>3. CASE TallyMail(c) \/ StartMailWindow(c)
    <3>1. s \in Scenes /\ MailLimit + 1 \in Nat
      BY <2>1, <2>3, ThrottleAssumption DEF TallyMail, StartMailWindow, CallAt, Mailing
    <3>2. mails' \in [Scenes -> Counter(MailLimit + 1)]
      BY <2>3, <3>1, CounterTypes DEF TallyMail, StartMailWindow
    <3> QED
      BY <1>1, <2>3, <3>2 DEF TallyMail, StartMailWindow
  <2>4. CASE AcquireCooldown(c)
    <3>1. s \in Scenes
      BY <2>1, <2>4 DEF AcquireCooldown, CallAt, Mailing
    <3>2. mail' \in Mails
      <4>1. mail \in Mails /\ (mail' = mail \/ mail' = [mail EXCEPT ![s].state = "due"])
        BY <2>4 DEF AcquireCooldown, Mails
      <4> QED
        BY <3>1, <4>1 DEF MailStates, Mails
    <3>3. codes' \in 0 .. MaxCodes /\ cooldown' \in [Scenes -> BOOLEAN]
      <4>1. codes' = codes \/ (codes # MaxCodes /\ codes' = codes + 1)
        BY <2>4 DEF AcquireCooldown
      <4>2. cooldown' = cooldown \/ cooldown' = [cooldown EXCEPT ![s] = TRUE]
        BY <2>4 DEF AcquireCooldown
      <4> QED
        <5>1. codes \in 0 .. MaxCodes /\ cooldown \in [Scenes -> BOOLEAN]
          OBVIOUS
        <5>2. codes' \in 0 .. MaxCodes
          BY <4>1, <5>1, ThrottleAssumption
        <5>3. cooldown' \in [Scenes -> BOOLEAN]
          BY <4>2, <5>1
        <5> QED
          BY <5>2, <5>3
    <3> QED
      BY <1>1, <2>4, <3>2, <3>3 DEF AcquireCooldown, Mails
  <2>5. CASE FindMailbox(c) \/ PostMail(c)
    <3>1. s \in Scenes /\ call[c].code \in 0 .. MaxCodes
      BY <2>1, <2>5 DEF FindMailbox, PostMail, CallAt, Sending, Pending
    <3>2. mail' \in Mails
      <4>1. mail \in Mails
        BY DEF Mails
      <4>2. \/ mail' = mail \/ mail' = [mail EXCEPT ![s].state = "nobody"]
            \/ mail' = [mail EXCEPT ![s].last = call[c].code, ![s].state = "left"]
            \/ mail' = [mail EXCEPT ![s] = [last |-> call[c].code, state |-> "left", unsure |-> TRUE]]
        BY <2>5 DEF FindMailbox, PostMail
      <4>3. "nobody" \in MailStates /\ [mail EXCEPT ![s].state = "nobody"] \in Mails
        BY <4>1 DEF MailStates, Mails
      <4>4. ASSUME NEW k \in 0 .. MaxCodes, mail' = [mail EXCEPT ![s].last = k, ![s].state = "left"]
            PROVE  mail' \in Mails
        BY <3>1, <4>1, <4>4 DEF MailStates, Mails
      <4>5. [last |-> call[c].code, state |-> "left", unsure |-> TRUE]
              \in [last : 0 .. MaxCodes, state : MailStates, unsure : BOOLEAN]
        BY <3>1 DEF MailStates
      <4>6. [mail EXCEPT ![s] = [last |-> call[c].code, state |-> "left", unsure |-> TRUE]] \in Mails
        BY <3>1, <4>1, <4>5 DEF Mails
      <4> QED
        BY <3>1, <4>1, <4>2, <4>3, <4>4, <4>6
    <3> QED
      BY <1>1, <2>5, <3>2 DEF FindMailbox, PostMail, Mails
  <2>6. CASE StoreCode(c) \/ ReleaseCooldown(c)
    <3>1. s \in Scenes /\ call[c].code \in 0 .. MaxCodes
      BY <2>1, <2>6 DEF StoreCode, ReleaseCooldown, CallAt, Sending, Pending
    <3> QED
      BY <1>1, <2>6, <3>1 DEF StoreCode, ReleaseCooldown
  <2> QED
    BY <1>4, <2>2, <2>3, <2>4, <2>5, <2>6 DEF SendCode
<1>5. ASSUME NEW c \in Clients, UseCode(c) PROVE ThrottleTypeOK'
  <2>1. CASE SubmitCode(c) \/ MatchAccount(c)
    BY <1>1, <2>1 DEF SubmitCode, MatchAccount
  <2>k. call[c].pc \in Using => call[c].scene \in Scenes /\ call[c].code \in 1 .. MaxCodes
    BY ThrottleAssumption DEF CallsOK, CallOK, Call
  <2>2. CASE ConsumeCode(c)
    <3>1. call[c].scene \in Scenes /\ 0 \in 0 .. MaxCodes
      BY <2>2, <2>k, ThrottleAssumption DEF ConsumeCode, CallAt, Using
    <3> QED
      BY <1>1, <2>2, <3>1 DEF ConsumeCode
  <2>3. CASE CheckCode(c)
    <3>1. used' \in Uses
      <4>1. call[c].code \in 1 .. MaxCodes /\ used \in Uses
        BY <2>3, <2>k DEF CheckCode, CallAt, Using
      <4>2. \/ used' = used
            \/ \E x \in {used.shared, used.shared \union {call[c].code}} :
                 used' = [used EXCEPT !.shared = x]
        BY <2>3 DEF CheckCode
      <4> QED
        BY <4>1, <4>2 DEF Uses
    <3> QED
      BY <1>1, <2>3, <3>1 DEF CheckCode
  <2>4. CASE CommitChange(c)
    <3>1. used' \in Uses
      <4>1. call[c].code \in 1 .. MaxCodes /\ used \in Uses
        BY <2>4, <2>k DEF CommitChange, CallAt, Using
      <4>2. CASE used' = used
        BY <4>1, <4>2
      <4>3. CASE used' = [used EXCEPT !.once  = @ \union {call[c].code},
                                      !.twice = @ \union ({call[c].code} \intersect used.once)]
        BY <4>1, <4>3, UsedAfter
      <4> QED
        BY <2>4, <4>2, <4>3 DEF CommitChange
    <3> QED
      BY <1>1, <2>4, <3>1 DEF CommitChange
  <2> QED
    BY <1>5, <2>1, <2>2, <2>3, <2>4 DEF UseCode
<1>6. ASSUME NEW c \in Clients, StoreFails(c) PROVE ThrottleTypeOK'
  BY <1>1, <1>6, ThrottleAssumption DEF StoreFails
<1>7. CASE FailWindowEnds \/ MailWindowEnds \/ BlockEnds
  <2>1. MailLimit + 1 \in Nat
    BY ThrottleAssumption
  <2>2. NoKey \in Counter(MailLimit + 1) /\ NoKey \in Counter(Threshold)
    BY <2>1, ThrottleAssumption DEF NoKey, Counter
  <2> QED
    BY <1>7, <2>2 DEF FailWindowEnds, MailWindowEnds, BlockEnds
<1>8. CASE CooldownEnds
  <2>1. PICK s \in Scenes :
          /\ cooldown' = [cooldown EXCEPT ![s] = FALSE]
          /\ mail' = [mail EXCEPT ![s].unsure = @ \/ SendsOf(s) # {}]
    BY <1>8 DEF CooldownEnds
  <2>2. mail' \in Mails
    BY <2>1 DEF Mails
  <2> QED
    BY <1>8, <2>1, <2>2 DEF CooldownEnds, Mails
<1>9. CASE CodeExpires
  BY <1>9, ThrottleAssumption DEF CodeExpires
<1> QED
  BY <1>2, <1>3, <1>4, <1>5, <1>6, <1>7, <1>8, <1>9 DEF ThrottleNext

\* A window that has begun without a TTL has the request that will set it.
FailsExpire == fails.count > 0 /\ ~fails.ttl => \E c \in Clients : CallAt(c, "expire")

MailsExpire(s) ==
  mails[s].count > 0 /\ ~mails[s].ttl =>
    \E c \in Clients : CallAt(c, "window") /\ call[c].scene = s

LEMMA CountersAre == CountersExpire <=> (misses = 0 => FailsExpire /\ \A s \in Scenes : MailsExpire(s))
  BY DEF CountersExpire, FailsExpire, MailsExpire

\* The steps of others leave that request where it is.
LEMMA FailsStand ==
  ASSUME NEW c \in Clients, Others(c), call[c].pc # "expire", FailsExpire,
         fails' = fails \/ (fails.count > 0 /\ fails'.ttl = fails.ttl)
  PROVE  FailsExpire'
  BY DEF FailsExpire, Others, CallAt

LEMMA MailsStand ==
  ASSUME NEW c \in Clients, Others(c), NEW s \in Scenes,
         ~(call[c].pc = "window" /\ call[c].scene = s), MailsExpire(s),
         mails'[s] = mails[s] \/ (mails[s].count > 0 /\ mails'[s].ttl = mails[s].ttl)
  PROVE  MailsExpire(s)'
  BY DEF MailsExpire, Others, CallAt

LEMMA CountersStep ==
  ASSUME ThrottleInv, [ThrottleNext]_throttleVars
  PROVE  CountersExpire'
<1> SUFFICES ASSUME misses' = 0 PROVE FailsExpire' /\ \A s \in Scenes : MailsExpire(s)'
  BY DEF CountersExpire, FailsExpire, MailsExpire
<1>1. /\ fails \in Counter(Threshold) /\ mails \in [Scenes -> Counter(MailLimit + 1)]
      /\ call \in [Clients -> Call] /\ misses \in Nat /\ CallsOK
  BY DEF ThrottleInv, ThrottleTypeOK
<1>2. misses = 0
  <2>1. CASE \E c \in Clients : StoreFails(c)
    BY <1>1, <2>1 DEF StoreFails
  <2>2. ASSUME NEW c \in Clients, Login(c) \/ SendCode(c) \/ UseCode(c) PROVE misses' = misses
    BY <2>2
       DEF Login, SubmitCredentials, ReadFailures, CheckPassword, CountFailure, StartFailWindow,
           ClearFailures, SendCode, SubmitSend, CheckBlock, TallyMail, StartMailWindow,
           CheckLimit, AcquireCooldown, FindMailbox, PostMail, StoreCode, ReleaseCooldown,
           UseCode, SubmitCode, CheckCode, MatchAccount, CommitChange, ConsumeCode
  <2>3. CASE \/ UNCHANGED throttleVars \/ FailWindowEnds \/ MailWindowEnds \/ BlockEnds
             \/ CooldownEnds \/ CodeExpires
    BY <2>3
       DEF throttleVars, FailWindowEnds, MailWindowEnds, BlockEnds, CooldownEnds, CodeExpires
  <2> QED
    BY <2>1, <2>2, <2>3 DEF ThrottleNext
<1>3. FailsExpire /\ \A s \in Scenes : MailsExpire(s)
  BY <1>2, CountersAre DEF ThrottleInv
<1>4. CASE call' = call /\ fails' = fails /\ mails' = mails
  BY <1>3, <1>4 DEF FailsExpire, MailsExpire, CallAt
<1>5. ASSUME NEW c \in Clients, Acts(c), call[c].pc \notin {"incr", "expire", "clear", "tally", "window"}
      PROVE  FailsExpire' /\ \A s \in Scenes : MailsExpire(s)'
  <2>1. Others(c)
    BY <1>5, ActKinds, StepsOthers
  <2>2. fails' = fails /\ mails' = mails
    BY <1>5
       DEF Acts, Login, SubmitCredentials, ReadFailures, CheckPassword, CountFailure, StartFailWindow,
           ClearFailures, SendCode, SubmitSend, CheckBlock, TallyMail, StartMailWindow,
           CheckLimit, AcquireCooldown, FindMailbox, PostMail, StoreCode, ReleaseCooldown,
           UseCode, SubmitCode, CheckCode, MatchAccount, CommitChange, ConsumeCode, StoreFails,
           CallAt
  <2> QED
    BY <1>3, <1>5, <2>1, <2>2, FailsStand, MailsStand
<1>6. ASSUME NEW c \in Clients, Acts(c), call[c].pc \in {"incr", "expire", "clear", "tally", "window"}
      PROVE  FailsExpire' /\ \A s \in Scenes : MailsExpire(s)'
  <2>1. Others(c)
    BY <1>6, ActKinds, StepsOthers
  <2>2. CountFailure(c) \/ StartFailWindow(c) \/ ClearFailures(c) \/ TallyMail(c) \/ StartMailWindow(c)
    <3>1. ~StoreFails(c)
      BY <1>1, <1>2 DEF StoreFails
    <3>2. CASE Login(c)
      BY <1>6, <3>2
         DEF Login, SubmitCredentials, ReadFailures, CheckPassword, CallAt, CallStarts
    <3>3. CASE SendCode(c)
      <4>1. /\ SubmitSend(c) => CallAt(c, "idle")
            /\ CheckBlock(c) => CallAt(c, "block")
            /\ CheckLimit(c) => CallAt(c, "limit")
            /\ AcquireCooldown(c) => CallAt(c, "cool")
            /\ FindMailbox(c) => CallAt(c, "find")
            /\ PostMail(c) => CallAt(c, "post")
            /\ StoreCode(c) => CallAt(c, "store")
            /\ ReleaseCooldown(c) => CallAt(c, "release")
        BY Zenon
           DEF SubmitSend, CheckBlock, CheckLimit, AcquireCooldown, FindMailbox, PostMail, StoreCode,
               ReleaseCooldown, CallStarts
      <4> QED
        BY <1>6, <3>3, <4>1 DEF SendCode, CallAt
    <3>4. CASE UseCode(c)
      <4>1. /\ SubmitCode(c) => CallAt(c, "idle")
            /\ CheckCode(c) => CallAt(c, "check")
            /\ MatchAccount(c) => CallAt(c, "look")
            /\ CommitChange(c) => CallAt(c, "commit")
            /\ ConsumeCode(c) => CallAt(c, "consume")
        BY Zenon
           DEF SubmitCode, CheckCode, MatchAccount, CommitChange, ConsumeCode, CallStarts
      <4> QED
        BY <1>6, <3>4, <4>1 DEF UseCode, CallAt
    <3> QED
      BY <1>6, <3>1, <3>2, <3>3, <3>4 DEF Acts
  <2>3. CASE CountFailure(c) \/ StartFailWindow(c) \/ ClearFailures(c)
    <3>1. mails' = mails /\ call[c].pc # "window"
      BY <2>3 DEF CountFailure, StartFailWindow, ClearFailures, CallAt
    <3>2. \A s \in Scenes : MailsExpire(s)'
      BY <1>3, <2>1, <3>1, MailsStand
    <3>3. ASSUME CountFailure(c) PROVE FailsExpire'
      <4>1. call[c].pc = "incr" /\ fails' = Incr(fails, Threshold) /\ fails'.ttl = fails.ttl
        BY <1>1, <3>3, CounterTypes, ThrottleAssumption DEF CountFailure, CallAt
      <4>2. CASE fails.count = 0
        <5>1. CallAt(c, "expire")'
          BY <1>1, <3>3, <4>2, MovedIs DEF CountFailure, Moved, CallAt, CallPcs
        <5> QED
          BY <5>1 DEF FailsExpire
      <4>3. CASE fails.count # 0
        <5>1. fails.count > 0
          BY <1>1, <4>3 DEF Counter
        <5> QED
          BY <1>3, <2>1, <4>1, <5>1, FailsStand, Zenon
      <4> QED
        BY <4>2, <4>3
    <3>4. ASSUME StartFailWindow(c) PROVE FailsExpire'
      <4>1. fails'.count = fails.count /\ fails'.ttl = (fails.count > 0)
        BY <1>1, <3>4, CounterTypes, ThrottleAssumption DEF StartFailWindow
      <4> QED
        BY <4>1 DEF FailsExpire
    <3>5. ASSUME ClearFailures(c) PROVE FailsExpire'
      BY <3>5 DEF ClearFailures, NoKey, FailsExpire
    <3> QED
      BY <2>3, <3>2, <3>3, <3>4, <3>5
  <2>4. CASE TallyMail(c) \/ StartMailWindow(c)
    <3>s. PICK s \in Scenes : call[c].scene = s
      BY <1>1, <2>4 DEF TallyMail, StartMailWindow, CallAt, CallsOK, CallOK, Mailing
    <3>1. fails' = fails /\ call[c].pc # "expire"
      BY <2>4 DEF TallyMail, StartMailWindow, CallAt
    <3>2. FailsExpire'
      BY <1>3, <2>1, <3>1, FailsStand
    <3>3. mails[s] \in Counter(MailLimit + 1) /\ MailLimit + 1 \in Nat
      BY <1>1, ThrottleAssumption
    <3>4. ASSUME NEW t \in Scenes, t # s PROVE MailsExpire(t)'
      <4>1. mails'[t] = mails[t]
        BY <1>1, <2>4, <3>s, <3>4 DEF TallyMail, StartMailWindow
      <4> QED
        BY <1>3, <2>1, <3>s, <3>4, <4>1, MailsStand
    <3>5. ASSUME TallyMail(c) PROVE MailsExpire(s)'
      <4>1. call[c].pc = "tally" /\ mails'[s] = Incr(mails[s], MailLimit + 1) /\ mails'[s].ttl = mails[s].ttl
        BY <1>1, <3>s, <3>3, <3>5, CounterTypes DEF TallyMail, CallAt
      <4>2. CASE mails[s].count = 0
        <5>1. call'[c].pc = "window" /\ call'[c].scene = s
          BY <1>1, <3>s, <3>5, <4>2 DEF TallyMail, Call
        <5> QED
          BY <5>1 DEF MailsExpire, CallAt
      <4>3. CASE mails[s].count # 0
        <5>1. mails[s].count > 0
          BY <3>3, <4>3 DEF Counter
        <5>2. ~(call[c].pc = "window" /\ call[c].scene = s) /\ MailsExpire(s)
          BY <1>3, <4>1
        <5> QED
          BY <2>1, <4>1, <5>1, <5>2, MailsStand
      <4> QED
        BY <4>2, <4>3
    <3>6. ASSUME StartMailWindow(c) PROVE MailsExpire(s)'
      <4>1. mails'[s] = Expire(mails[s])
        BY <1>1, <3>s, <3>6 DEF StartMailWindow
      <4>2. mails'[s].count = mails[s].count /\ mails'[s].ttl = (mails[s].count > 0)
        BY <3>3, <4>1, CounterTypes
      <4> QED
        BY <4>2 DEF MailsExpire
    <3>7. MailsExpire(s)'
      BY <2>4, <3>5, <3>6
    <3> QED
      BY <3>2, <3>4, <3>7
  <2> QED
    BY <2>2, <2>3, <2>4
<1>7. CASE FailWindowEnds
  <2>1. call' = call /\ mails' = mails /\ fails'.count = 0
    BY <1>7 DEF FailWindowEnds, NoKey
  <2> QED
    BY <1>3, <2>1 DEF FailsExpire, MailsExpire, CallAt
<1>8. CASE MailWindowEnds
  <2>1. PICK s \in Scenes : mails' = [mails EXCEPT ![s] = NoKey]
    BY <1>8 DEF MailWindowEnds
  <2>2. /\ call' = call /\ fails' = fails /\ mails'[s].count = 0
        /\ \A t \in Scenes \ {s} : mails'[t] = mails[t]
    BY <1>1, <1>8, <2>1 DEF MailWindowEnds, NoKey
  <2> QED
    BY <1>3, <2>2 DEF FailsExpire, MailsExpire, CallAt
<1> QED
  BY <1>4, <1>5, <1>6, <1>7, <1>8
     DEF ThrottleNext, Acts, throttleVars, BlockEnds, CooldownEnds, CodeExpires

-----------------------------------------------------------------------------
\* Every holder of a code was one before, or the code is the new one.
LEMMA OwnersStay ==
  ASSUME OwnedOK,
         codes' = codes, \A s \in Scenes, k \in 1 .. MaxCodes : Holds(s, k)' => Holds(s, k)
  PROVE  OwnedOK'
  BY DEF OwnedOK

\* A step that puts no further code on its way, when whoever else uses one goes on from
\* "check" only with the stored code.
LEMMA FreshStays ==
  ASSUME ThrottleInv,
         \A s \in Scenes : code'[s] \in {code[s], 0},
         \A c \in Clients : call'[c].pc \in Pending =>
           call[c].pc \in Pending /\ call'[c].code = call[c].code,
         \A d \in Clients : call'[d].code # 0 /\ call'[d].pc # "check" =>
           /\ call'[d].code = call[d].code
           /\ call[d].pc = "check" => call[d].scene \in Scenes /\ code[call[d].scene] = call[d].code
  PROVE  \A c \in Clients : FreshOK(c)'
<1> SUFFICES ASSUME NEW c \in Clients, call'[c].pc \in Pending
             PROVE  /\ \A s \in Scenes : code'[s] # call'[c].code
                    /\ \A d \in Clients : d # c /\ call'[d].code = call'[c].code =>
                         call'[d].pc = "check"
  BY DEF FreshOK
<1>1. call[c].pc \in Pending /\ call'[c].code = call[c].code /\ call[c].code # 0
  BY DEF ThrottleInv, CallsOK, CallOK, Call, Sending
<1>2. FreshOK(c)
  BY DEF ThrottleInv, CodesOK
<1>3. ASSUME NEW d \in Clients, d # c, call'[d].code = call'[c].code, call'[d].pc # "check"
      PROVE  FALSE
  <2>1. call[d].code = call[c].code /\ call[d].code # 0
    BY <1>1, <1>3
  <2>2. call[d].pc = "check"
    BY <1>1, <1>2, <1>3, <2>1 DEF FreshOK
  <2>3. call[d].scene \in Scenes /\ code[call[d].scene] = call[c].code
    BY <1>1, <1>3, <2>1, <2>2
  <2> QED
    BY <1>1, <1>2, <2>3 DEF FreshOK
<1> QED
  BY <1>1, <1>2, <1>3 DEF FreshOK

\* A request that starts, goes on or ends without a new code and without storing one.
MovesOn(c) ==
  Starts(c) \/ Walks(c) \/ Ended(c) \/ Posts(c) \/ Doubts(c) \/ Passes(c) \/ Commits(c)

LEMMA StandingCalls ==
  ASSUME ThrottleInv, NEW c \in Clients, MovesOn(c)
  PROVE  /\ \A d \in Clients : call'[d].pc \in Pending =>
              call[d].pc \in Pending /\ call'[d].code = call[d].code
         /\ \A d \in Clients : call'[d].code # 0 /\ call'[d].pc # "check" =>
              /\ call'[d].code = call[d].code
              /\ call[d].pc = "check" => call[d].scene \in Scenes /\ code[call[d].scene] = call[d].code
         /\ \A s \in Scenes, k \in 1 .. MaxCodes :
              (\E d \in Clients : call'[d].scene = s /\ call'[d].code = k) => Holds(s, k)
<1> USE DEF MovesOn, Starts, Walks, Moved, Ended, Posts, Doubts, Passes, Commits
<1>1. \A d \in Clients : d # c => call'[d] = call[d]
  BY DEF Others
<1>2. call'[c].pc \in Pending => call[c].pc \in Pending /\ call'[c].code = call[c].code
  BY DEF PostMail, CallAt, Pending, Sending, Using, Mailing
<1>3. call'[c].code # 0 /\ call'[c].pc # "check" =>
        /\ call'[c].code = call[c].code
        /\ call[c].pc = "check" => code[call[c].scene] = call[c].code
  BY DEF PostMail, CommitChange, CallAt, Pending, Sending, Using
<1>4. \A d \in Clients : call[d].pc = "check" => call[d].scene \in Scenes
  BY DEF ThrottleInv, CallsOK, CallOK, Using
<1>5. \/ call'[c].scene = call[c].scene /\ call'[c].code = call[c].code
      \/ call'[c].code = 0
      \/ call'[c].scene \in Scenes /\ call'[c].code = mail[call'[c].scene].last
  OBVIOUS
<1>6. ASSUME NEW s \in Scenes, NEW k \in 1 .. MaxCodes, NEW d \in Clients,
             call'[d].scene = s, call'[d].code = k
      PROVE  Holds(s, k)
  BY <1>1, <1>5, <1>6 DEF Holds
<1> QED
  BY <1>1, <1>2, <1>3, <1>4, <1>6

\* A step that lets no request check or commit, and none that is to consume end.
LEMMA UsedStays ==
  ASSUME ThrottleInv, codes' \in Nat, codes' >= codes, used' = used, misses' = 0 => misses = 0,
         \A s \in Scenes : code'[s] \in {code[s], 0},
         \A d \in Clients : call'[d].pc \in Pending =>
           call'[d].code = codes + 1 \/ (call[d].pc \in Pending /\ call'[d].code = call[d].code),
         \A d \in Clients : call'[d].pc \in {"look", "commit", "consume"} =>
           /\ call[d].pc \in {"look", "commit", "consume"} /\ call'[d].code = call[d].code
           /\ call'[d].pc = "consume" <=> call[d].pc = "consume",
         misses' = 0 => \A d \in Clients : call[d].pc = "consume" => call'[d].pc = "consume"
  PROVE  UsedOK'
<1>1. UsedOK /\ codes \in Nat
  BY DEF ThrottleInv, CodesOK, ThrottleTypeOK
<1>2. ASSUME misses' = 0, NEW k \in 1 .. MaxCodes, k \notin used.shared PROVE OnceOK(k)'
  <2>1. OnceOK(k) /\ (k \in used.once => k <= codes)
    BY <1>1, <1>2 DEF UsedOK
  <2>2. HoldersOf(k)' \subseteq HoldersOf(k)
    BY DEF HoldersOf
  <2>3. \A d \in HoldersOf(k)' : call'[d].pc = "consume" <=> call[d].pc = "consume"
    BY DEF HoldersOf
  <2>4. ASSUME k \in used.once, HoldersOf(k)' = {} PROVE Dead(k)'
    <3>1. HoldersOf(k) = {}
      <4> SUFFICES ASSUME NEW d \in HoldersOf(k) PROVE FALSE
        OBVIOUS
      <4>1. d \in Clients /\ call[d].pc = "consume" /\ call[d].code = k
        BY <2>1, <2>4 DEF OnceOK, HoldersOf
      <4>2. call'[d].pc = "consume" /\ call'[d].code = k
        BY <1>2, <4>1
      <4> QED
        BY <2>4, <4>1, <4>2 DEF HoldersOf
    <3>2. Dead(k) /\ k # codes + 1 /\ k # 0
      BY <1>1, <2>1, <2>4, <3>1 DEF OnceOK
    <3> QED
      BY <3>2 DEF Dead
  <2> QED
    BY <2>1, <2>2, <2>3, <2>4 DEF OnceOK
<1>3. used.once \subseteq 1 .. codes'
  BY <1>1 DEF UsedOK
<1> QED
  BY <1>2, <1>3 DEF UsedOK

\* Of the steps that leave or drop what is stored.
LEMMA QuietOwners ==
  ASSUME ThrottleInv, codes' = codes,
         \A s \in Scenes : code'[s] \in {code[s], 0},
         NEW c \in Clients, MovesOn(c),
         \A s \in Scenes : mail'[s].last = mail[s].last \/ Holds(s, mail'[s].last)
  PROVE  OwnedOK' /\ \A d \in Clients : FreshOK(d)'
<1>1. \A s \in Scenes, k \in 1 .. MaxCodes : Holds(s, k)' => Holds(s, k)
  <2> SUFFICES ASSUME NEW s \in Scenes, NEW k \in 1 .. MaxCodes, Holds(s, k)'
               PROVE  Holds(s, k)
    OBVIOUS
  <2>1. CASE code'[s] = k
    BY <2>1 DEF Holds
  <2>2. CASE mail'[s].last = k
    BY <2>2 DEF Holds
  <2>3. CASE \E d \in Clients : call'[d].scene = s /\ call'[d].code = k
    BY <2>3, StandingCalls
  <2> QED
    BY <2>1, <2>2, <2>3 DEF Holds
<1>2. \A d \in Clients : FreshOK(d)'
  BY StandingCalls, FreshStays
<1> QED
  BY <1>1, <1>2, OwnersStay DEF ThrottleInv, CodesOK

LEMMA QuietCodes ==
  ASSUME ThrottleInv, codes' = codes, used' = used, misses' = 0 => misses = 0,
         \A s \in Scenes : code'[s] \in {code[s], 0},
         NEW c \in Clients,
         Starts(c) \/ Walks(c) \/ Ended(c) \/ Posts(c) \/ Doubts(c),
         misses' = 0 => call[c].pc # "consume",
         \A s \in Scenes : mail'[s].last = mail[s].last \/ Holds(s, mail'[s].last)
  PROVE  CodesOK'
<1>1. OwnedOK' /\ \A d \in Clients : FreshOK(d)'
  BY QuietOwners DEF MovesOn
<1>2. \A d \in Clients : call'[d].pc \in Pending =>
        call[d].pc \in Pending /\ call'[d].code = call[d].code
  BY StandingCalls DEF MovesOn
<1>3. \A d \in Clients : d # c => call'[d] = call[d]
  BY DEF Starts, Walks, Moved, Ended, Posts, Doubts, Others
<1>4. call'[c].pc \in {"look", "commit", "consume"} =>
        /\ call[c].pc \in {"look", "commit", "consume"} /\ call'[c].code = call[c].code
        /\ call'[c].pc = "consume" <=> call[c].pc = "consume"
  BY DEF Starts, Walks, Moved, Ended, Posts, Doubts, Sending, Using, Pending
<1>5. codes' \in Nat /\ codes' >= codes
  BY DEF ThrottleInv, ThrottleTypeOK
<1>6. UsedOK'
  <2>1. \A d \in Clients : call'[d].pc \in {"look", "commit", "consume"} =>
          /\ call[d].pc \in {"look", "commit", "consume"} /\ call'[d].code = call[d].code
          /\ call'[d].pc = "consume" <=> call[d].pc = "consume"
    BY <1>3, <1>4
  <2>2. misses' = 0 => \A d \in Clients : call[d].pc = "consume" => call'[d].pc = "consume"
    BY <1>3
  <2> QED
    BY <1>2, <1>5, <2>1, <2>2, UsedStays
<1> QED
  BY <1>1, <1>6 DEF CodesOK

\* The requests stand; a code or a cooldown may expire.
LEMMA IdleCodes ==
  ASSUME ThrottleInv, codes' = codes, used' = used, misses' = misses, call' = call,
         \A s \in Scenes : code'[s] \in {code[s], 0},
         \A s \in Scenes : mail'[s].last = mail[s].last
  PROVE  CodesOK'
<1>1. \A s \in Scenes, k \in 1 .. MaxCodes : Holds(s, k)' => Holds(s, k)
  BY DEF Holds
<1>2. OwnedOK'
  BY <1>1, OwnersStay DEF ThrottleInv, CodesOK
<1>3. \A c \in Clients : FreshOK(c)'
  BY DEF ThrottleInv, CodesOK, FreshOK, CallsOK, CallOK, Sending
<1>4. UsedOK'
  <2>1. codes' \in Nat /\ codes' >= codes
    BY DEF ThrottleInv, ThrottleTypeOK
  <2> QED
    BY <2>1, UsedStays
<1> QED
  BY <1>2, <1>3, <1>4 DEF CodesOK

LEMMA TakenCodes ==
  ASSUME ThrottleInv, ThrottleTypeOK', NEW c \in Clients, Takes(c)
  PROVE  CodesOK'
<1> DEFINE k == codes + 1
<1>1. /\ codes \in Nat /\ code \in [Scenes -> 0 .. MaxCodes]
      /\ call[c].scene \in Scenes /\ k > 0
      /\ \A s \in Scenes : code[s] \in 0 .. MaxCodes /\ mail[s].last \in 0 .. MaxCodes
      /\ \A d \in Clients : call[d].code \in 0 .. MaxCodes
  BY ThrottleAssumption
     DEF ThrottleInv, ThrottleTypeOK, Takes, AcquireCooldown, CallAt, CallsOK, CallOK, Call, Mailing
<1>2. /\ codes' = k /\ used' = used /\ code' = code /\ misses' = misses
      /\ \A s \in Scenes : mail'[s].last = mail[s].last
      /\ call'[c].code = k /\ call'[c].scene = call[c].scene
      /\ call[c].pc = "cool" /\ call'[c].pc \in {"find", "post"}
      /\ \A d \in Clients : d # c => call'[d] = call[d]
  <2>1. \A s \in Scenes : mail'[s].last = mail[s].last
    BY DEF Takes, AcquireCooldown, ThrottleInv, ThrottleTypeOK
  <2> QED
    BY <2>1 DEF Takes, AcquireCooldown, Others, CallAt
<1>3. \A s \in Scenes, m \in 1 .. MaxCodes : Holds(s, m) => m <= codes
  BY DEF ThrottleInv, CodesOK, OwnedOK
<1>4. \A s \in Scenes : code[s] # k
  BY <1>1, <1>3 DEF Holds
<1>5. \A s \in Scenes : mail[s].last # k
  BY <1>1, <1>3 DEF Holds
<1>6. \A d \in Clients : call[d].code # k
  <2> SUFFICES ASSUME NEW d \in Clients, call[d].code = k PROVE FALSE
    OBVIOUS
  <2>1. call[d].scene \in Scenes /\ k \in 1 .. MaxCodes
    BY <1>1 DEF ThrottleInv, CallsOK, CallOK
  <2> QED
    BY <1>1, <1>3, <2>1 DEF Holds
<1>7. UsedOK'
  <2>1. codes' \in Nat /\ codes' >= codes
    BY <1>1, <1>2
  <2>2. \A d \in Clients : call'[d].pc \in Pending =>
          call'[d].code = k \/ (call[d].pc \in Pending /\ call'[d].code = call[d].code)
    BY <1>2
  <2>3. \A d \in Clients : call'[d].pc \in {"look", "commit", "consume"} => d # c
    BY <1>2
  <2>4. \A d \in Clients : call[d].pc = "consume" => d # c
    BY <1>2
  <2> QED
    BY <1>2, <2>1, <2>2, <2>3, <2>4, UsedStays
<1>8. OwnedOK'
  <2> SUFFICES ASSUME NEW s \in Scenes, NEW m \in 1 .. MaxCodes, Holds(s, m)'
               PROVE  m <= k /\ \A t \in Scenes : Holds(t, m)' => s = t
    BY <1>2 DEF OwnedOK
  <2>1. CASE m = k
    <3>1. \A t \in Scenes : Holds(t, m)' => t = call[c].scene
      BY <1>2, <1>4, <1>5, <1>6, <2>1 DEF Holds
    <3> QED
      BY <1>1, <2>1, <3>1
  <2>2. CASE m # k
    <3>1. \A t \in Scenes : Holds(t, m)' => Holds(t, m)
      BY <1>2, <2>2 DEF Holds
    <3> QED
      BY <1>1, <3>1 DEF ThrottleInv, CodesOK, OwnedOK
  <2> QED
    BY <2>1, <2>2
<1>9. \A d \in Clients : FreshOK(d)'
  <2>1. FreshOK(c)'
    BY <1>1, <1>2, <1>4, <1>6 DEF FreshOK
  <2>2. ASSUME NEW d \in Clients, d # c PROVE FreshOK(d)'
    BY <1>2, <1>6, <2>2 DEF ThrottleInv, CodesOK, FreshOK
  <2> QED
    BY <2>1, <2>2
<1> QED
  BY <1>7, <1>8, <1>9 DEF CodesOK

\* The code that is stored was on its way, so nobody has used it.
LEMMA StoredCodes ==
  ASSUME ThrottleInv, NEW c \in Clients, StoreCode(c), Ended(c)
  PROVE  CodesOK'
<1> DEFINE k == call[c].code
<1>1. /\ call[c].pc = "store" /\ call[c].scene \in Scenes /\ k > 0 /\ k \in 1 .. MaxCodes
      /\ code \in [Scenes -> 0 .. MaxCodes]
  BY ThrottleAssumption
     DEF StoreCode, CallAt, ThrottleInv, ThrottleTypeOK, CallsOK, CallOK, Call, Sending, Pending
<1>2. /\ code' = [code EXCEPT ![call[c].scene] = k] /\ codes' = codes /\ used' = used /\ mail' = mail
      /\ misses' = misses /\ call'[c].code = 0 /\ call'[c].pc = "idle"
      /\ \A d \in Clients : d # c => call'[d] = call[d]
  BY DEF StoreCode, Ended, Others
<1>3. FreshOK(c) /\ UsedOK /\ OwnedOK
  BY DEF ThrottleInv, CodesOK
<1>4. UsedOK'
  <2> SUFFICES ASSUME misses = 0, NEW m \in 1 .. MaxCodes, m \notin used.shared PROVE OnceOK(m)'
    BY <1>2, <1>3 DEF UsedOK
  <2>1. OnceOK(m)
    BY <1>3 DEF UsedOK
  <2>2. HoldersOf(m)' = HoldersOf(m) /\ \A d \in HoldersOf(m) : call'[d] = call[d]
    BY <1>1, <1>2 DEF HoldersOf
  <2>3. ASSUME m \in used.once, HoldersOf(m) = {} PROVE Dead(m)'
    <3>1. Dead(m) /\ m # k
      BY <1>1, <2>1, <2>3 DEF OnceOK, Dead, Pending
    <3> QED
      BY <1>1, <1>2, <3>1 DEF Dead, Pending
  <2> QED
    BY <1>2, <2>1, <2>2, <2>3 DEF OnceOK
<1>5. OwnedOK'
  <2>1. \A s \in Scenes, m \in 1 .. MaxCodes : Holds(s, m)' => Holds(s, m)
    BY <1>1, <1>2 DEF Holds
  <2> QED
    BY <1>2, <1>3, <2>1, OwnersStay
<1>6. \A d \in Clients : FreshOK(d)'
  <2> SUFFICES ASSUME NEW d \in Clients, call'[d].pc \in Pending PROVE FreshOK(d)'
    BY DEF FreshOK
  <2>1. d # c /\ call'[d] = call[d] /\ FreshOK(d) /\ call[d].code # 0
    BY <1>2 DEF Pending, ThrottleInv, CodesOK, CallsOK, CallOK, Sending, Call
  <2>2. call[d].code # k
    BY <1>1, <2>1 DEF FreshOK
  <2> QED
    BY <1>1, <1>2, <2>1, <2>2 DEF FreshOK
<1> QED
  BY <1>4, <1>5, <1>6 DEF CodesOK

\* A checked code belongs to its scene, is stored there alone and is not on its way.
LEMMA CheckedCode ==
  ASSUME ThrottleInv, NEW c \in Clients, call[c].pc \in {"look", "commit", "consume"}
  PROVE  /\ call[c].scene \in Scenes /\ call[c].code \in 1 .. codes /\ call[c].code \in 1 .. MaxCodes
         /\ \A s \in Scenes : code[s] = call[c].code => s = call[c].scene
         /\ \A d \in Clients : call[d].pc \in Pending => call[d].code # call[c].code
<1> DEFINE k == call[c].code
<1>1. call[c].scene \in Scenes /\ k \in 1 .. MaxCodes
  BY ThrottleAssumption DEF ThrottleInv, ThrottleTypeOK, CallsOK, CallOK, Call, Using
<1>2. Holds(call[c].scene, k) /\ OwnedOK
  BY <1>1 DEF Holds, ThrottleInv, CodesOK
<1>3. \A s \in Scenes : code[s] = k => Holds(s, k)
  BY <1>1 DEF Holds
<1>4. \A d \in Clients : call[d].pc \in Pending => d # c /\ FreshOK(d)
  BY DEF Pending, ThrottleInv, CodesOK
<1>5. \A d \in Clients : call[d].pc \in Pending => call[d].code # k
  BY <1>4 DEF FreshOK
<1> QED
  BY <1>1, <1>2, <1>3, <1>5 DEF OwnedOK

LEMMA ConsumedCodes ==
  ASSUME ThrottleInv, NEW c \in Clients, ConsumeCode(c), Ended(c)
  PROVE  CodesOK'
<1> DEFINE k == call[c].code
           s == call[c].scene
<1>1. /\ call[c].pc = "consume" /\ code \in [Scenes -> 0 .. MaxCodes]
      /\ s \in Scenes /\ k \in 1 .. MaxCodes
      /\ \A t \in Scenes : code[t] = k => t = s
      /\ \A d \in Clients : call[d].pc \in Pending => call[d].code # k
  BY CheckedCode DEF ConsumeCode, CallAt, ThrottleInv, ThrottleTypeOK
<1>2. /\ code' = [code EXCEPT ![s] = 0] /\ codes' = codes /\ used' = used /\ misses' = misses
      /\ mail' = mail /\ call'[c].code = 0 /\ call'[c].pc = "idle"
      /\ \A d \in Clients : d # c => call'[d] = call[d]
  BY DEF ConsumeCode, Ended, Others
<1>3. UsedOK
  BY DEF ThrottleInv, CodesOK
<1>4. UsedOK'
  <2> SUFFICES ASSUME misses = 0, NEW m \in 1 .. MaxCodes, m \notin used.shared PROVE OnceOK(m)'
    BY <1>2, <1>3 DEF UsedOK
  <2>1. OnceOK(m)
    BY <1>3 DEF UsedOK
  <2>2. HoldersOf(m)' = HoldersOf(m) \ {c} /\ \A d \in HoldersOf(m)' : call'[d] = call[d]
    BY <1>1, <1>2 DEF HoldersOf
  <2>3. ASSUME m \in used.once, HoldersOf(m)' = {} PROVE Dead(m)'
    <3>1. CASE m = k
      BY <1>1, <1>2, <3>1 DEF Dead, Pending
    <3>2. CASE m # k
      <4>1. HoldersOf(m) = {}
        BY <2>2, <2>3, <3>2 DEF HoldersOf
      <4> QED
        BY <1>1, <1>2, <2>1, <2>3, <4>1 DEF OnceOK, Dead, Pending
    <3> QED
      BY <3>1, <3>2
  <2> QED
    BY <1>2, <2>1, <2>2, <2>3 DEF OnceOK
<1>5. OwnedOK' /\ \A d \in Clients : FreshOK(d)'
  <2>1. \A t \in Scenes : code'[t] \in {code[t], 0} /\ mail'[t].last = mail[t].last
    BY <1>1, <1>2
  <2> QED
    BY <1>2, <2>1, QuietOwners DEF MovesOn
<1> QED
  BY <1>4, <1>5 DEF CodesOK

\* Who checks a code that another request holds makes it a shared one.
LEMMA PassedCodes ==
  ASSUME ThrottleInv, NEW c \in Clients, Passes(c)
  PROVE  CodesOK'
<1> DEFINE k == call[c].code
<1>1. /\ call[c].pc = "check" /\ call'[c].pc = "look" /\ call'[c].code = k
      /\ code[call[c].scene] = k /\ call[c].scene \in Scenes /\ k \in 1 .. MaxCodes
      /\ code' = code /\ codes' = codes /\ mail' = mail /\ misses' = misses
      /\ \A d \in Clients : d # c => call'[d] = call[d]
      /\ used \in Uses
  BY ThrottleAssumption
     DEF Passes, CheckCode, CallAt, Moved, Others, ThrottleInv, ThrottleTypeOK, CallsOK, CallOK, Call, Using
<1>2. /\ used'.once = used.once /\ used'.twice = used.twice /\ used.shared \subseteq used'.shared
      /\ HoldersOf(k) # {} => k \in used'.shared
  <2> DEFINE x == IF HoldersOf(k) = {} THEN used.shared ELSE used.shared \union {k}
  <2>1. used' = [used EXCEPT !.shared = x]
    BY DEF Passes
  <2>2. used.shared \subseteq x /\ (HoldersOf(k) # {} => k \in x)
    OBVIOUS
  <2> HIDE DEF x
  <2>3. used'.once = used.once /\ used'.twice = used.twice /\ used'.shared = x
    BY <1>1, <2>1 DEF Uses
  <2> QED
    BY <2>2, <2>3
<1>3. UsedOK
  BY DEF ThrottleInv, CodesOK
<1>4. UsedOK'
  <2> SUFFICES ASSUME misses = 0, NEW m \in 1 .. MaxCodes, m \notin used'.shared PROVE OnceOK(m)'
    BY <1>1, <1>2, <1>3 DEF UsedOK
  <2>1. OnceOK(m)
    BY <1>2, <1>3 DEF UsedOK
  <2>2. CASE m = k
    <3>1. HoldersOf(m) = {} /\ m \notin used.once
      BY <1>1, <1>2, <2>1, <2>2 DEF OnceOK, Dead
    <3>2. HoldersOf(m)' = {c}
      BY <1>1, <2>2, <3>1 DEF HoldersOf
    <3> QED
      BY <1>1, <1>2, <2>1, <3>1, <3>2 DEF OnceOK
  <2>3. CASE m # k
    <3>1. HoldersOf(m)' = HoldersOf(m) /\ \A d \in HoldersOf(m) : call'[d] = call[d]
      BY <1>1, <2>3 DEF HoldersOf
    <3>2. Dead(m) => Dead(m)'
      BY <1>1 DEF Dead, Pending
    <3> QED
      BY <1>2, <2>1, <3>1, <3>2 DEF OnceOK
  <2> QED
    BY <2>2, <2>3
<1>5. OwnedOK' /\ \A d \in Clients : FreshOK(d)'
  BY <1>1, QuietOwners DEF MovesOn
<1> QED
  BY <1>4, <1>5 DEF CodesOK

\* The one holder of a code commits, and has it consumed next.
LEMMA CommittedCodes ==
  ASSUME ThrottleInv, NEW c \in Clients, Commits(c)
  PROVE  CodesOK'
<1> DEFINE k == call[c].code
<1>1. /\ call[c].pc = "commit" /\ call'[c].pc = "consume" /\ call'[c].code = k
      /\ k \in 1 .. MaxCodes /\ k \in 1 .. codes
      /\ code' = code /\ codes' = codes /\ mail' = mail /\ misses' = misses
      /\ \A d \in Clients : d # c => call'[d] = call[d]
      /\ used \in Uses
  BY CheckedCode
     DEF Commits, CommitChange, CallAt, Moved, Others, ThrottleInv, ThrottleTypeOK
<1>2. /\ used'.once = used.once \union {k} /\ used'.shared = used.shared
      /\ used'.twice = used.twice \union ({k} \intersect used.once)
  BY <1>1, UsedAfter DEF Commits
<1>3. UsedOK
  BY DEF ThrottleInv, CodesOK
<1>4. UsedOK'
  <2> SUFFICES ASSUME misses = 0, NEW m \in 1 .. MaxCodes, m \notin used.shared PROVE OnceOK(m)'
    BY <1>1, <1>2, <1>3 DEF UsedOK
  <2>1. OnceOK(m)
    BY <1>3 DEF UsedOK
  <2>2. HoldersOf(m)' = HoldersOf(m)
    BY <1>1 DEF HoldersOf
  <2>3. CASE m = k
    <3>1. c \in HoldersOf(m)
      BY <1>1, <2>3 DEF HoldersOf
    <3>2. HoldersOf(m) = {c} /\ m \notin used.once
      BY <1>1, <2>1, <3>1 DEF OnceOK
    <3> QED
      BY <1>1, <1>2, <2>1, <2>2, <2>3, <3>2 DEF OnceOK
  <2>4. CASE m # k
    <3>1. \A d \in HoldersOf(m) : call'[d] = call[d]
      BY <1>1, <2>4 DEF HoldersOf
    <3>2. Dead(m) => Dead(m)'
      BY <1>1 DEF Dead, Pending
    <3> QED
      BY <1>2, <2>1, <2>2, <2>4, <3>1, <3>2 DEF OnceOK
  <2> QED
    BY <2>3, <2>4
<1>5. OwnedOK' /\ \A d \in Clients : FreshOK(d)'
  BY <1>1, QuietOwners DEF MovesOn
<1> QED
  BY <1>4, <1>5 DEF CodesOK

LEMMA CodesStep ==
  ASSUME ThrottleInv, ThrottleTypeOK', [ThrottleNext]_throttleVars
  PROVE  CodesOK'
<1>1. CASE Still /\ call' = call
  BY <1>1, IdleCodes DEF Still
<1>2. CASE CodeExpires
  <2>1. \A s \in Scenes : code'[s] \in {code[s], 0}
    BY <1>2 DEF CodeExpires, ThrottleInv, ThrottleTypeOK
  <2> QED
    BY <1>2, <2>1, IdleCodes DEF CodeExpires
<1>3. CASE CooldownEnds
  <2>1. \A s \in Scenes : mail'[s].last = mail[s].last
    BY <1>3 DEF CooldownEnds, ThrottleInv, ThrottleTypeOK
  <2> QED
    BY <1>3, <2>1, IdleCodes DEF CooldownEnds
<1>4. ASSUME NEW c \in Clients, Steps(c) PROVE CodesOK'
  <2>1. CASE Still /\ (Starts(c) \/ Walks(c) \/ (Ended(c) /\ call[c].pc \notin Sending \union {"consume"}))
    <3>1. call[c].pc # "consume"
      BY <2>1 DEF Starts, Walks, Using
    <3> QED
      BY <2>1, <3>1, QuietCodes DEF Still
  <2>2. CASE Fails(c)
    <3>1. misses' # 0
      BY <2>2 DEF Fails, ThrottleInv, ThrottleTypeOK
    <3> QED
      BY <2>2, <3>1, QuietCodes DEF Fails
  <2>3. CASE Finds(c)
    <3>1. /\ \A s \in Scenes : mail'[s].last = mail[s].last
          /\ call[c].pc # "consume"
      BY <2>3 DEF Finds, FindMailbox, CallAt, ThrottleInv, ThrottleTypeOK
    <3> QED
      BY <2>3, <3>1, QuietCodes DEF Finds, FindMailbox
  <2>4. CASE Posts(c) \/ Doubts(c)
    <3>1. call[c].pc = "post" /\ call[c].scene \in Scenes /\ call[c].code > 0
      BY <2>4 DEF Posts, Doubts, PostMail, CallAt, ThrottleInv, CallsOK, CallOK, Sending, Pending
    <3>2. \A s \in Scenes : mail'[s].last = mail[s].last \/ Holds(s, mail'[s].last)
      <4>1. mail \in Mails /\ Holds(call[c].scene, call[c].code)
        BY <3>1 DEF Holds, ThrottleInv, ThrottleTypeOK, Mails
      <4>2. \A s \in Scenes : s # call[c].scene => mail'[s] = mail[s]
        BY <2>4, <4>1 DEF Posts, Doubts, Mails
      <4>3. mail'[call[c].scene].last = call[c].code
        BY <2>4, <3>1, <4>1 DEF Posts, Doubts, Mails
      <4> QED
        BY <4>1, <4>2, <4>3
    <3> QED
      BY <2>4, <3>1, <3>2, QuietCodes DEF Posts, Doubts, PostMail
  <2>5. CASE ReleaseCooldown(c) /\ Ended(c)
    BY <2>5, QuietCodes DEF ReleaseCooldown, CallAt
  <2> QED
    BY <1>4, <2>1, <2>2, <2>3, <2>4, <2>5, TakenCodes, StoredCodes, ConsumedCodes, PassedCodes,
       CommittedCodes
       DEF Steps
<1> QED
  BY <1>1, <1>2, <1>3, <1>4, StepKinds

-----------------------------------------------------------------------------
\* A scene that a step leaves as it is, but for its expired code and moves of its send.
LEMMA SceneStays ==
  ASSUME NEW s \in Scenes, SceneOK(s), misses' = 0 => misses = 0,
         cooldown'[s] = cooldown[s], mail'[s] = mail[s], code'[s] \in {code[s], 0},
         SendsOf(s)' = SendsOf(s),
         \A c \in SendsOf(s) :
           (call'[c].pc = "store" <=> call[c].pc = "store") /\ call'[c].code = call[c].code
  PROVE  SceneOK(s)'
  BY DEF SceneOK, Settled

\* Which sends a step of one request leaves under way.
LEMMA SendsAfter ==
  ASSUME NEW c \in Clients, Others(c), NEW s \in Scenes
  PROVE  /\ \A d \in Clients : d # c => (d \in SendsOf(s)' <=> d \in SendsOf(s)) /\ call'[d] = call[d]
         /\ c \in SendsOf(s)' <=> call'[c].scene = s /\ call'[c].pc \in Sending
         /\ c \in SendsOf(s) <=> call[c].scene = s /\ call[c].pc \in Sending
         /\ SendsOf(s) \subseteq Clients /\ SendsOf(s)' \subseteq Clients
  BY DEF SendsOf, Others, Sending, Pending

\* A request of another scene, or one that is no send and does not become one.
LEMMA OtherScene ==
  ASSUME ThrottleInv, NEW c \in Clients, Others(c), NEW s \in Scenes, ~mail'[s].unsure,
         \/ call[c].scene # s /\ (call'[c].scene = s => call'[c].pc \notin Sending)
         \/ call[c].pc \notin Sending /\ call'[c].pc \notin Sending
         \/ /\ call'[c].scene = call[c].scene /\ call'[c].code = call[c].code
            /\ call[c].pc \in {"find", "post"} /\ call'[c].pc \in {"post", "release"},
         misses' = 0 => misses = 0,
         cooldown'[s] = cooldown[s], mail'[s] = mail[s], code'[s] \in {code[s], 0}
  PROVE  SceneOK(s)'
<1>1. SceneOK(s)
  BY DEF ThrottleInv, MailOK
<1>2. SendsOf(s)' = SendsOf(s)
  <2>1. c \in SendsOf(s)' <=> c \in SendsOf(s)
    BY SendsAfter DEF Sending, Pending
  <2>2. \A d \in Clients : d \in SendsOf(s)' <=> d \in SendsOf(s)
    BY <2>1, SendsAfter
  <2>3. SendsOf(s) \subseteq Clients /\ SendsOf(s)' \subseteq Clients
    BY SendsAfter
  <2> QED
    BY <2>2, <2>3
<1>3. \A d \in SendsOf(s) :
        (call'[d].pc = "store" <=> call[d].pc = "store") /\ call'[d].code = call[d].code
  BY SendsAfter DEF Sending, Pending
<1> QED
  BY <1>1, <1>2, <1>3, SceneStays

\* The scene of the one send that ends.
LEMMA SendEnds ==
  ASSUME ThrottleInv, NEW c \in Clients, Ended(c), NEW s \in Scenes, call[c].scene = s,
         call[c].pc \in Sending, ~mail[s].unsure, misses' = 0 => Settled(s)'
  PROVE  SceneOK(s)'
<1>1. SceneOK(s)
  BY DEF ThrottleInv, MailOK
<1>2. SendsOf(s)' = {}
  BY <1>1, SendsAfter DEF SceneOK, Ended, Sending, Pending
<1> QED
  BY <1>2 DEF SceneOK

LEMMA TakenScene ==
  ASSUME ThrottleInv, NEW c \in Clients, Takes(c), NEW s \in Scenes, call[c].scene = s, ~mail'[s].unsure
  PROVE  SceneOK(s)'
<1>1. /\ cooldown \in [Scenes -> BOOLEAN] /\ mail \in Mails /\ call \in [Clients -> Call]
      /\ call[c].pc = "cool" /\ ~cooldown[s] /\ Others(c)
      /\ call'[c].scene = s /\ call'[c].pc \in {"find", "post"}
  BY DEF ThrottleInv, ThrottleTypeOK, Mails, Takes, AcquireCooldown, CallAt
<1>2. /\ cooldown' = [cooldown EXCEPT ![s] = TRUE] /\ mail' = [mail EXCEPT ![s].state = "due"]
      /\ code' = code /\ misses' = misses
  BY DEF Takes, AcquireCooldown
<1>3. cooldown'[s] /\ mail'[s].last = mail[s].last /\ mail'[s].unsure = mail[s].unsure
  BY <1>1, <1>2 DEF Mails
<1>4. SceneOK(s) /\ SendsOf(s) = {}
  BY <1>1, <1>3 DEF ThrottleInv, MailOK, SceneOK
<1>5. SendsOf(s)' = {c}
  BY <1>1, <1>4, SendsAfter DEF Sending, Pending
<1>6. misses = 0 => code[s] \in {0, mail[s].last}
  BY <1>4 DEF SceneOK, Settled
<1> QED
  BY <1>1, <1>2, <1>3, <1>5, <1>6 DEF SceneOK

LEMMA PostedScene ==
  ASSUME ThrottleInv, NEW c \in Clients, Posts(c), NEW s \in Scenes, call[c].scene = s, ~mail'[s].unsure
  PROVE  SceneOK(s)'
<1>1. /\ cooldown \in [Scenes -> BOOLEAN] /\ mail \in Mails /\ call[c].pc = "post"
      /\ Others(c) /\ call'[c].scene = s /\ call'[c].pc = "store" /\ call'[c].code = call[c].code
      /\ cooldown' = cooldown /\ misses' = misses
  BY DEF ThrottleInv, ThrottleTypeOK, Mails, Posts, PostMail, CallAt, Moved
<1>2. mail'[s].last = call[c].code /\ mail'[s].state = "left" /\ mail'[s].unsure = mail[s].unsure
  BY <1>1 DEF Posts, Mails
<1>3. SceneOK(s)
  BY <1>2 DEF ThrottleInv, MailOK
<1>4. SendsOf(s) = {c} /\ SendsOf(s)' = {c}
  BY <1>1, <1>3, SendsAfter DEF SceneOK, Sending, Pending
<1> QED
  BY <1>1, <1>2, <1>3, <1>4 DEF SceneOK

LEMMA MailStep ==
  ASSUME ThrottleInv, [ThrottleNext]_throttleVars
  PROVE  MailOK'
<1>1. /\ cooldown \in [Scenes -> BOOLEAN] /\ mail \in Mails /\ code \in [Scenes -> 0 .. MaxCodes]
      /\ call \in [Clients -> Call] /\ misses \in Nat /\ CallsOK
  BY DEF ThrottleInv, ThrottleTypeOK, Mails
<1> SUFFICES ASSUME NEW s \in Scenes, ~mail'[s].unsure PROVE SceneOK(s)'
  BY DEF MailOK
<1>2. CASE Still /\ call' = call
  <2>1. ~mail[s].unsure /\ SceneOK(s)
    BY <1>2 DEF Still, ThrottleInv, MailOK
  <2>2. SendsOf(s)' = SendsOf(s)
    BY <1>2 DEF SendsOf
  <2> QED
    BY <1>2, <2>1, <2>2, SceneStays DEF Still
<1>3. CASE CodeExpires
  <2>1. ~mail[s].unsure /\ SceneOK(s)
    BY <1>3 DEF CodeExpires, ThrottleInv, MailOK
  <2>2. SendsOf(s)' = SendsOf(s) /\ code'[s] \in {code[s], 0}
    BY <1>1, <1>3 DEF SendsOf, CodeExpires
  <2> QED
    BY <1>3, <2>1, <2>2, SceneStays DEF CodeExpires
<1>4. CASE CooldownEnds
  <2>1. PICK t \in Scenes : /\ cooldown' = [cooldown EXCEPT ![t] = FALSE]
                            /\ mail' = [mail EXCEPT ![t].unsure = @ \/ SendsOf(t) # {}]
    BY <1>4 DEF CooldownEnds
  <2>2. /\ call' = call /\ code' = code /\ misses' = misses /\ SendsOf(s)' = SendsOf(s)
    BY <1>4 DEF CooldownEnds, SendsOf
  <2>3. CASE t = s
    <3>1. ~mail[s].unsure /\ SendsOf(s) = {} /\ mail'[s].last = mail[s].last /\ ~cooldown'[s]
      BY <1>1, <2>1, <2>3 DEF Mails
    <3>2. SceneOK(s)
      BY <3>1 DEF ThrottleInv, MailOK
    <3> QED
      BY <2>2, <3>1, <3>2 DEF SceneOK, Settled
  <2>4. CASE t # s
    <3>1. cooldown'[s] = cooldown[s] /\ mail'[s] = mail[s]
      BY <1>1, <2>1, <2>4 DEF Mails
    <3>2. SceneOK(s)
      BY <3>1 DEF ThrottleInv, MailOK
    <3> QED
      BY <2>2, <3>1, <3>2, SceneStays
  <2> QED
    BY <2>3, <2>4
<1>5. ASSUME NEW c \in Clients, Steps(c) PROVE SceneOK(s)'
  <2>1. Others(c)
    BY <1>5, StepsOthers
  <2>2. CASE Still /\ (Starts(c) \/ Walks(c) \/ (Ended(c) /\ call[c].pc \notin Sending))
    <3>1. mail'[s] = mail[s] /\ cooldown'[s] = cooldown[s] /\ code'[s] = code[s] /\ misses' = misses
      BY <2>2 DEF Still
    <3>2. \/ call[c].pc \notin Sending /\ call'[c].pc \notin Sending
          \/ /\ call'[c].scene = call[c].scene /\ call'[c].code = call[c].code
             /\ call[c].pc \in {"find", "post"} /\ call'[c].pc \in {"post", "release"}
      BY <2>2 DEF Starts, Walks, Ended, Moved, Sending, Pending, Using
    <3> QED
      BY <2>1, <3>1, <3>2, OtherScene
  <2>3. CASE Takes(c)
    <3>1. CASE call[c].scene = s
      BY <2>3, <3>1, TakenScene
    <3>2. CASE call[c].scene # s
      <4>1. /\ mail'[s] = mail[s] /\ cooldown'[s] = cooldown[s] /\ code'[s] = code[s]
            /\ misses' = misses /\ call'[c].scene # s
        BY <1>1, <2>3, <3>2 DEF Takes, AcquireCooldown, Mails
      <4> QED
        BY <2>1, <3>2, <4>1, OtherScene
    <3> QED
      BY <3>1, <3>2
  <2>4. CASE Posts(c)
    <3>1. CASE call[c].scene = s
      BY <2>4, <3>1, PostedScene
    <3>2. CASE call[c].scene # s
      <4>1. /\ mail'[s] = mail[s] /\ cooldown'[s] = cooldown[s] /\ code'[s] = code[s]
            /\ misses' = misses /\ call'[c].scene # s
        BY <1>1, <2>4, <3>2 DEF Posts, PostMail, Moved, Mails
      <4> QED
        BY <2>1, <3>2, <4>1, OtherScene
    <3> QED
      BY <3>1, <3>2
  <2>7. CASE Passes(c) \/ Commits(c)
    <3>1. /\ call[c].pc \notin Sending /\ call'[c].pc \notin Sending /\ mail' = mail
          /\ cooldown' = cooldown /\ misses' = misses /\ code' = code
      BY <2>7 DEF Passes, Commits, CheckCode, CommitChange, CallAt, Moved, Sending, Pending
    <3> QED
      BY <2>1, <3>1, OtherScene
  <2>8. CASE Doubts(c)
    <3>1. /\ call[c].pc = "post" /\ call'[c].pc = "release" /\ call'[c].scene = call[c].scene
          /\ call'[c].code = call[c].code
          /\ cooldown' = cooldown /\ misses' = misses /\ code' = code
      BY <2>8 DEF Doubts, PostMail, CallAt, Moved
    <3>2. call[c].scene # s /\ mail'[s] = mail[s]
      BY <1>1, <2>8 DEF Doubts, Mails
    <3> QED
      BY <2>1, <3>1, <3>2, OtherScene
  <2>5. CASE ConsumeCode(c) /\ Ended(c)
    <3>1. /\ call[c].pc \notin Sending /\ call'[c].pc \notin Sending /\ mail' = mail
          /\ cooldown' = cooldown /\ misses' = misses /\ code'[s] \in {code[s], 0}
      BY <1>1, <2>5 DEF ConsumeCode, CallAt, Ended, Sending, Pending
    <3> QED
      BY <2>1, <3>1, OtherScene
  <2>6. CASE Ended(c) /\ (Finds(c) \/ Fails(c) \/ StoreCode(c) \/ ReleaseCooldown(c))
    <3>1. (misses' = 0 => misses = 0) /\ call'[c].pc \notin Sending
      BY <1>1, <2>6
         DEF Finds, FindMailbox, Fails, StoreCode, ReleaseCooldown, Ended, Sending, Pending
    <3>2. CASE call[c].scene # s
      <4>1. mail'[s] = mail[s] /\ cooldown'[s] = cooldown[s] /\ code'[s] = code[s]
        BY <1>1, <2>6, <3>2 DEF Finds, FindMailbox, Fails, StoreCode, ReleaseCooldown, Mails
      <4> QED
        BY <2>1, <3>1, <3>2, <4>1, OtherScene
    <3>3. CASE call[c].scene = s
      <4>1. mail'[s].unsure = mail[s].unsure /\ mail'[s].last = mail[s].last
        BY <1>1, <2>6, <3>3 DEF Finds, FindMailbox, Fails, StoreCode, ReleaseCooldown, Mails
      <4>2. SceneOK(s)
        BY <4>1 DEF ThrottleInv, MailOK
      <4>3. call[c].pc \in Sending => c \in SendsOf(s)
        BY <3>3 DEF SendsOf, Sending, Pending
      <4>4. CASE Fails(c)
        <5>1. misses' # 0
          BY <1>1, <4>4 DEF Fails
        <5>2. CASE call[c].pc \in Sending
          BY <2>6, <3>3, <4>1, <5>1, <5>2, SendEnds
        <5>3. CASE call[c].pc \notin Sending
          BY <2>1, <3>1, <4>4, <5>3, OtherScene DEF Fails
        <5> QED
          BY <5>2, <5>3
      <4>5. CASE Finds(c)
        <5>1. /\ call[c].pc = "find" /\ call[c].pc \in Sending /\ mail'[s].state = "nobody"
              /\ code' = code /\ misses' = misses
          BY <1>1, <3>3, <4>5 DEF Finds, FindMailbox, CallAt, Sending, Pending, Mails
        <5>2. s = "reset"
          BY <1>1, <3>3, <5>1 DEF CallsOK, CallOK
        <5>3. misses' = 0 => Settled(s)'
          BY <4>1, <4>2, <4>3, <5>1, <5>2 DEF SceneOK, Settled
        <5> QED
          BY <2>6, <3>3, <4>1, <5>1, <5>3, SendEnds
      <4>6. CASE StoreCode(c)
        <5>1. /\ call[c].pc = "store" /\ call[c].pc \in Sending /\ code'[s] = call[c].code
              /\ mail' = mail /\ misses' = misses
          BY <1>1, <3>3, <4>6 DEF StoreCode, CallAt, Sending, Pending
        <5>2. misses' = 0 => Settled(s)'
          BY <4>2, <4>3, <5>1 DEF SceneOK, Settled
        <5> QED
          BY <2>6, <3>3, <4>1, <5>1, <5>2, SendEnds
      <4>7. CASE ReleaseCooldown(c)
        <5>1. /\ call[c].pc = "release" /\ call[c].pc \in Sending /\ ~cooldown'[s]
              /\ mail' = mail /\ misses' = misses /\ code' = code
          BY <1>1, <3>3, <4>7 DEF ReleaseCooldown, CallAt, Sending, Pending
        <5>2. misses' = 0 => Settled(s)'
          BY <4>2, <4>3, <5>1 DEF SceneOK, Settled
        <5> QED
          BY <2>6, <3>3, <4>1, <5>1, <5>2, SendEnds
      <4> QED
        BY <2>6, <4>4, <4>5, <4>6, <4>7
    <3> QED
      BY <3>2, <3>3
  <2> QED
    BY <1>5, <2>2, <2>3, <2>4, <2>5, <2>6, <2>7, <2>8 DEF Steps, Finds, Fails
<1> QED
  BY <1>2, <1>3, <1>4, <1>5, StepKinds

-----------------------------------------------------------------------------
LEMMA ThrottleInitial == ThrottleInit => ThrottleInv
<1> SUFFICES ASSUME ThrottleInit PROVE ThrottleInv
  OBVIOUS
<1>1. ThrottleTypeOK
  <2>1. NoKey \in Counter(Threshold) /\ NoKey \in Counter(MailLimit + 1)
    BY ThrottleAssumption DEF NoKey, Counter
  <2>2. 0 \in 0 .. MaxCodes /\ 0 \in 0 .. MaxMisses
    BY ThrottleAssumption
  <2>3. [last |-> 0, state |-> "due", unsure |-> FALSE]
          \in [last : 0 .. MaxCodes, state : MailStates, unsure : BOOLEAN]
    BY <2>2 DEF MailStates
  <2>4. [once |-> {}, twice |-> {}, shared |-> {}] \in Uses
    BY DEF Uses
  <2> QED
    BY <2>1, <2>2, <2>3, <2>4, NoCallIs DEF ThrottleInit, ThrottleTypeOK
<1>2. CallsOK
  BY NoCallIs DEF ThrottleInit, CallsOK, CallOK, Sending, Pending, Using, Mailing
<1>3. CodesOK
  BY NoCallIs
     DEF ThrottleInit, CodesOK, UsedOK, OnceOK, HoldersOf, OwnedOK, FreshOK, Holds, Pending
<1>4. MailOK
  <2>1. \A s \in Scenes : SendsOf(s) = {}
    BY NoCallIs DEF ThrottleInit, SendsOf
  <2> QED
    BY <2>1 DEF ThrottleInit, MailOK, SceneOK, Settled
<1>5. CountersExpire
  BY DEF ThrottleInit, CountersExpire, NoKey
<1> QED
  BY <1>1, <1>2, <1>3, <1>4, <1>5 DEF ThrottleInv

LEMMA ThrottleStep ==
  ASSUME ThrottleInv, [ThrottleNext]_throttleVars
  PROVE  ThrottleInv'
  BY CallsStep, TypesStep, CodesStep, MailStep, CountersStep DEF ThrottleInv

LEMMA AlwaysThrottled == ThrottleSpec => []ThrottleInv
  BY ThrottleInitial, ThrottleStep, PTL DEF ThrottleSpec

\* Every key, number and record of a request stays within its bounds, for every number of
\* clients, scenes, codes and faults.
THEOREM ThrottleTypeCorrect == ThrottleSpec => []ThrottleTypeOK
<1>1. ThrottleInv => ThrottleTypeOK
  BY DEF ThrottleInv
<1> QED
  BY <1>1, AlwaysThrottled, PTL

\* While no command of Redis failed, a counter that runs has a TTL, or the request that
\* will set it is under way (record_failed_login, record_email_code_send_by_ip): no
\* client is asked for a captcha, and no address is blocked, for ever.
THEOREM WindowsEnd == ThrottleSpec => []CountersExpire
<1>1. ThrottleInv => CountersExpire
  BY DEF ThrottleInv
<1> QED
  BY <1>1, AlwaysThrottled, PTL

\* With no send under way the stored code is that of the newest mail, and no cooldown
\* runs for a mail that failed (the email-code routes): by induction on who holds the
\* cooldown.
THEOREM NewestMailWins == ThrottleSpec => []NewestMailCounts
<1>1. ThrottleInv => NewestMailCounts
  BY DEF ThrottleInv, MailOK, SceneOK, Settled, NewestMailCounts
<1> QED
  BY <1>1, AlwaysThrottled, PTL

\* While Redis answers, a code that two requests did not check at a time changes nothing
\* twice (validate_ and consume_email_verification_code, and the sends that race with
\* them): by induction on the code's one holder.
THEOREM WorksOnce == ThrottleSpec => []CodeWorksOnce
<1>1. ASSUME ThrottleInv, NEW k \in used.twice PROVE k \in used.shared \/ misses > 0
  <2>1. k \in 1 .. MaxCodes /\ misses \in Nat
    BY <1>1 DEF ThrottleInv, ThrottleTypeOK, Uses
  <2> QED
    BY <1>1, <2>1 DEF ThrottleInv, CodesOK, UsedOK, OnceOK
<1>2. ThrottleInv => CodeWorksOnce
  BY <1>1 DEF CodeWorksOnce
<1> QED
  BY <1>2, AlwaysThrottled, PTL

=============================================================================
