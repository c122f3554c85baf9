----------------------------- MODULE AuthTokens -----------------------------
(***************************************************************************)
(* One account, the browser tabs signed in to it and the requests they     *)
(* send: sign-in, rotation of refresh tokens, sign-out, and a changed or   *)
(* forgotten password.  The tabs share localStorage; the requests share    *)
(* Redis, one command or MULTI block at a time, and the account's row.     *)
(* Whether a captcha or a mailed code is accepted is left open here        *)
(* (AuthThrottle has the counters and the codes).                          *)
(*                                                                         *)
(* A token pair is its number in the order of issue.  A password is its    *)
(* version: the wrong one is version 0.  A tab has one request under way,  *)
(* and is not loaded anew before that has ended; GET /me is an outcome of  *)
(* the step that waits for it.                                             *)
(***************************************************************************)
EXTENDS Naturals, Sequences, FiniteSets

CONSTANTS
  Tabs,        \* browser tabs
  MaxTokens,   \* bound: token pairs issued
  MaxChanges,  \* bound: committed changes of the password
  MaxFaults    \* bound: Redis commands that fail

ASSUME BoundsAssumption == MaxTokens \in Nat /\ MaxChanges \in Nat /\ MaxFaults \in Nat

VARIABLES
  live,      \* keys auth:refresh:{jti}
  index,     \* members of auth:user_refresh:{user}
  issued,    \* the pairs issued, each with how it came about
  password,  \* version in the account's row
  revoked,   \* the newest version whose revoke_all has finished
  storage,   \* the pair in localStorage, 0 for none
  mem,       \* the pair a tab's store holds in memory, 0 for none
  req,       \* the request of a tab
  faults

vars == <<live, index, issued, password, revoked, storage, mem, req, faults>>
tokens == <<live, index, issued, revoked>>
browser == <<storage, mem>>

-----------------------------------------------------------------------------
Tokens == 1 .. MaxTokens

\* "parent" is the pair it was exchanged for; "since" the newest version whose revocation
\* had finished when it was written; "swept" that a revocation had then read the index but
\* not yet deleted it.
Issue == [parent : 0 .. MaxTokens, since : 0 .. MaxChanges + 1, swept : BOOLEAN]

\* "seen" is the version typed, then the one checked or committed; "jtis" what
\* SMEMBERS returned.
Request == [op : {"none", "login", "refresh", "logout", "change", "reset"},
            pc : {"idle", "auth", "validate", "revoke", "set",
                  "clear", "look", "commit", "read", "wipe", "consume", "reply"},
            token : 0 .. MaxTokens, seen : 0 .. MaxChanges + 1, jtis : SUBSET Tokens,
            status : {"none", "ok", "denied", "down"}]

Ask(op, pc, j, v) ==
  [op |-> op, pc |-> pc, token |-> j, seen |-> v, jtis |-> {}, status |-> "none"]

Answer(op, j, status) ==
  [op |-> op, pc |-> "reply", token |-> j, seen |-> 0, jtis |-> {}, status |-> status]

NoRequest == Ask("none", "idle", 0, 0)

TypeOK ==
  /\ live \subseteq Tokens
  /\ index \subseteq Tokens
  /\ issued \in Seq(Issue) /\ Len(issued) <= MaxTokens
  /\ password \in 1 .. MaxChanges + 1
  /\ revoked \in 0 .. MaxChanges + 1
  /\ storage \in 0 .. MaxTokens
  /\ mem \in [Tabs -> 0 .. MaxTokens]
  /\ req \in [Tabs -> Request]
  /\ faults \in 0 .. MaxFaults

Init ==
  /\ live = {} /\ index = {} /\ issued = <<>>
  /\ password = 1 /\ revoked = 0
  /\ storage = 0
  /\ mem = [t \in Tabs |-> 0]
  /\ req = [t \in Tabs |-> NoRequest]
  /\ faults = 0

-----------------------------------------------------------------------------
At(t, op, pc) == req[t].op = op /\ req[t].pc = pc
Goes(t, pc) == req' = [req EXCEPT ![t].pc = pc]
Answers(t, status) ==
  req' = [req EXCEPT ![t] = Answer(req[t].op, req[t].token, status)]

Sends(t, op, pc, j, v) ==
  /\ req[t].pc = "idle"
  /\ req' = [req EXCEPT ![t] = Ask(op, pc, j, v)]

NewToken == Len(issued) + 1

\* The bounds: a request that may issue a token, or change the password, is sent only
\* while there is room for what those under way may still add.
Underway(ops) ==
  Cardinality({t \in Tabs : req[t].op \in ops /\ req[t].pc \notin {"clear", "reply"}})
TokenRoom == NewToken + Underway({"login", "refresh"}) \in Tokens
ChangeRoom == password + Underway({"change", "reset"}) <= MaxChanges

\* Some revocation has read the index and not yet deleted it.
Sweeping == \E t \in Tabs : req[t].pc = "wipe"

-----------------------------------------------------------------------------
(***************************************************************************)
(* POST /login                                                             *)
(***************************************************************************)

\* The user of a signed-out tab types the password, or another.
SubmitLogin(t) ==
  /\ mem[t] = 0 /\ TokenRoom
  /\ \E v \in {0, password} : Sends(t, "login", "auth", 0, v)
  /\ UNCHANGED <<tokens, password, browser, faults>>

\* authenticate_user, after the failure counter and the captcha: the password, then
\* last_login_at in a commit of its own.
Authenticate(t) ==
  /\ At(t, "login", "auth")
  /\ \/ req[t].seen = password /\ Goes(t, "set")
     \/ Answers(t, "denied")
  /\ UNCHANGED <<tokens, password, browser, faults>>

\* set_refresh_token: the key and the user's index in one MULTI block.  What admitted the
\* request, a password or a pair, is not looked at again.
IssueToken(t) ==
  /\ req[t].pc = "set"
  /\ NewToken \in Tokens
  /\ live' = live \union {NewToken}
  /\ index' = index \union {NewToken}
  /\ issued' = Append(issued, [parent |-> req[t].token, since |-> revoked, swept |-> Sweeping])
  /\ req' = [req EXCEPT ![t] = IF req[t].op = "login" THEN Ask("login", "clear", NewToken, 0)
                               ELSE Answer(req[t].op, NewToken, "ok")]
  /\ UNCHANGED <<revoked, password, browser, faults>>

\* The failure counter is reset and the captcha revoked: the token is issued by then.
FinishLogin(t) ==
  /\ At(t, "login", "clear")
  /\ Answers(t, "ok")
  /\ UNCHANGED <<tokens, password, browser, faults>>

-----------------------------------------------------------------------------
(***************************************************************************)
(* POST /refresh and POST /logout                                          *)
(***************************************************************************)

ValidateToken_NoRevoke(t) ==
  /\ At(t, "refresh", "validate")
  /\ IF req[t].token \in live
       THEN req' = [req EXCEPT ![t] = Ask("refresh", "set", req[t].token, 0)]
       ELSE Answers(t, "denied")
  /\ UNCHANGED <<tokens, password, browser, faults>>

\* refresh_token_pair: the key must still be there, then is deleted, then the next
\* pair is issued; three calls.
ValidateToken(t) ==
  /\ At(t, "refresh", "validate")
  /\ IF req[t].token \in live
       THEN req' = [req EXCEPT ![t] = Ask("refresh", "revoke", req[t].token, 0)]
       ELSE Answers(t, "denied")
  /\ UNCHANGED <<tokens, password, browser, faults>>

\* revoke_refresh_token: a key that is gone leaves the index alone.
RevokeToken(t) ==
  /\ req[t].pc = "revoke"
  /\ live' = live \ {req[t].token}
  /\ index' = IF req[t].token \in live THEN index \ {req[t].token} ELSE index
  /\ IF req[t].op = "refresh" THEN Goes(t, "set") ELSE Answers(t, "ok")
  /\ UNCHANGED <<issued, revoked, password, browser, faults>>

\* The user signs out; the store does so with the pair it holds.
SubmitLogout(t) ==
  /\ mem[t] # 0
  /\ Sends(t, "logout", "revoke", mem[t], 0)
  /\ UNCHANGED <<tokens, password, browser, faults>>

-----------------------------------------------------------------------------
(***************************************************************************)
(* POST /change-password and POST /reset-password                          *)
(***************************************************************************)

\* A change needs a signed-in tab and the current password, a reset neither.
SubmitPassword(t) ==
  /\ ChangeRoom
  /\ \/ /\ mem[t] # 0
        /\ \E v \in {0, password} : Sends(t, "change", "look", 0, v)
     \/ Sends(t, "reset", "look", 0, 0)
  /\ UNCHANGED <<tokens, password, browser, faults>>

\* The access token, the mailed code and, for a change, the current password.
LookUpAccount(t) ==
  /\ req[t].pc = "look"
  /\ \/ Answers(t, "denied")
     \/ /\ req[t].op = "change" => req[t].seen = password
        /\ Goes(t, "commit")
  /\ UNCHANGED <<tokens, password, browser, faults>>

CommitPassword(t) ==
  /\ req[t].pc = "commit"
  /\ password <= MaxChanges
  /\ password' = password + 1
  /\ req' = [req EXCEPT ![t] = Ask(req[t].op, "read", 0, password + 1)]
  /\ UNCHANGED <<tokens, browser, faults>>

\* revoke_all_refresh_tokens_for_user: SMEMBERS, then the keys it returned and the
\* index itself in one MULTI block.
ReadIndex(t) ==
  /\ req[t].pc = "read"
  /\ req' = [req EXCEPT ![t].pc = "wipe", ![t].jtis = index]
  /\ UNCHANGED <<tokens, password, browser, faults>>

WipeTokens_IndexOnly(t) ==
  /\ req[t].pc = "wipe"
  /\ index' = {}
  /\ revoked' = IF revoked < req[t].seen THEN req[t].seen ELSE revoked
  /\ req' = [req EXCEPT ![t] = Ask(req[t].op, "consume", 0, 0)]
  /\ UNCHANGED <<live, issued, password, browser, faults>>

WipeTokens(t) ==
  /\ req[t].pc = "wipe"
  /\ live' = live \ req[t].jtis
  /\ index' = {}
  /\ revoked' = IF revoked < req[t].seen THEN req[t].seen ELSE revoked
  /\ req' = [req EXCEPT ![t] = Ask(req[t].op, "consume", 0, 0)]
  /\ UNCHANGED <<issued, password, browser, faults>>

\* The code is consumed; the notice that follows may fail without changing the answer.
FinishPassword(t) ==
  /\ req[t].pc = "consume"
  /\ Answers(t, "ok")
  /\ UNCHANGED <<tokens, password, browser, faults>>

-----------------------------------------------------------------------------
(***************************************************************************)
(* Redis: keys expire, and a command may fail                              *)
(***************************************************************************)

\* AuthCacheUnavailableError: the request answers 503 at once and undoes nothing.
RedisFails(t) ==
  /\ req[t].pc \in {"auth", "set", "clear", "validate", "revoke", "look",
                    "read", "wipe", "consume"}
  /\ faults < MaxFaults
  /\ faults' = faults + 1
  /\ Answers(t, "down")
  /\ UNCHANGED <<tokens, password, browser>>

TokenExpires ==
  /\ \E j \in live : live' = live \ {j}
  /\ UNCHANGED <<index, issued, revoked, password, browser, req, faults>>

-----------------------------------------------------------------------------
(***************************************************************************)
(* The auth store of a tab                                                 *)
(***************************************************************************)

SetTokens(t, j) ==
  /\ storage' = j
  /\ mem' = [mem EXCEPT ![t] = j]

ClearAuth(t) == SetTokens(t, 0)

\* initialize, at a page load: the pair in localStorage is taken over and tried.  A 401
\* is followed by a refresh, any other failure clears the session.
Initialize(t) ==
  /\ req[t].pc = "idle"
  /\ \/ /\ mem' = [mem EXCEPT ![t] = storage]
        /\ UNCHANGED <<storage, req>>
     \/ /\ storage # 0 /\ TokenRoom
        /\ mem' = [mem EXCEPT ![t] = storage]
        /\ Sends(t, "refresh", "validate", storage, 0)
        /\ UNCHANGED storage
     \/ /\ storage # 0
        /\ ClearAuth(t)
        /\ UNCHANGED req
  /\ UNCHANGED <<tokens, password, faults>>

\* The answer, or that it got lost, reaches the page.  A sign-out clears the session
\* whatever it says, a refresh that did not succeed too, also when the new pair is then
\* refused; after a sign-in the pair stays.
Receive(t) ==
  /\ req[t].pc = "reply"
  /\ req' = [req EXCEPT ![t] = NoRequest]
  /\ \/ /\ req[t].status = "ok" /\ req[t].op \in {"login", "refresh"}
        /\ SetTokens(t, req[t].token)
     \/ /\ req[t].op \in {"logout", "refresh"}
        /\ ClearAuth(t)
     \/ /\ req[t].op \in {"login", "change", "reset"}
        /\ UNCHANGED browser
  /\ UNCHANGED <<tokens, password, faults>>

-----------------------------------------------------------------------------
SignIn(t) ==
  \/ SubmitLogin(t)
  \/ Authenticate(t)
  \/ IssueToken(t)
  \/ FinishLogin(t)

Rotate(t) ==
  \/ ValidateToken(t)
  \/ RevokeToken(t)
  \/ SubmitLogout(t)

ChangePassword(t) ==
  \/ SubmitPassword(t)
  \/ LookUpAccount(t)
  \/ CommitPassword(t)
  \/ ReadIndex(t)
  \/ WipeTokens(t)
  \/ FinishPassword(t)

Next ==
  \/ \E t \in Tabs :
       \/ SignIn(t)
       \/ Rotate(t)
       \/ ChangePassword(t)
       \/ Initialize(t)
       \/ Receive(t)
       \/ RedisFails(t)
  \/ TokenExpires

Spec == Init /\ [][Next]_vars

-----------------------------------------------------------------------------
Issued == 1 .. Len(issued)

\* A refresh token that is live can be found through its user's index, which is how a
\* changed password revokes it; the one exception is a token written between the two
\* calls of another revocation.
LiveIsIndexed ==
  \A j \in live : j \in index \/ issued[j].swept

\* Once the revocation of a changed password has finished, what is live was written after
\* that, or between the two calls of a revocation.  "Written", not "admitted": a sign-in
\* or a rotation that was let in before the change may write its token after the
\* revocation has ended, and that token lives on.
OldTokensAreDead ==
  \A j \in live : issued[j].since >= revoked \/ issued[j].swept

\* A token that was exchanged is dead by the time its successor exists, whoever else
\* exchanges or revokes it at the same time.
RotatedIsDead ==
  \A j \in Issued : issued[j].parent \notin live

=============================================================================
