---------------------------- MODULE AuthThrottle ----------------------------
(***************************************************************************)
(* What slows the sign-in endpoints down, kept in Redis keys that expire:  *)
(* the counter of failed sign-ins with its captcha, the counters of mails  *)
(* that end in a block of the client's address, the cooldown between two   *)
(* mails and the mailed code, which a registration, a change or a reset of *)
(* the password checks first and consumes last.                            *)
(*                                                                         *)
(* One mailbox on one client address, resolved from the connection or from *)
(* a trusted proxy's header.  Every step of a request is one Redis command *)
(* or one query.  What a password change does in between is in AuthTokens; *)
(* the mail counter of the day works like that of the minute and is left   *)
(* out.  Codes are numbered; a user enters the one of the newest mail.     *)
(***************************************************************************)
(* The names differ from those of AuthTokens, so that one module can speak *)
(* of both.                                                                *)
(***************************************************************************)
EXTENDS Integers

CONSTANTS
  Clients,     \* requests under way
  Scenes,      \* what a mailed code is for
  MaxCodes,    \* bound: sends that take a cooldown
  MaxMisses,   \* bound: Redis commands that fail
  Threshold,   \* login_captcha_threshold
  MailLimit    \* email_code_ip_limit_per_minute

ASSUME ThrottleAssumption ==
  /\ MaxCodes \in Nat /\ MaxMisses \in Nat
  /\ Threshold \in Nat \ {0} /\ MailLimit \in Nat \ {0}

ASSUME ScenesAssumption == Scenes \subseteq {"register", "change", "reset"}

VARIABLES
  fails,     \* auth:login_fail: the count, and whether the key has a TTL
  mails,     \* auth:email_code:ip:{scene} of the minute, likewise
  blocked,   \* auth:block_ip
  cooldown,  \* auth:email_code_cooldown:{scene}
  code,      \* auth:email_code:{scene}, 0 for no key
  codes,     \* numbers of codes given out
  mail,      \* per scene: the code mailed last, what became of this cooldown's mail,
             \* whether some send outlived its cooldown or failed after its mail had left
  used,      \* codes that changed something once, those that did so twice, and those
             \* that two requests had checked at a time
  account,   \* whether the mailbox is that of an account
  call,      \* the request of a client
  misses

throttleVars == <<fails, mails, blocked, cooldown, code, codes, mail, used, account, call, misses>>

-----------------------------------------------------------------------------
NoKey == [count |-> 0, ttl |-> FALSE]

Counter(limit) == [count : 0 .. limit, ttl : BOOLEAN]

CallPcs == {"idle", "count", "auth", "incr", "expire", "clear",
            "block", "tally", "window", "limit", "cool", "find", "post", "store", "release",
            "check", "look", "commit", "consume"}

Call == [op : {"none", "login", "send", "register", "change", "reset"}, pc : CallPcs,
         scene : Scenes \union {"none"}, code : 0 .. MaxCodes, n : 0 .. MailLimit + 1]
NoCall == [op |-> "none", pc |-> "idle", scene |-> "none", code |-> 0, n |-> 0]

\* "due": no mail of this cooldown has left; "nobody": none is due, as no account has
\* the mailbox.
MailStates == {"due", "left", "nobody"}

Uses ==
  [once : SUBSET (1 .. MaxCodes), twice : SUBSET (1 .. MaxCodes), shared : SUBSET (1 .. MaxCodes)]

ThrottleTypeOK ==
  /\ fails \in Counter(Threshold)
  /\ mails \in [Scenes -> Counter(MailLimit + 1)]
  /\ blocked \in BOOLEAN
  /\ cooldown \in [Scenes -> BOOLEAN]
  /\ code \in [Scenes -> 0 .. MaxCodes]
  /\ codes \in 0 .. MaxCodes
  /\ mail \in [Scenes -> [last : 0 .. MaxCodes, state : MailStates, unsure : BOOLEAN]]
  /\ used \in Uses
  /\ account \in BOOLEAN
  /\ call \in [Clients -> Call]
  /\ misses \in 0 .. MaxMisses

ThrottleInit ==
  /\ fails = NoKey
  /\ mails = [s \in Scenes |-> NoKey]
  /\ blocked = FALSE
  /\ cooldown = [s \in Scenes |-> FALSE]
  /\ code = [s \in Scenes |-> 0]
  /\ codes = 0
  /\ mail = [s \in Scenes |-> [last |-> 0, state |-> "due", unsure |-> FALSE]]
  /\ used = [once |-> {}, twice |-> {}, shared |-> {}]
  /\ account \in BOOLEAN
  /\ call = [c \in Clients |-> NoCall]
  /\ misses = 0

-----------------------------------------------------------------------------
CallAt(c, pc) == call[c].pc = pc
CallGoes(c, pc) == call' = [call EXCEPT ![c].pc = pc]
CallEnds(c) == call' = [call EXCEPT ![c] = NoCall]

CallStarts(c, op, pc, scene, k) ==
  /\ CallAt(c, "idle")
  /\ call' = [call EXCEPT ![c] = [NoCall EXCEPT !.op = op, !.pc = pc, !.scene = scene,
                                                !.code = k]]

\* INCR, counted up to the bound "limit" only.
Incr(key, limit) == [key EXCEPT !.count = IF @ < limit THEN @ + 1 ELSE @]

\* EXPIRE has no effect on a key that is gone.
Expire(key) == [key EXCEPT !.ttl = key.count > 0]

-----------------------------------------------------------------------------
(***************************************************************************)
(* POST /login                                                             *)
(***************************************************************************)

SubmitCredentials(c) ==
  /\ CallStarts(c, "login", "count", "none", 0)
  /\ UNCHANGED <<fails, mails, blocked, cooldown, code, codes, mail, used, account, misses>>

\* From the threshold on a captcha must be solved; a missing or wrong one is refused
\* without being counted.
ReadFailures(c) ==
  /\ CallAt(c, "count")
  /\ \/ CallGoes(c, "auth")
     \/ fails.count >= Threshold /\ CallEnds(c)
  /\ UNCHANGED <<fails, mails, blocked, cooldown, code, codes, mail, used, account, misses>>

CheckPassword(c) ==
  /\ CallAt(c, "auth")
  /\ CallGoes(c, "clear") \/ CallGoes(c, "incr")
  /\ UNCHANGED <<fails, mails, blocked, cooldown, code, codes, mail, used, account, misses>>

CountFailure_LateWindow(c) ==
  /\ CallAt(c, "incr")
  /\ fails' = Incr(fails, Threshold)
  /\ IF fails.count = Threshold THEN CallGoes(c, "expire") ELSE CallEnds(c)
  /\ UNCHANGED <<mails, blocked, cooldown, code, codes, mail, used, account, misses>>

\* record_failed_login: the count that starts a window also sets its TTL.
CountFailure(c) ==
  /\ CallAt(c, "incr")
  /\ fails' = Incr(fails, Threshold)
  /\ IF fails.count = 0 THEN CallGoes(c, "expire") ELSE CallEnds(c)
  /\ UNCHANGED <<mails, blocked, cooldown, code, codes, mail, used, account, misses>>

StartFailWindow(c) ==
  /\ CallAt(c, "expire")
  /\ fails' = Expire(fails)
  /\ CallEnds(c)
  /\ UNCHANGED <<mails, blocked, cooldown, code, codes, mail, used, account, misses>>

\* The sign-in succeeded: the counter goes, then the captcha.
ClearFailures(c) ==
  /\ CallAt(c, "clear")
  /\ fails' = NoKey
  /\ CallEnds(c)
  /\ UNCHANGED <<mails, blocked, cooldown, code, codes, mail, used, account, misses>>

-----------------------------------------------------------------------------
(***************************************************************************)
(* POST .../email-code                                                     *)
(***************************************************************************)

\* A code for a change is sent to the user who is signed in.
SubmitSend(c) ==
  /\ \E s \in Scenes : (s = "change" => account) /\ CallStarts(c, "send", "block", s, 0)
  /\ UNCHANGED <<fails, mails, blocked, cooldown, code, codes, mail, used, account, misses>>

\* is_ip_blocked comes first, then the counter.
CheckBlock(c) ==
  /\ CallAt(c, "block")
  /\ IF blocked THEN CallEnds(c) ELSE CallGoes(c, "tally")
  /\ UNCHANGED <<fails, mails, blocked, cooldown, code, codes, mail, used, account, misses>>

TallyMail(c) ==
  /\ CallAt(c, "tally")
  /\ LET s == call[c].scene IN
       /\ mails' = [mails EXCEPT ![s] = Incr(@, MailLimit + 1)]
       /\ call' = [call EXCEPT ![c].n = mails'[s].count,
                               ![c].pc = IF mails[s].count = 0 THEN "window" ELSE "limit"]
  /\ UNCHANGED <<fails, blocked, cooldown, code, codes, mail, used, account, misses>>

StartMailWindow(c) ==
  /\ CallAt(c, "window")
  /\ mails' = [mails EXCEPT ![call[c].scene] = Expire(@)]
  /\ CallGoes(c, "limit")
  /\ UNCHANGED <<fails, blocked, cooldown, code, codes, mail, used, account, misses>>

\* The count this request saw decides; over the limit the address is blocked.
CheckLimit(c) ==
  /\ CallAt(c, "limit")
  /\ IF call[c].n > MailLimit
       THEN blocked' = TRUE /\ CallEnds(c)
       ELSE /\ call' = [call EXCEPT ![c].pc = "cool", ![c].n = 0]
            /\ UNCHANGED blocked
  /\ UNCHANGED <<fails, mails, cooldown, code, codes, mail, used, account, misses>>

\* SET NX; the request that wins has a number for its code, which a reset makes after
\* the look-up.
AcquireCooldown(c) ==
  /\ CallAt(c, "cool")
  /\ LET s == call[c].scene IN
       IF cooldown[s] \/ codes = MaxCodes  \* the bound
         THEN CallEnds(c) /\ UNCHANGED <<cooldown, codes, mail>>
         ELSE /\ cooldown' = [cooldown EXCEPT ![s] = TRUE]
              /\ codes' = codes + 1
              /\ mail' = [mail EXCEPT ![s].state = "due"]
              /\ call' = [call EXCEPT ![c].pc = IF s = "reset" THEN "find" ELSE "post",
                                      ![c].code = codes + 1]
  /\ UNCHANGED <<fails, mails, blocked, code, used, account, misses>>

\* A reset of a mailbox without an account is answered like one that was mailed, and
\* keeps the cooldown.
FindMailbox(c) ==
  /\ CallAt(c, "find")
  /\ IF account
       THEN CallGoes(c, "post") /\ UNCHANGED mail
       ELSE CallEnds(c) /\ mail' = [mail EXCEPT ![call[c].scene].state = "nobody"]
  /\ UNCHANGED <<fails, mails, blocked, cooldown, code, codes, used, account, misses>>

PostMail_NoRelease(c) ==
  /\ CallAt(c, "post")
  /\ \/ /\ mail' = [mail EXCEPT ![call[c].scene].last = call[c].code,
                               ![call[c].scene].state = "left"]
        /\ CallGoes(c, "store")
     \/ CallEnds(c) /\ UNCHANGED mail
  /\ UNCHANGED <<fails, mails, blocked, cooldown, code, codes, used, account, misses>>

\* The mail leaves in a thread, or RuntimeError: before it left, or after, when the
\* server's answer does not come in time.
PostMail(c) ==
  /\ CallAt(c, "post")
  /\ \/ /\ mail' = [mail EXCEPT ![call[c].scene].last = call[c].code,
                               ![call[c].scene].state = "left"]
        /\ CallGoes(c, "store")
     \/ CallGoes(c, "release") /\ UNCHANGED mail
     \/ /\ mail' = [mail EXCEPT ![call[c].scene] =
                      [last |-> call[c].code, state |-> "left", unsure |-> TRUE]]
        /\ CallGoes(c, "release")
  /\ UNCHANGED <<fails, mails, blocked, cooldown, code, codes, used, account, misses>>

StoreCode(c) ==
  /\ CallAt(c, "store")
  /\ code' = [code EXCEPT ![call[c].scene] = call[c].code]
  /\ CallEnds(c)
  /\ UNCHANGED <<fails, mails, blocked, cooldown, codes, mail, used, account, misses>>

ReleaseCooldown(c) ==
  /\ CallAt(c, "release")
  /\ cooldown' = [cooldown EXCEPT ![call[c].scene] = FALSE]
  /\ CallEnds(c)
  /\ UNCHANGED <<fails, mails, blocked, code, codes, mail, used, account, misses>>

-----------------------------------------------------------------------------
(***************************************************************************)
(* POST /register, /change-password and /reset-password                    *)
(***************************************************************************)

\* The user enters the code of the newest mail; a change needs a signed-in user.
SubmitCode(c) ==
  /\ \E s \in Scenes :
       /\ mail[s].last # 0
       /\ s = "change" => account
       /\ CallStarts(c, s, "check", s, mail[s].last)
  /\ UNCHANGED <<fails, mails, blocked, cooldown, code, codes, mail, used, account, misses>>

\* The requests that have checked code k and not consumed it yet.
HoldersOf(k) == {c \in Clients : call[c].code = k /\ call[c].pc \in {"look", "commit", "consume"}}

\* validate_email_verification_code reads the code and leaves it.
CheckCode(c) ==
  /\ CallAt(c, "check")
  /\ LET k == call[c].code IN
       IF code[call[c].scene] = k
         THEN /\ CallGoes(c, "look")
              /\ used' = [used EXCEPT !.shared = IF HoldersOf(k) = {} THEN @ ELSE @ \union {k}]
         ELSE CallEnds(c) /\ UNCHANGED used
  /\ UNCHANGED <<fails, mails, blocked, cooldown, code, codes, mail, account, misses>>

\* The account is loaded: a registration ends in a conflict with it or with one of its
\* name, a reset without it, a change with the wrong password.
MatchAccount(c) ==
  /\ CallAt(c, "look")
  /\ \/ /\ call[c].op = "register" => ~account
        /\ call[c].op = "reset" => account
        /\ CallGoes(c, "commit")
     \/ /\ call[c].op = "reset" => ~account
        /\ CallEnds(c)
  /\ UNCHANGED <<fails, mails, blocked, cooldown, code, codes, mail, used, account, misses>>

\* The unique columns refuse the second of two registrations that found no account.
CommitChange(c) ==
  /\ CallAt(c, "commit")
  /\ account' = (account \/ call[c].op = "register")
  /\ LET k == call[c].code IN
       IF account /\ call[c].op = "register"
         THEN CallEnds(c) /\ UNCHANGED used
         ELSE /\ CallGoes(c, "consume")
              /\ used' = [used EXCEPT !.once  = @ \union {k},
                                      !.twice = @ \union ({k} \intersect used.once)]
  /\ UNCHANGED <<fails, mails, blocked, cooldown, code, codes, mail, misses>>

ConsumeCode_Keeps(c) ==
  /\ CallAt(c, "consume")
  /\ CallEnds(c)
  /\ UNCHANGED <<fails, mails, blocked, cooldown, code, codes, mail, used, account, misses>>

\* The key is deleted, whichever code it holds by now.
ConsumeCode(c) ==
  /\ CallAt(c, "consume")
  /\ code' = [code EXCEPT ![call[c].scene] = 0]
  /\ CallEnds(c)
  /\ UNCHANGED <<fails, mails, blocked, cooldown, codes, mail, used, account, misses>>

-----------------------------------------------------------------------------
\* AuthCacheUnavailableError: the request answers 503 and undoes nothing.  It is caught
\* before RuntimeError, whose subclass it is, so no cooldown is released either.
StoreFails(c) ==
  /\ call[c].pc \notin {"idle", "auth", "find", "post", "look", "commit"}
  /\ misses < MaxMisses
  /\ misses' = misses + 1
  /\ CallEnds(c)
  /\ UNCHANGED <<fails, mails, blocked, cooldown, code, codes, mail, used, account>>

FailWindowEnds ==
  /\ fails.ttl
  /\ fails' = NoKey
  /\ UNCHANGED <<mails, blocked, cooldown, code, codes, mail, used, account, call, misses>>

MailWindowEnds ==
  /\ \E s \in Scenes : mails[s].ttl /\ mails' = [mails EXCEPT ![s] = NoKey]
  /\ UNCHANGED <<fails, blocked, cooldown, code, codes, mail, used, account, call, misses>>

BlockEnds ==
  /\ blocked
  /\ blocked' = FALSE
  /\ UNCHANGED <<fails, mails, cooldown, code, codes, mail, used, account, call, misses>>

SendsOf(s) ==
  {c \in Clients : call[c].scene = s /\ call[c].pc \in {"find", "post", "store", "release"}}

CooldownEnds ==
  /\ \E s \in Scenes :
       /\ cooldown[s]
       /\ cooldown' = [cooldown EXCEPT ![s] = FALSE]
       /\ mail' = [mail EXCEPT ![s].unsure = @ \/ SendsOf(s) # {}]
  /\ UNCHANGED <<fails, mails, blocked, code, codes, used, account, call, misses>>

CodeExpires ==
  /\ \E s \in Scenes : code[s] # 0 /\ code' = [code EXCEPT ![s] = 0]
  /\ UNCHANGED <<fails, mails, blocked, cooldown, codes, mail, used, account, call, misses>>

-----------------------------------------------------------------------------
Login(c) ==
  \/ SubmitCredentials(c)
  \/ ReadFailures(c)
  \/ CheckPassword(c)
  \/ CountFailure(c)
  \/ StartFailWindow(c)
  \/ ClearFailures(c)

SendCode(c) ==
  \/ SubmitSend(c)
  \/ CheckBlock(c)
  \/ TallyMail(c)
  \/ StartMailWindow(c)
  \/ CheckLimit(c)
  \/ AcquireCooldown(c)
  \/ FindMailbox(c)
  \/ PostMail(c)
  \/ StoreCode(c)
  \/ ReleaseCooldown(c)

UseCode(c) ==
  \/ SubmitCode(c)
  \/ CheckCode(c)
  \/ MatchAccount(c)
  \/ CommitChange(c)
  \/ ConsumeCode(c)

ThrottleNext ==
  \/ \E c \in Clients :
       \/ Login(c)
       \/ SendCode(c)
       \/ UseCode(c)
       \/ StoreFails(c)
  \/ FailWindowEnds
  \/ MailWindowEnds
  \/ BlockEnds
  \/ CooldownEnds
  \/ CodeExpires

ThrottleSpec == ThrottleInit /\ [][ThrottleNext]_throttleVars

-----------------------------------------------------------------------------
\* A counter without a TTL would ask for a captcha, or block the address, for ever:
\* there is one only while the request that started the window is about to set its TTL,
\* or after Redis failed there.
CountersExpire ==
  misses = 0 =>
    /\ fails.count > 0 /\ ~fails.ttl => \E c \in Clients : CallAt(c, "expire")
    /\ \A s \in Scenes : mails[s].count > 0 /\ ~mails[s].ttl =>
         \E c \in Clients : CallAt(c, "window") /\ call[c].scene = s

\* With no send under way, no fault, no send slower than its cooldown and none whose
\* failure came after its mail, the stored code is the one in the newest mail, and a
\* cooldown runs only if its mail left or no account has the mailbox: nobody waits for a
\* mail that failed.
NewestMailCounts ==
  \A s \in Scenes : SendsOf(s) = {} /\ ~mail[s].unsure /\ misses = 0 =>
    /\ code[s] \in {0, mail[s].last}
    /\ cooldown[s] => mail[s].state = "left" \/ (s = "reset" /\ mail[s].state = "nobody")

\* A code changes something a second time only if the two requests had checked it at a
\* time, or if Redis failed before it was consumed: one that was consumed is neither
\* stored again nor deleted too late, whatever other sends and changes of its scene do.
CodeWorksOnce == \A k \in used.twice : k \in used.shared \/ misses > 0

=============================================================================
