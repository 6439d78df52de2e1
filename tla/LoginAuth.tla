----------------------------- MODULE LoginAuth ------------------------------
(***************************************************************************)
(* The accounts of one email address: register, login with its lockout,    *)
(* verify_otp, setup_mfa, enable_mfa and refresh (api/routes/auth.py),     *)
(* get_current_principal (api/deps.py), and the store of one-time          *)
(* challenges (core/otp_store.py) in Redis or in a process's own memory.   *)
(*                                                                         *)
(* Handlers run concurrently, each in one of the worker processes; every   *)
(* access to the database or to the challenge store is a step.  Lock times *)
(* are numbered: locked_until is 0 (none) or the number of the lock, and   *)
(* the locks up to "over" have passed.  (No handler sets is_active or      *)
(* is_blocked of a user: they stay as register sets them.)                 *)
(***************************************************************************)
EXTENDS Request, FiniteSetsExt

CONSTANTS
  Handlers,     \* concurrent request handlers
  Processes,    \* worker processes
  ProcessOf,    \* handler -> the process it runs in
  AsIssuer,     \* whether accounts are registered with the role of an issuer
  Users,        \* bound: the accounts that can be created
  Secrets,      \* bound: the TOTP secrets that can be generated
  Challenges,   \* bound: the challenges that can be issued
  MaxAttempts,  \* MAX_FAILED_ATTEMPTS
  MaxLocks,     \* bound: the locks that can be set
  MaxRequests   \* bound: the requests that can be made

ASSUME LockoutAssumption == MaxAttempts \in Nat \ {0} /\ MaxLocks \in Nat
ASSUME NamesAssumption ==
  /\ Users \cap {"audit", "did", "profile"} = {}
  /\ "none" \notin Secrets \cup Challenges
  /\ "nowhere" \notin Processes /\ ProcessOf \in [Handlers -> Processes]

VARIABLES
  store,     \* the users, as MongoDB holds them
  inserted,  \* <<collection, record>>: what else was stored
  locks,     \* the number of the latest lock
  over,      \* the number of the latest lock that has run out
  otp,       \* where each challenge is kept: nowhere, in Redis, in a process
  client,    \* process -> what _redis_client says
  redisUp,   \* whether Redis answers
  tokens,    \* the kinds of unexpired tokens the user has
  req,       \* the handlers
  local,     \* their local variables
  made,      \* the number of requests made
  stale,     \* history: <<h, x>>: user or challenge x has changed since h read it
  spent,     \* history: challenge -> the number of sign-ins with it
  guesses,   \* history: user -> wrong passwords since a right one or the end of a lock
  lapped     \* history: the users of whom a stale copy was stored since then

handlers == <<req, local, stale>>
data == <<store, inserted, locks, otp>>
around == <<over, client, redisUp>>
history == <<spent, guesses, lapped>>
vars == <<data, around, tokens, handlers, made, history>>

Absent == [status |-> "absent"]
NoSecret == "none"
Nowhere == "nowhere"
NoLocals == [user |-> "none", challenge |-> "none"]
NewUser == [attempts |-> 0, locked |-> 0, mfa |-> FALSE, secret |-> NoSecret]

NoGuesses == [u \in Users |-> 0]

Stored(u) == store[u] # Absent
Idles(h) == req[h].pc = "idle"
Logged(op, id) == <<"audit", <<op, id>>>> \in inserted

\* The events of sign-ins and of setup_mfa, of which nothing depends.
Routine == <<"routine", "user">>

\* The user object handler h holds, its first.
Copy(h) == ValOf(req[h].session, 1)

\* A handler has read user u and leaves its copy with value val.
Read(u, op, val) == Start(op, Assign(Fetch(NoSession, u, store[u]), 1, val), op)

\* Handler h takes a request, which is r with local variables l after its first
\* access.
Begin(h, r, l) ==
  /\ Idles(h)
  /\ made < MaxRequests /\ made' = made + 1
  /\ req' = [req EXCEPT ![h] = r]
  /\ local' = [local EXCEPT ![h] = l]
  /\ UNCHANGED stale

-----------------------------------------------------------------------------
(* Registration *)

\* (Mutant: any email is accepted.)
FreeAnyway == \E u \in Users : ~Stored(u)

Free == \A u \in Users : ~Stored(u)

\* register finds no account with the email.  The user is stored before its
\* DID profile, and an issuer's profile, are added.
Register(h) ==
  /\ Free
  /\ \E u \in Users :
       /\ ~Stored(u) /\ \A g \in Handlers : local[g].user # u
       /\ Begin(h, Flush(Start("register", AddNew(NoSession, u, NewUser), "did"), "did"),
                [NoLocals EXCEPT !.user = u])
  /\ UNCHANGED <<data, around, tokens, history>>

AddProfiles(h) ==
  LET u == local[h].user
      s == IF AsIssuer THEN AddNew(req[h].session, "profile", u) ELSE req[h].session
      r == [req[h] EXCEPT !.session = AddNew(s, "did", u)]
  IN  /\ req[h].pc = "did"
      /\ req' = [req EXCEPT ![h] = LogEvent(r, <<"register", u>>, "idle")]
      /\ UNCHANGED <<data, around, tokens, local, stale, made, history>>

-----------------------------------------------------------------------------
(* Login *)

\* (Mutant: a locked account is refused a wrong password only.)
RefusedIfWrong(user, right) == user.locked > over /\ ~right

Refused(user, right) == user.locked > over

\* (Mutant: one attempt too many.)
LocksLate(attempts) == attempts > MaxAttempts

Locks(attempts) == attempts >= MaxAttempts

\* The password is wrong: the attempt is counted, and may lock the account.
WrongPassword(h, u) ==
  LET counted == [store[u] EXCEPT !.attempts = @ + 1]
      locking == Locks(counted.attempts)
      r == Read(u, "fail", IF locking THEN [counted EXCEPT !.locked = locks + 1] ELSE counted)
  IN  /\ Stored(u) /\ ~Refused(store[u], FALSE)
      /\ locking => locks < MaxLocks
      /\ locks' = IF locking THEN locks + 1 ELSE locks
      /\ Begin(h, IF locking THEN LogEvent(r, <<"lock", locks + 1>>, "idle") ELSE Flush(r, "idle"),
               [NoLocals EXCEPT !.user = u])
      /\ UNCHANGED <<store, inserted, otp, around, tokens, history>>

\* The password is right: the counter and the lock are reset.
RightPassword(h, u) ==
  /\ Stored(u) /\ ~Refused(store[u], TRUE)
  /\ Begin(h, Flush(Read(u, "login", [store[u] EXCEPT !.attempts = 0, !.locked = 0]), "granted"),
           [NoLocals EXCEPT !.user = u])
  /\ UNCHANGED <<data, around, tokens, history>>

\* Without MFA the login ends with log_event and the tokens.
Grant(h) ==
  /\ req[h].pc = "granted" /\ ~Copy(h).mfa
  /\ req' = [req EXCEPT ![h] = LogEvent([@ EXCEPT !.op = "sign_in"], Routine, "idle")]
  /\ UNCHANGED <<data, around, tokens, local, stale, made, history>>

-----------------------------------------------------------------------------
(* One-time challenges *)

\* _get_redis: what process p uses, from its first call on.
Reached(p) ==
  IF client[p] # "unknown" THEN client[p] ELSE IF redisUp THEN "redis" ELSE "memory"

\* Handler h keeps and looks for challenges at this place; a client whose Redis
\* is gone raises an exception (Fail).
Reaches(h, place) ==
  LET p == ProcessOf[h]
  IN  /\ IF Reached(p) = "redis" THEN redisUp /\ place = "redis" ELSE place = p
      /\ client' = [client EXCEPT ![p] = Reached(p)]

\* With MFA a fresh challenge is stored, and then logged.
IssueChallenge(h) ==
  /\ req[h].pc = "granted" /\ Copy(h).mfa
  /\ \E t \in Challenges, place \in {"redis"} \cup Processes :
       /\ otp[t] = Nowhere /\ ~Logged("challenge", t)
       /\ \A g \in Handlers : local[g].challenge # t
       /\ Reaches(h, place)
       /\ otp' = [otp EXCEPT ![t] = place]
       /\ local' = [local EXCEPT ![h].challenge = t]
       /\ req' = [req EXCEPT ![h] = LogEvent(@, <<"challenge", t>>, "idle")]
  /\ UNCHANGED <<store, inserted, locks, over, redisUp, tokens, stale, made, history>>

\* verify_otp: get_otp_challenge finds challenge t where h looks for it; the
\* answer that gave t away came after its audit record.
GetChallenge(h, t) ==
  /\ Logged("challenge", t)
  /\ Reaches(h, otp[t])
  /\ Begin(h, Start("otp", NoSession, "user"), [NoLocals EXCEPT !.challenge = t])
  /\ UNCHANGED <<data, over, redisUp, tokens, history>>

\* (Mutant: any code will do.)
AcceptedAnyway(user, code) == user.secret # NoSecret

\* totp.verify of a code from a device with secret code.
Accepted(user, code) == user.secret = code

CheckCode(h, u) ==
  /\ req[h].pc = "user" /\ Stored(u)
  /\ \E code \in Secrets : Accepted(store[u], code)
  /\ req' = [req EXCEPT ![h] = [Read(u, "otp", store[u]) EXCEPT !.pc = "delete"]]
  /\ local' = [local EXCEPT ![h].user = u]
  /\ UNCHANGED <<data, around, tokens, stale, made, history>>

\* (Mutant: only the process's own memory is cleaned.)
ForgottenLocally(t, place) == IF place = "redis" THEN otp ELSE [otp EXCEPT ![t] = Nowhere]

Forgotten(t, place) == IF otp[t] = place THEN [otp EXCEPT ![t] = Nowhere] ELSE otp

\* What the handlers other than h hold of x is out of date.
Outdate(h, x) == stale \cup {<<g, x>> : g \in {g \in Handlers \ {h} : ~Idles(g)}}

\* delete_otp_challenge, and log_event of the sign-in.
DeleteChallenge(h) ==
  LET t == local[h].challenge
  IN  /\ req[h].pc = "delete"
      /\ \E place \in {"redis"} \cup Processes :
           Reaches(h, place) /\ otp' = Forgotten(t, place)
      /\ req' = [req EXCEPT ![h] = LogEvent([@ EXCEPT !.op = "sign_in"], Routine, "idle")]
      /\ stale' = Outdate(h, t)
      /\ UNCHANGED <<store, inserted, locks, over, redisUp, tokens, local, made, history>>

-----------------------------------------------------------------------------
(* Setting up MFA, for a user with an access token *)

\* get_current_principal
Authenticated(u) == "access" \in tokens /\ Stored(u)

Setup(h, u) ==
  /\ Authenticated(u) /\ ~store[u].mfa
  /\ \E secret \in Secrets \ {store[u].secret} :
       Begin(h, Flush(Read(u, "setup", [store[u] EXCEPT !.secret = secret, !.mfa = FALSE]), "log"),
             [NoLocals EXCEPT !.user = u])
  /\ UNCHANGED <<data, around, tokens, history>>

LogSetup(h) ==
  /\ req[h].pc = "log"
  /\ req' = [req EXCEPT ![h] = LogEvent(@, Routine, "idle")]
  /\ UNCHANGED <<data, around, tokens, local, stale, made, history>>

\* The event names the secret the code was for; in the code it does not.
Enable(h, u) ==
  /\ Authenticated(u)
  /\ \E code \in Secrets :
       /\ Accepted(store[u], code)
       /\ Begin(h, LogEvent(Read(u, "enable", [store[u] EXCEPT !.mfa = TRUE]),
                            <<"enable", code>>, "idle"),
                [NoLocals EXCEPT !.user = u])
  /\ UNCHANGED <<data, around, tokens, history>>

\* refresh only reads the user; the token it was given stays valid.
Refresh ==
  /\ "refresh" \in tokens /\ "access" \notin tokens
  /\ \E u \in Users : Stored(u)
  /\ tokens' = tokens \cup {"access"}
  /\ UNCHANGED <<data, around, handlers, made, history>>

-----------------------------------------------------------------------------
(* Storing, ending and failing *)

End(h) ==
  /\ req' = [req EXCEPT ![h] = Idle]
  /\ local' = [local EXCEPT ![h] = NoLocals]

\* History: what it means that handler h stores user u.
Tally(h, u) ==
  /\ guesses' = CASE req[h].op = "fail" -> [guesses EXCEPT ![u] = @ + 1]
                   [] req[h].op = "login" -> [guesses EXCEPT ![u] = 0]
                   [] OTHER -> guesses
  /\ lapped' = (IF req[h].op = "login" THEN lapped \ {u} ELSE lapped)
                  \cup {v \in {u} : <<h, v>> \in stale}

\* The tokens are made and set as cookies.
SignIn(h) ==
  /\ tokens' = {"access", "refresh"}
  /\ spent' = [t \in Challenges |-> IF t = local[h].challenge THEN spent[t] + 1 ELSE spent[t]]

\* One document of a flush is stored; the last one ends the request, and the
\* answer after the record of a sign-in brings the tokens.
Write(h) ==
  LET o == NextObject(req[h])
      after == AfterWrite(req[h])
      ends == after.pc = "idle"
  IN  /\ req[h].pc = "flush"
      /\ IF ends THEN End(h) ELSE req' = [req EXCEPT ![h] = after] /\ UNCHANGED local
      /\ IF ends /\ req[h].op = "sign_in" THEN SignIn(h) ELSE UNCHANGED <<tokens, spent>>
      /\ IF o.id \in Users
         THEN store' = [store EXCEPT ![o.id] = o.val] /\ UNCHANGED inserted /\ Tally(h, o.id)
         ELSE inserted' = inserted \cup {<<o.id, o.val>>} /\ UNCHANGED <<store, guesses, lapped>>
      /\ stale' = {s \in (IF o.id \in Users THEN Outdate(h, o.id) ELSE stale) : ends => s[1] # h}
      /\ UNCHANGED <<locks, otp, around, made>>

\* The process dies, or the request fails.
Fail(h) ==
  /\ ~Idles(h)
  /\ End(h)
  /\ stale' = {s \in stale : s[1] # h}
  /\ UNCHANGED <<data, around, tokens, made, history>>

-----------------------------------------------------------------------------
(* Time and Redis *)

LockRunsOut ==
  /\ over < locks
  /\ over' = over + 1
  /\ guesses' = NoGuesses /\ lapped' = {}
  /\ UNCHANGED <<data, client, redisUp, tokens, handlers, made, spent>>

ChallengeExpires(t) ==
  /\ otp[t] # Nowhere
  /\ otp' = [otp EXCEPT ![t] = Nowhere]
  /\ UNCHANGED <<store, inserted, locks, around, tokens, handlers, made, history>>

AccessExpires ==
  /\ "access" \in tokens
  /\ tokens' = tokens \ {"access"}
  /\ UNCHANGED <<data, around, handlers, made, history>>

RedisStops ==
  /\ redisUp
  /\ redisUp' = FALSE
  /\ UNCHANGED <<data, over, client, tokens, handlers, made, history>>

-----------------------------------------------------------------------------
\* No account, or one that earlier requests have left with or without MFA.
Init ==
  /\ \/ /\ store = [u \in Users |-> Absent]
        /\ inserted = {}
     \/ \E u \in Users, s \in Secrets, mfa \in BOOLEAN :
          /\ store = [v \in Users |-> IF v # u THEN Absent
                                      ELSE IF mfa THEN [NewUser EXCEPT !.secret = s, !.mfa = TRUE]
                                      ELSE NewUser]
          /\ inserted = {<<"did", u>>, <<"audit", <<"register", u>>>>, <<"audit", Routine>>}
                          \cup (IF mfa THEN {<<"audit", <<"enable", s>>>>} ELSE {})
  /\ locks = 0 /\ over = 0
  /\ otp = [t \in Challenges |-> Nowhere]
  /\ client = [p \in Processes |-> "unknown"]
  /\ redisUp = TRUE
  /\ tokens = {}
  /\ req = [h \in Handlers |-> Idle]
  /\ local = [h \in Handlers |-> NoLocals]
  /\ made = 0
  /\ stale = {} /\ guesses = NoGuesses /\ lapped = {}
  /\ spent = [t \in Challenges |-> 0]

Next ==
  \/ \E h \in Handlers :
       \/ Register(h) \/ AddProfiles(h) \/ Grant(h) \/ IssueChallenge(h)
       \/ DeleteChallenge(h) \/ LogSetup(h) \/ Write(h) \/ Fail(h)
       \/ \E u \in Users :
            WrongPassword(h, u) \/ RightPassword(h, u) \/ CheckCode(h, u)
              \/ Setup(h, u) \/ Enable(h, u)
       \/ \E t \in Challenges : GetChallenge(h, t)
  \/ Refresh \/ LockRunsOut \/ AccessExpires \/ RedisStops
  \/ \E t \in Challenges : ChallengeExpires(t)

Spec == Init /\ [][Next]_vars

-----------------------------------------------------------------------------
(* Properties *)

\* Type invariant; the counter passes the attempts that lock by at most one for
\* each further lock.
TypeOK ==
  /\ \A u \in Users :
       Stored(u) => /\ store[u] \in [attempts : 0..(MaxAttempts + MaxLocks - 1),
                                     locked : 0..locks, mfa : BOOLEAN,
                                     secret : Secrets \cup {NoSecret}]
                    /\ store[u].mfa => store[u].secret # NoSecret
  /\ over \in 0..locks
  /\ otp \in [Challenges -> {Nowhere, "redis"} \cup Processes]
  /\ client \in [Processes -> {"unknown", "redis", "memory"}]
  /\ tokens \subseteq {"access", "refresh"}

\* login's lockout (auth.py, lines 136-140) and enable_mfa (line 268): a lock in
\* force and MFA disappear from the stored account only by a handler that read
\* the account before they were stored, and stores its whole copy; any handler
\* of the account will do, a failed login too.
ProtectionLostOnlyByOverlap ==
  [][\A u \in Users :
       Stored(u) /\ (\/ store[u].locked > over' /\ store'[u].locked <= over'
                     \/ store[u].mfa /\ ~store'[u].mfa)
         => \E h \in Handlers : req[h].pc = "flush" /\ <<h, u>> \in stale]_vars

\* MAX_FAILED_ATTEMPTS (auth.py, line 43): between a right password or the end of
\* a lock and the next one, no more than MaxAttempts wrong passwords are tried,
\* unless requests overlapped and one of them stored a copy without the other
\* one's count or lock.
GuessesBounded == \A u \in Users \ lapped : guesses[u] <= MaxAttempts

\* logger.py, lines 2-4: a lock is on the trail, and so is the enabling of MFA,
\* with a code for the very secret that is stored, so that its owner can sign
\* in; a registration on the trail is stored with its DID profile.
TrailComplete ==
  /\ \A u \in Users : Stored(u) =>
       /\ store[u].locked > 0 => Logged("lock", store[u].locked)
       /\ store[u].mfa => Logged("enable", store[u].secret)
  /\ \A u \in Users : Logged("register", u) => Stored(u) /\ <<"did", u>> \in inserted

\* verify_otp (auth.py, lines 190-202): a challenge signs in twice only if the
\* second request got it before the first one had deleted it, whether it is
\* kept in Redis or in a process.
OneSignInPerChallenge ==
  [][\A t \in Challenges :
       spent[t] > 0 /\ spent'[t] > spent[t]
         => \E h \in Handlers : req[h].pc = "flush" /\ <<h, t>> \in stale]_vars

\* register (auth.py, lines 71-73): a second account for the email is stored
\* only by a handler that looked for one before the first was stored.
OneAccountPerEmail ==
  [][\A u, v \in Users :
       Stored(v) /\ ~Stored(u) /\ store'[u] # Absent
         => \E h \in Handlers : req[h].pc = "flush" /\ <<h, v>> \in stale]_vars
=============================================================================
