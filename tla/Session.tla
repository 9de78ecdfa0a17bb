------------------------------ MODULE Session -------------------------------
(***************************************************************************)
(* The login session of src/web.rs: the single session token with its idle *)
(* TTL, the lockout after failed logins, and the script of the dashboard   *)
(* page, which polls, holds an event stream and logs an idle user out.     *)
(*                                                                         *)
(* A request touches the session without an await between its reads and    *)
(* its writes, so it is one action; a rejected login then parks its task   *)
(* for the response delay.  Time is the uptime in seconds.                 *)
(***************************************************************************)
EXTENDS Integers, Sequences

CONSTANTS Clients,    \* browsers
          Web,        \* the tasks that serve HTTP
          TTL,        \* SESSION_TTL_SECS, and IDLE_TIMEOUT of the page
          MaxFails,   \* LOGIN_MAX_FAILS
          Lockout,    \* LOGIN_LOCKOUT_SECS
          FailDelay,  \* LOGIN_FAIL_DELAY_MS in seconds
          Recent,     \* the page reports activity that is younger than this
          MaxRejects, \* bound: rejected logins
          MaxTime     \* bound: the clock stops here

ASSUME SessionAssumption ==
    /\ {TTL, MaxFails, Lockout, FailDelay, Recent, MaxTime} \subseteq Nat \ {0}
    /\ MaxRejects \in Nat

VARIABLES now,
          token,      \* SESSION_TOKEN, or None
          created,    \* SESSION_CREATED
          fails,      \* LOGIN_FAIL_COUNT
          lastFail,   \* LOGIN_FAIL_LAST
          seed,       \* token_seed of each web task
          parked      \* of each web task: seconds left of a response delay
VARIABLES cookie,     \* of each browser: its jzf_session cookie, or None
          page,       \* of each browser: "form" or "dash"
          sse,        \* of each browser: sseUp
          activity,   \* of each browser: lastActivity
          ticked      \* of each browser: the timer of this second has run
VARIABLES failures,   \* history: times of the last failures since a success
          rejects,    \* history: how many logins were rejected
          human,      \* history: when the user of the session last did anything
          loginAt     \* history, of each browser: when it got its cookie

serverVars == <<token, created, fails, lastFail, seed, parked>>
pageVars == <<cookie, loginAt, page, sse, activity, ticked>>
historyVars == <<failures, rejects, human>>
vars == <<now, serverVars, pageVars, historyVars>>

None == <<>>

TypeOK ==
    /\ now \in 0..MaxTime /\ created \in 0..MaxTime /\ lastFail \in 0..MaxTime
    /\ fails \in 0..MaxFails
    /\ page \in [Clients -> {"form", "dash"}]
    /\ sse \in [Clients -> BOOLEAN] /\ ticked \in [Clients -> BOOLEAN]
    /\ activity \in [Clients -> 0..MaxTime]
    /\ parked \in [Web -> 0..FailDelay]

\* Both tasks take their seed from the uptime when they start, in the same second
\* or not; only whether two seeds are equal matters.
Init ==
    /\ now = 0
    /\ token = None /\ created = 0 /\ fails = 0 /\ lastFail = 0
    /\ seed \in {s \in [Web -> 0..1] : \E w \in Web : s[w] = 0}
    /\ parked = [w \in Web |-> 0]
    /\ cookie = [c \in Clients |-> None] /\ page = [c \in Clients |-> "form"]
    /\ sse = [c \in Clients |-> FALSE] /\ activity = [c \in Clients |-> 0]
    /\ ticked = [c \in Clients |-> FALSE]
    /\ failures = <<>> /\ rejects = 0 /\ human = 0
    /\ loginAt = [c \in Clients |-> 0]

-----------------------------------------------------------------------------
(* validate_session and the login handler.                                 *)

Holds(c) == token # None /\ cookie[c] = token
Authorised(c) == Holds(c) /\ now - created <= TTL

\* Mutant of Validate: every request slides the TTL.
ValidateSlides(c, refresh) ==
    /\ token' = IF Holds(c) /\ ~Authorised(c) THEN None ELSE token
    /\ created' = IF Authorised(c) THEN now ELSE created

\* validate_session(refresh): an expired token is cleared, a fresh one slides.
Validate(c, refresh) ==
    /\ token' = IF Holds(c) /\ ~Authorised(c) THEN None ELSE token
    /\ created' = IF Authorised(c) /\ refresh THEN now ELSE created

\* Mutant of Mint: the token is a function of the seed alone.
MintConstant(w) == <<seed[w], 0>>

\* mint_session_token: a function of the task's seed and of the second.
Mint(w) == <<seed[w], now>>

\* Mutant of Locked: off by one, so that the count starts over first.
LockedLate == fails > MaxFails /\ now - lastFail < Lockout

Locked == fails >= MaxFails /\ now - lastFail < Lockout

Free(w) == parked[w] = 0

\* A browser that is not authorised posts its credentials to /login; the
\* validation that comes first may clear its expired token.
LoginRequest(c, w) == page[c] = "form" /\ Free(w) /\ ~Authorised(c)

LockedOut(c, w) ==
    /\ LoginRequest(c, w) /\ Locked
    /\ Validate(c, TRUE)
    /\ UNCHANGED <<now, fails, lastFail, seed, parked, pageVars, historyVars>>

\* Mutant of Login: a success does not clear the count of failures.
LoginKeepsFails(c, w) ==
    /\ LoginRequest(c, w) /\ ~Locked
    /\ token' = Mint(w) /\ created' = now
    /\ cookie' = [cookie EXCEPT ![c] = Mint(w)]
    /\ loginAt' = [loginAt EXCEPT ![c] = now]
    /\ failures' = <<>>
    /\ human' = now
    /\ UNCHANGED <<now, fails, lastFail, seed, parked, page, sse, activity, ticked,
                   rejects>>

\* complete_login
Login(c, w) ==
    /\ LoginRequest(c, w) /\ ~Locked
    /\ token' = Mint(w) /\ created' = now
    /\ fails' = 0
    /\ cookie' = [cookie EXCEPT ![c] = Mint(w)]
    /\ loginAt' = [loginAt EXCEPT ![c] = now]
    /\ failures' = <<>>
    /\ human' = now
    /\ UNCHANGED <<now, lastFail, seed, parked, page, sse, activity, ticked,
                   rejects>>

\* The last MaxFails + 1 failures are enough for the property.
Record(seq) == IF Len(seq) > MaxFails + 1 THEN Tail(seq) ELSE seq

\* Mutant of CountFailure: an expired lockout does not start the count over.
CountOn == fails + 1

\* A count from before an expired lockout starts over.
CountFailure == (IF fails >= MaxFails THEN 0 ELSE fails) + 1

\* reject_login
Reject(c, w) ==
    /\ LoginRequest(c, w) /\ ~Locked /\ rejects < MaxRejects
    /\ rejects' = rejects + 1
    /\ Validate(c, TRUE)
    /\ fails' = CountFailure
    /\ lastFail' = now
    /\ parked' = [parked EXCEPT ![w] = FailDelay]
    /\ failures' = Record(Append(failures, now))
    /\ UNCHANGED <<now, seed, pageVars, human>>

-----------------------------------------------------------------------------
(* The browser.                                                            *)

\* The login form takes the place of the page and its script; the cookie goes.
ToForm(c) ==
    /\ page' = [page EXCEPT ![c] = "form"]
    /\ cookie' = [cookie EXCEPT ![c] = None]
    /\ loginAt' = [loginAt EXCEPT ![c] = 0]
    /\ sse' = [sse EXCEPT ![c] = FALSE]
    /\ activity' = [activity EXCEPT ![c] = 0]
    /\ ticked' = [ticked EXCEPT ![c] = FALSE]

\* GET / by the user.
Open(c, w) ==
    /\ Free(w)
    /\ Validate(c, TRUE)
    /\ IF Authorised(c)
       THEN /\ page' = [page EXCEPT ![c] = "dash"]
            /\ sse' = [sse EXCEPT ![c] = FALSE]
            /\ activity' = [activity EXCEPT ![c] = now]
            /\ ticked' = [ticked EXCEPT ![c] = FALSE]
            /\ human' = now
            /\ UNCHANGED <<cookie, loginAt>>
       ELSE ToForm(c) /\ UNCHANGED human
    /\ UNCHANGED <<now, fails, lastFail, seed, parked, failures, rejects>>

\* new EventSource('/events'): no activity is reported with it.
OpenStream(c, w) ==
    /\ page[c] = "dash" /\ ~sse[c] /\ Free(w)
    /\ Validate(c, FALSE)
    /\ sse' = [sse EXCEPT ![c] = Authorised(c)]
    /\ UNCHANGED <<now, fails, lastFail, seed, parked, cookie, loginAt, page, activity,
                   ticked, historyVars>>

\* onerror
DropStream(c) ==
    /\ sse[c]
    /\ sse' = [sse EXCEPT ![c] = FALSE]
    /\ UNCHANGED <<now, serverVars, cookie, loginAt, page, activity, ticked, historyVars>>

\* resetIdle: the user moves the mouse.
Act(c) ==
    /\ page[c] = "dash"
    /\ activity' = [activity EXCEPT ![c] = now]
    /\ human' = IF Holds(c) THEN now ELSE human
    /\ UNCHANGED <<now, serverVars, cookie, loginAt, page, sse, ticked, failures, rejects>>

Idle(c) == now - activity[c]

\* The page timer of one second calls poll(); a 401 leads to the login form.
Poll(c, w) ==
    /\ page[c] = "dash" /\ ~ticked[c] /\ Idle(c) < TTL /\ ~sse[c]
    /\ Free(w)
    /\ Validate(c, Idle(c) < Recent)
    /\ IF Authorised(c)
       THEN /\ ticked' = [ticked EXCEPT ![c] = TRUE]
            /\ UNCHANGED <<cookie, loginAt, page, sse, activity>>
       ELSE ToForm(c)
    /\ UNCHANGED <<now, fails, lastFail, seed, parked, historyVars>>

Busy == \A w \in Web : ~Free(w)

\* poll() does nothing while the stream is up, and ignores a refused request.
SkipPoll(c) ==
    /\ page[c] = "dash" /\ ~ticked[c] /\ Idle(c) < TTL
    /\ sse[c] \/ Busy
    /\ ticked' = [ticked EXCEPT ![c] = TRUE]
    /\ UNCHANGED <<now, serverVars, cookie, loginAt, page, sse, activity, historyVars>>

\* POST /logout, which is routed only for an authorised browser: by the user,
\* or by the page timer when the user has been idle for too long.
Logout(c, w) ==
    /\ page[c] = "dash" /\ Free(w)
    /\ token' = IF Holds(c) THEN None ELSE token
    /\ created' = IF Authorised(c) THEN 0 ELSE created
    /\ ToForm(c)
    /\ UNCHANGED <<now, fails, lastFail, seed, parked, historyVars>>

\* doLogout() of an idle page finds no listening socket: the page is gone, the
\* session is left to its TTL.
LogoutRefused(c) ==
    /\ page[c] = "dash" /\ Idle(c) >= TTL /\ Busy
    /\ page' = [page EXCEPT ![c] = "form"]
    /\ sse' = [sse EXCEPT ![c] = FALSE]
    /\ UNCHANGED <<now, serverVars, cookie, loginAt, activity, ticked, historyVars>>

\* A second goes by once every open page has run its timer; a page whose user
\* is idle for too long is on its way to the login form first.
Tick ==
    /\ now < MaxTime
    /\ \A c \in Clients : page[c] = "dash" => ticked[c]
    /\ now' = now + 1
    /\ ticked' = [c \in Clients |-> FALSE]
    /\ parked' = [w \in Web |-> IF Free(w) THEN 0 ELSE parked[w] - 1]
    /\ UNCHANGED <<token, created, fails, lastFail, seed, cookie, loginAt, page,
                   sse, activity, historyVars>>

\* The bound on the clock ends a behaviour, the system does not.
ClockEnds == now = MaxTime /\ UNCHANGED vars

Next ==
    \/ Tick \/ ClockEnds
    \/ \E c \in Clients, w \in Web :
           \/ LockedOut(c, w) \/ Login(c, w) \/ Reject(c, w)
           \/ Open(c, w) \/ OpenStream(c, w) \/ Poll(c, w) \/ Logout(c, w)
    \/ \E c \in Clients : DropStream(c) \/ Act(c) \/ SkipPoll(c) \/ LogoutRefused(c)

Spec == Init /\ [][Next]_vars

-----------------------------------------------------------------------------
(* Properties.                                                             *)

\* README: "Five consecutive failed logins lock the form for 60 s".  More than
\* MaxFails failures in a row never fall into one lockout period, although
\* two tasks take logins and an expired lockout resets the count.
RateLimited ==
    \A i \in DOMAIN failures :
        i + MaxFails \in DOMAIN failures =>
            failures[i + MaxFails] - failures[i] >= Lockout

\* The form refuses a password unread only after MaxFails failures in a row,
\* and not for longer than the lockout after the last of them.
LockedByFailures ==
    Locked => /\ Len(failures) >= MaxFails
              /\ now - failures[Len(failures)] < Lockout

\* web.rs, validate_session: "an abandoned tab cannot keep the session alive
\* by polling".  The TTL slides no further than the last thing that a user of
\* the session did, plus the span that the page counts as recent.
NotKeptAlive == token # None => created < human + Recent

\* web.rs, session statics: "one logged-in client; a new login supersedes the
\* old".  Two browsers are logged in at once only if both logged in within the
\* same second; any other login ends the session before it for good, whatever
\* logouts, expiries and logins of the two tasks come between.
Superseded ==
    \A c, d \in Clients : Authorised(c) /\ Authorised(d) => loginAt[c] = loginAt[d]

\* web.rs, dashboard script: "move mouse to stay"; README: "the background
\* /state poll and the /events stream refresh it only while the page reports
\* recent user activity".  The session of a user who is active does not expire.
ActiveUserStays ==
    \A c \in Clients :
        page[c] = "dash" /\ Holds(c) /\ Idle(c) < Recent /\ ticked[c]
            => Authorised(c)
=============================================================================
