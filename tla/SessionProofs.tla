--------------------------- MODULE SessionProofs ----------------------------
(***************************************************************************)
(* The session, the lockout and the idle TTL for every number of browsers  *)
(* and web tasks and for every value of the time limits.                   *)
(***************************************************************************)
EXTENDS Session, TLAPS

\* The assumptions on the constants, one by one.
LEMMA SessionConstants ==
    /\ TTL \in Nat /\ MaxFails \in Nat /\ Lockout \in Nat /\ FailDelay \in Nat
    /\ Recent \in Nat /\ MaxTime \in Nat
    /\ 0 < MaxFails /\ 0 < Lockout /\ 0 < FailDelay /\ 0 < Recent /\ 0 < MaxTime
BY SessionAssumption

-----------------------------------------------------------------------------
(* Types.                                                                  *)

\* What a request does to the session is within its types.
LEMMA ValidateType ==
    ASSUME TypeOK, NEW c, NEW refresh, Validate(c, refresh)
    PROVE  created' \in 0..MaxTime
BY DEF TypeOK, Validate

\* The login form has no script whose state could grow.
LEMMA ToFormType ==
    ASSUME TypeOK, NEW c \in Clients, ToForm(c)
    PROVE  /\ page' \in [Clients -> {"form", "dash"}]
           /\ sse' \in [Clients -> BOOLEAN] /\ ticked' \in [Clients -> BOOLEAN]
           /\ activity' \in [Clients -> 0..MaxTime]
BY SessionConstants DEF TypeOK, ToForm

\* The types are inductive: the count of failures stays within its limit
\* because a count that has reached it starts over.
LEMMA TypeStep == TypeOK /\ [Next]_vars => TypeOK'
<1> SUFFICES ASSUME TypeOK, [Next]_vars PROVE TypeOK'
    OBVIOUS
<1> USE SessionConstants
<1>1. CASE UNCHANGED vars
    BY <1>1 DEF TypeOK, vars, serverVars, pageVars
<1>2. CASE Tick
  <2>1. parked' \in [Web -> 0..FailDelay]
      BY <1>2 DEF Tick, TypeOK, Free
  <2> QED BY <1>2, <2>1 DEF Tick, TypeOK
<1>3. ASSUME NEW c \in Clients, NEW w \in Web, LockedOut(c, w) PROVE TypeOK'
    BY <1>3, ValidateType DEF LockedOut, TypeOK, pageVars
<1>4. ASSUME NEW c \in Clients, NEW w \in Web, Login(c, w) PROVE TypeOK'
    BY <1>4 DEF Login, TypeOK
<1>5. ASSUME NEW c \in Clients, NEW w \in Web, Reject(c, w) PROVE TypeOK'
  <2>1. CountFailure \in 0..MaxFails
      BY DEF CountFailure, TypeOK
  <2>2. created' \in 0..MaxTime
      BY <1>5, ValidateType DEF Reject
  <2>3. parked' \in [Web -> 0..FailDelay]
      BY <1>5 DEF Reject, TypeOK
  <2> QED BY <1>5, <2>1, <2>2, <2>3 DEF Reject, TypeOK, pageVars
<1>6. ASSUME NEW c \in Clients, NEW w \in Web, Open(c, w) PROVE TypeOK'
  <2>1. created' \in 0..MaxTime
      BY <1>6, ValidateType DEF Open
  <2>2. CASE Authorised(c)
      BY <1>6, <2>1, <2>2 DEF Open, TypeOK
  <2>3. CASE ~Authorised(c)
      BY <1>6, <2>1, <2>3, ToFormType DEF Open, TypeOK
  <2> QED BY <2>2, <2>3
<1>7. ASSUME NEW c \in Clients, NEW w \in Web, OpenStream(c, w) PROVE TypeOK'
  <2>1. Authorised(c) \in BOOLEAN
      BY DEF Authorised, Holds
  <2>2. sse' \in [Clients -> BOOLEAN]
      BY <1>7, <2>1, Zenon DEF OpenStream, TypeOK
  <2>3. created' \in 0..MaxTime
      BY <1>7, ValidateType DEF OpenStream
  <2> QED BY <1>7, <2>2, <2>3 DEF OpenStream, TypeOK
<1>8. ASSUME NEW c \in Clients, NEW w \in Web, Poll(c, w) PROVE TypeOK'
  <2>1. created' \in 0..MaxTime
      BY <1>8, ValidateType DEF Poll
  <2>2. CASE Authorised(c)
      BY <1>8, <2>1, <2>2 DEF Poll, TypeOK
  <2>3. CASE ~Authorised(c)
      BY <1>8, <2>1, <2>3, ToFormType DEF Poll, TypeOK
  <2> QED BY <2>2, <2>3
<1>9. ASSUME NEW c \in Clients, NEW w \in Web, Logout(c, w) PROVE TypeOK'
    BY <1>9, ToFormType DEF Logout, TypeOK
<1>10. ASSUME NEW c \in Clients,
              DropStream(c) \/ Act(c) \/ SkipPoll(c) \/ LogoutRefused(c)
       PROVE  TypeOK'
    BY <1>10 DEF DropStream, Act, SkipPoll, LogoutRefused, TypeOK, serverVars
<1> QED
    BY <1>1, <1>2, <1>3, <1>4, <1>5, <1>6, <1>7, <1>8, <1>9, <1>10
    DEF Next, ClockEnds

\* web.rs, session statics: times, counts and the state of every page stay
\* within their types.
THEOREM SessionTypeOK == Spec => []TypeOK
<1>1. Init => TypeOK
    BY SessionConstants DEF Init, TypeOK
<1> QED BY <1>1, TypeStep, PTL DEF Spec

-----------------------------------------------------------------------------
(* One session.                                                            *)

\* A cookie is a token of one of the two tasks, or none.
CookieTyped ==
    /\ seed \in [Web -> 0..1]
    /\ cookie \in [Clients -> {None} \union ((0..1) \X Nat)]
    /\ loginAt \in [Clients -> Nat]

\* A cookie carries the second of the login that it comes from.
CookieInv ==
    /\ CookieTyped
    /\ \A c \in Clients : cookie[c] # None => cookie[c][2] = loginAt[c]

LEMMA SessionInit == Init => TypeOK /\ CookieInv
BY SessionConstants DEF Init, TypeOK, CookieInv, CookieTyped, None

LEMMA CookieStep == TypeOK /\ CookieInv /\ [Next]_vars => CookieInv'
<1> SUFFICES ASSUME TypeOK, CookieInv, [Next]_vars PROVE CookieInv'
    OBVIOUS
<1> USE DEF CookieInv, CookieTyped
<1>1. ASSUME seed' = seed, cookie' = cookie, loginAt' = loginAt PROVE CookieInv'
    BY <1>1
<1>2. ASSUME NEW c \in Clients, NEW w \in Web, Login(c, w) PROVE CookieInv'
  <2>1. Mint(w) \in (0..1) \X Nat /\ Mint(w)[2] = now /\ now \in Nat
      BY SessionConstants DEF Mint, TypeOK
  <2> QED BY <1>2, <2>1 DEF Login
<1>3. ASSUME NEW c \in Clients, ToForm(c), seed' = seed PROVE CookieInv'
    BY <1>3 DEF ToForm
<1>4. ASSUME NEW c \in Clients, NEW w \in Web,
             LockedOut(c, w) \/ Reject(c, w) \/ OpenStream(c, w)
      PROVE  CookieInv'
    BY <1>1, <1>4 DEF LockedOut, Reject, OpenStream, pageVars
<1>5. ASSUME NEW c \in Clients, NEW w \in Web,
             Open(c, w) \/ Poll(c, w) \/ Logout(c, w)
      PROVE  CookieInv'
    BY <1>1, <1>3, <1>5 DEF Open, Poll, Logout
<1>6. ASSUME NEW c \in Clients,
             DropStream(c) \/ Act(c) \/ SkipPoll(c) \/ LogoutRefused(c)
      PROVE  CookieInv'
    BY <1>1, <1>6 DEF DropStream, Act, SkipPoll, LogoutRefused, serverVars
<1>7. CASE Tick \/ UNCHANGED vars
    BY <1>1, <1>7 DEF Tick, vars, serverVars, pageVars
<1> QED BY <1>2, <1>4, <1>5, <1>6, <1>7 DEF Next, ClockEnds

\* web.rs, session statics: "one logged-in client; a new login supersedes the
\* old".  Two browsers that are both logged in did so within the same second.
THEOREM LoginSupersedes == Spec => []Superseded
<1>1. CookieInv => Superseded
    BY DEF CookieInv, Superseded, Authorised, Holds
<1> QED BY <1>1, SessionInit, TypeStep, CookieStep, PTL DEF Spec

-----------------------------------------------------------------------------
(* The idle TTL.                                                           *)

\* Nothing that the server or a page remembers of its user lies in the future,
\* and what a page that holds the session saw its user do was counted.
AliveInv ==
    /\ human \in Nat /\ human <= now
    /\ \A c \in Clients : activity[c] <= now
    /\ \A c \in Clients : Holds(c) => activity[c] <= human
    /\ NotKeptAlive

\* A validation mints nothing: who holds the session afterwards held it before,
\* and its TTL slides only for an authorised request that asks for it.
LEMMA ValidateHolds ==
    ASSUME NEW c \in Clients, NEW refresh \in BOOLEAN, Validate(c, refresh)
    PROVE  /\ token' # None => token' = token
           /\ created' # created => Authorised(c) /\ refresh /\ created' = now
           /\ created' = created \/ created' = now
BY DEF Validate

\* A page that goes back to the form neither takes the session over nor has an
\* activity that anybody would have to count.
LEMMA ToFormHolds ==
    ASSUME TypeOK, CookieTyped, NEW c \in Clients, ToForm(c), now' = now,
           token' # None => token' = token, AliveInv, human' = human
    PROVE  /\ \A d \in Clients : activity'[d] <= now'
           /\ \A d \in Clients : Holds(d)' => activity'[d] <= human'
BY DEF ToForm, TypeOK, CookieTyped, AliveInv, Holds

LEMMA AliveStep == TypeOK /\ CookieTyped /\ AliveInv /\ [Next]_vars => AliveInv'
<1> SUFFICES ASSUME TypeOK, CookieTyped, AliveInv, [Next]_vars PROVE AliveInv'
    OBVIOUS
<1> USE SessionConstants
<1>1. CASE UNCHANGED vars
    BY <1>1 DEF AliveInv, NotKeptAlive, Holds, vars, serverVars, pageVars, historyVars
<1>2. CASE Tick
    BY <1>2 DEF Tick, TypeOK, AliveInv, NotKeptAlive, Holds, historyVars
<1>3. ASSUME NEW c \in Clients, NEW w \in Web, LockedOut(c, w) PROVE AliveInv'
  <2>1. created' = created /\ (token' # None => token' = token)
      BY <1>3, ValidateHolds DEF LockedOut, LoginRequest
  <2> QED
      BY <1>3, <2>1
      DEF LockedOut, AliveInv, NotKeptAlive, Holds, pageVars, historyVars
<1>4. ASSUME NEW c \in Clients, NEW w \in Web, Login(c, w) PROVE AliveInv'
    BY <1>4 DEF Login, TypeOK, AliveInv, NotKeptAlive, Holds
<1>5. ASSUME NEW c \in Clients, NEW w \in Web, Reject(c, w) PROVE AliveInv'
  <2>1. created' = created /\ (token' # None => token' = token)
      BY <1>5, ValidateHolds DEF Reject, LoginRequest
  <2> QED BY <1>5, <2>1 DEF Reject, AliveInv, NotKeptAlive, Holds, pageVars
<1>6. ASSUME NEW c \in Clients, NEW w \in Web, Open(c, w) PROVE AliveInv'
  <2>1. CASE Authorised(c)
      BY <1>6, <2>1 DEF Open, Validate, TypeOK, AliveInv, NotKeptAlive, Holds
  <2>2. CASE ~Authorised(c)
    <3>1. created' = created /\ (token' # None => token' = token)
        BY <1>6, <2>2, ValidateHolds DEF Open
    <3>2. /\ \A d \in Clients : activity'[d] <= now'
          /\ \A d \in Clients : Holds(d)' => activity'[d] <= human'
        BY <1>6, <2>2, <3>1, ToFormHolds DEF Open
    <3> QED BY <1>6, <2>2, <3>1, <3>2 DEF Open, AliveInv, NotKeptAlive
  <2> QED BY <2>1, <2>2
<1>7. ASSUME NEW c \in Clients, NEW w \in Web, OpenStream(c, w) PROVE AliveInv'
  <2>1. created' = created /\ (token' # None => token' = token)
      BY <1>7, ValidateHolds DEF OpenStream
  <2> QED
      BY <1>7, <2>1 DEF OpenStream, AliveInv, NotKeptAlive, Holds, historyVars
<1>8. ASSUME NEW c \in Clients, NEW w \in Web, Poll(c, w) PROVE AliveInv'
  <2>1. Validate(c, Idle(c) < Recent) /\ now' = now /\ human' = human
      BY <1>8 DEF Poll, historyVars
  <2>2. token' # None => token' = token
      BY <2>1 DEF Validate
  <2>3. created' = created \/ (created' = now /\ Holds(c) /\ now - activity[c] < Recent)
      BY <2>1 DEF Validate, Authorised, Idle
  <2>4. created' = created \/ created' < human + Recent
      BY <2>3 DEF AliveInv, TypeOK
  <2>5. NotKeptAlive'
      BY <2>1, <2>2, <2>4 DEF AliveInv, NotKeptAlive
  <2>6. CASE Authorised(c)
      BY <1>8, <2>1, <2>2, <2>5, <2>6 DEF Poll, AliveInv, Holds
  <2>7. CASE ~Authorised(c)
    <3>1. /\ \A d \in Clients : activity'[d] <= now'
          /\ \A d \in Clients : Holds(d)' => activity'[d] <= human'
        BY <1>8, <2>1, <2>2, <2>7, ToFormHolds DEF Poll
    <3> QED BY <2>1, <2>5, <3>1 DEF AliveInv
  <2> QED BY <2>6, <2>7
<1>9. ASSUME NEW c \in Clients, NEW w \in Web, Logout(c, w) PROVE AliveInv'
  <2>1. /\ token' # None => token' = token
        /\ created' = created \/ created' = 0
        /\ now' = now /\ human' = human /\ ToForm(c)
      BY <1>9 DEF Logout, historyVars
  <2>2. /\ \A d \in Clients : activity'[d] <= now'
        /\ \A d \in Clients : Holds(d)' => activity'[d] <= human'
      BY <2>1, ToFormHolds
  <2> QED BY <2>1, <2>2 DEF AliveInv, NotKeptAlive
<1>10. ASSUME NEW c \in Clients, Act(c) PROVE AliveInv'
    BY <1>10 DEF Act, TypeOK, AliveInv, NotKeptAlive, Holds, serverVars
<1>11. ASSUME NEW c \in Clients, DropStream(c) \/ SkipPoll(c) \/ LogoutRefused(c)
       PROVE  AliveInv'
    BY <1>11 DEF DropStream, SkipPoll, LogoutRefused, AliveInv, NotKeptAlive,
                 Holds, serverVars, historyVars
<1> QED
    BY <1>1, <1>2, <1>3, <1>4, <1>5, <1>6, <1>7, <1>8, <1>9, <1>10, <1>11
    DEF Next, ClockEnds

\* web.rs, validate_session: "an abandoned tab cannot keep the session alive by
\* polling".  The TTL slides no further than the last thing that a user of the
\* session did, plus the span that the page counts as recent.
THEOREM AbandonedTabExpires == Spec => []NotKeptAlive
<1>1. Init => TypeOK /\ CookieInv /\ AliveInv
    BY SessionInit, SessionConstants DEF Init, AliveInv, NotKeptAlive, Holds
<1>2. CookieInv => CookieTyped
    BY DEF CookieInv
<1>3. AliveInv => NotKeptAlive
    BY DEF AliveInv
<1> QED BY <1>1, <1>2, <1>3, TypeStep, CookieStep, AliveStep, PTL DEF Spec

-----------------------------------------------------------------------------
(* The lockout.                                                            *)

\* The recorded failures are in order and end with the last one; the current
\* count is about the last fails of them, and a count that has started over did
\* so a lockout after the failure before it.
FailInv ==
    /\ failures \in Seq(Nat)
    /\ fails <= Len(failures)
    /\ fails = 0 <=> failures = <<>>
    /\ \A i \in 1..Len(failures) : failures[i] <= now
    /\ \A i, j \in 1..Len(failures) : i <= j => failures[i] <= failures[j]
    /\ failures # <<>> => failures[Len(failures)] = lastFail
    /\ 0 < fails /\ fails < Len(failures) =>
           failures[Len(failures) - fails + 1] - failures[Len(failures) - fails]
               >= Lockout
    /\ RateLimited

\* Sequence r is sequence seq without its first off elements, and one more.
ExtendsBy(r, seq, off) ==
    /\ Len(r) = Len(seq) + 1 - off
    /\ off = 1 => Len(seq) > MaxFails
    /\ \A i \in 1..Len(r) - 1 : r[i] = seq[i + off]

\* A record with one more failure: the older ones keep their order, and at most
\* the oldest of them has gone, when there are more than the property needs.
LEMMA RecordAppend ==
    ASSUME NEW seq \in Seq(Nat), NEW t \in Nat, NEW r, r = Record(Append(seq, t))
    PROVE  /\ r \in Seq(Nat) /\ Len(r) > 0 /\ r[Len(r)] = t
           /\ \E off \in {0, 1} : ExtendsBy(r, seq, off)
<1> USE SessionConstants
<1> DEFINE all == Append(seq, t)
<1>0. PICK m \in Nat : m = Len(seq)
    OBVIOUS
<1>1. all \in Seq(Nat) /\ Len(all) = m + 1
    BY <1>0
<1>2. all[m + 1] = t /\ \A i \in 1..m : all[i] = seq[i]
    BY <1>0
<1> HIDE DEF all
<1>3. CASE m > MaxFails
  <2>1. r = Tail(all)
      BY <1>1, <1>3 DEF Record, all
  <2>2. r \in Seq(Nat) /\ Len(r) = m
      BY <1>1, <1>3, <2>1
  <2>3. \A i \in 1..m : r[i] = all[i + 1]
      BY <1>1, <1>3, <2>1
  <2>4. r[m] = t
    <3>1. m \in 1..m
        BY <1>3
    <3> QED BY <1>2, <2>3, <3>1
  <2>5. \A i \in 1..m - 1 : r[i] = seq[i + 1]
    <3>1. \A i \in 1..m - 1 : i \in 1..m /\ i + 1 \in 1..m
        OBVIOUS
    <3> QED BY <1>2, <2>3, <3>1
  <2>6. m = m + 1 - 1 /\ m > 0
      BY <1>3
  <2>7. ExtendsBy(r, seq, 1)
      BY <1>0, <1>3, <2>2, <2>5, <2>6 DEF ExtendsBy
  <2> QED BY <2>2, <2>4, <2>6, <2>7
<1>4. CASE ~(m > MaxFails)
  <2>1. r = all
      BY <1>1, <1>4 DEF Record, all
  <2>2. \A i \in 1..m + 1 - 1 : r[i] = seq[i + 0]
      BY <1>2, <2>1
  <2>3. r \in Seq(Nat) /\ Len(r) = m + 1 - 0 /\ r[m + 1] = t /\ m + 1 > 0
      BY <1>1, <1>2, <2>1
  <2>4. ExtendsBy(r, seq, 0)
      BY <1>0, <2>2, <2>3 DEF ExtendsBy
  <2> QED BY <2>3, <2>4
<1> QED BY <1>3, <1>4

\* One more failure, at a time when the form is not locked.
LEMMA FailStepReject ==
    ASSUME TypeOK, FailInv, NEW c \in Clients, NEW w \in Web, Reject(c, w)
    PROVE  FailInv'
<1> USE SessionConstants
<1> DEFINE r == failures'
<1>1. /\ now \in Nat /\ now' = now /\ lastFail' = now /\ lastFail \in Nat
      /\ fails \in Nat /\ fails <= MaxFails
      /\ failures' = Record(Append(failures, now))
      /\ fails' = CountFailure /\ ~Locked
    BY DEF Reject, TypeOK
<1>2. failures \in Seq(Nat)
    BY DEF FailInv
<1>3. /\ r \in Seq(Nat) /\ Len(r) > 0 /\ r[Len(r)] = now
      /\ \E off \in {0, 1} : ExtendsBy(r, failures, off)
    BY <1>1, <1>2, RecordAppend
<1> HIDE DEF r
<1>4. PICK n \in Nat, m \in Nat : n = Len(r) /\ m = Len(failures) /\ n > 0
  <2>1. Len(r) \in Nat /\ Len(failures) \in Nat
      BY <1>2, <1>3
  <2> QED BY <1>3, <2>1, Zenon
<1>5. PICK off \in {0, 1} :
          /\ n = m + 1 - off
          /\ off = 1 => m > MaxFails
          /\ \A i \in 1..n - 1 : r[i] = failures[i + off]
    BY <1>3, <1>4 DEF ExtendsBy
<1>6. /\ \A i \in 1..m : failures[i] \in Nat /\ failures[i] <= now
      /\ \A i, j \in 1..m : i <= j => failures[i] <= failures[j]
      /\ m > 0 => failures[m] = lastFail
      /\ fails <= m /\ (fails = 0 => m = 0) /\ (m = 0 => fails = 0)
      /\ 0 < fails /\ fails < m =>
             failures[m - fails + 1] - failures[m - fails] >= Lockout
      /\ \A i \in 1..m : i + MaxFails \in 1..m =>
             failures[i + MaxFails] - failures[i] >= Lockout
  <2>1. \A i \in 1..m : failures[i] \in Nat /\ failures[i] <= now
      BY <1>2, <1>4 DEF FailInv
  <2>2. (m = 0 => failures = <<>>) /\ (failures = <<>> => m = 0)
      BY <1>2, <1>4
  <2>3. /\ m > 0 => failures[m] = lastFail
        /\ fails <= m /\ (fails = 0 => m = 0) /\ (m = 0 => fails = 0)
      BY <1>4, <2>2 DEF FailInv
  <2>4. /\ \A i, j \in 1..m : i <= j => failures[i] <= failures[j]
        /\ 0 < fails /\ fails < m =>
               failures[m - fails + 1] - failures[m - fails] >= Lockout
      BY <1>4, Zenon DEF FailInv
  <2>5. DOMAIN failures = 1..m
      BY <1>2, <1>4
  <2>6. \A i \in 1..m : i + MaxFails \in 1..m =>
             failures[i + MaxFails] - failures[i] >= Lockout
      BY <2>5, Zenon DEF FailInv, RateLimited
  <2> QED BY <2>1, <2>3, <2>4, <2>6
<1>7. r[n] = now
    BY <1>3, <1>4
<1>8. \A i \in 1..n - 1 : i + off \in 1..m
    BY <1>5
<1>9. \A i \in 1..n : r[i] \in Nat /\ r[i] <= now
  <2> TAKE i \in 1..n
  <2>1. CASE i = n
      BY <1>1, <1>7, <2>1
  <2>2. CASE i # n
    <3>1. i \in 1..n - 1
        BY <2>2
    <3> QED BY <1>5, <1>6, <1>8, <3>1
  <2> QED BY <2>1, <2>2
<1>10. \A i, j \in 1..n : i <= j => r[i] <= r[j]
  <2> SUFFICES ASSUME NEW i \in 1..n, NEW j \in 1..n, i <= j PROVE r[i] <= r[j]
      OBVIOUS
  <2>1. CASE j = n
      BY <1>7, <1>9, <2>1
  <2>2. CASE j # n
    <3>1. i \in 1..n - 1 /\ j \in 1..n - 1 /\ i + off <= j + off
        BY <1>5, <2>2
    <3> QED BY <1>5, <1>6, <1>8, <3>1
  <2> QED BY <2>1, <2>2
<1>f. PICK f : f = fails'
    OBVIOUS
\* The last gap that the count knows of is at least a lockout long.
<1>11. /\ f \in Nat /\ 0 < f /\ f <= n /\ f <= MaxFails
       /\ f < n => r[n - f + 1] - r[n - f] >= Lockout
  <2>1. CASE fails >= MaxFails
    <3>1. f = 1
        BY <1>1, <1>f, <2>1 DEF CountFailure
    <3>2. now - lastFail >= Lockout
        BY <1>1, <2>1 DEF Locked
    <3>3. ASSUME 1 < n PROVE r[n - 1] = lastFail
      <4>1. n - 1 \in 1..n - 1 /\ n - 1 + off = m /\ m > 0
          BY <1>1, <1>5, <1>6, <2>1, <3>3
      <4> QED BY <1>5, <1>6, <4>1
    <3>4. n - 1 + 1 = n
        OBVIOUS
    <3> QED BY <1>4, <1>7, <3>1, <3>2, <3>3, <3>4
  <2>2. CASE fails < MaxFails
    <3>1. f = fails + 1
        BY <1>1, <1>f, <2>2 DEF CountFailure
    <3>2. f \in Nat /\ 0 < f /\ f <= n /\ f <= MaxFails
        BY <1>1, <1>5, <1>6, <2>2, <3>1
    <3>3. ASSUME f < n PROVE r[n - f + 1] - r[n - f] >= Lockout
      <4>1. 0 < fails /\ fails < m
          BY <1>1, <1>5, <1>6, <2>2, <3>1, <3>3
      <4>2. /\ n - f \in 1..n - 1 /\ n - f + off = m - fails
            /\ n - f + 1 \in 1..n - 1 /\ n - f + 1 + off = m - fails + 1
          BY <1>1, <1>5, <3>1, <3>2, <3>3, <4>1
      <4>3. /\ r[n - f] = failures[m - fails]
            /\ r[n - f + 1] = failures[m - fails + 1]
          BY <1>5, <4>2
      <4> QED BY <1>6, <4>1, <4>3
    <3> QED BY <3>2, <3>3
  <2> QED BY <1>1, <2>1, <2>2
\* A new failure and the one MaxFails before it lie on both sides of that gap.
<1>12. \A i \in 1..n : i + MaxFails \in 1..n => r[i + MaxFails] - r[i] >= Lockout
  <2> SUFFICES ASSUME NEW i \in 1..n, i + MaxFails \in 1..n
               PROVE  r[i + MaxFails] - r[i] >= Lockout
      OBVIOUS
  <2>1. CASE i + MaxFails # n
    <3>1. /\ i \in 1..n - 1 /\ i + MaxFails \in 1..n - 1
          /\ i + MaxFails + off = i + off + MaxFails
        BY <1>5, <2>1
    <3>2. i + off \in 1..m /\ i + off + MaxFails \in 1..m
        BY <1>8, <3>1
    <3>3. r[i] = failures[i + off] /\ r[i + MaxFails] = failures[i + off + MaxFails]
        BY <1>5, <3>1
    <3> QED BY <1>6, <3>2, <3>3
  <2>2. CASE i + MaxFails = n
    <3>0. f \in Nat /\ 0 < f /\ f <= MaxFails
        BY <1>11
    <3>1. PICK k \in 1..n : k = n - f
      <4>1. n - f \in 1..n
          BY <2>2, <3>0
      <4> QED BY <4>1
    <3>2. k + 1 \in 1..n /\ k + 1 = n - f + 1 /\ i <= k /\ f < n /\ n \in 1..n
        BY <2>2, <3>0, <3>1
    <3>3. r[i] <= r[k] /\ r[k + 1] <= r[n]
        BY <1>10, <3>1, <3>2
    <3>4. r[k + 1] - r[k] >= Lockout
        BY <1>11, <3>1, <3>2
    <3>5. r[i] \in Nat /\ r[k] \in Nat /\ r[k + 1] \in Nat /\ r[n] \in Nat
        BY <1>9, <3>1, <3>2
    <3> QED BY <2>2, <3>3, <3>4, <3>5
  <2> QED BY <2>1, <2>2
<1>13. RateLimited'
  <2>1. DOMAIN r = 1..n
      BY <1>3, <1>4
  <2> QED BY <1>12, <2>1, Zenon DEF RateLimited, r
<1>14. r # <<>>
    BY <1>3
<1> QED
    BY <1>1, <1>f, <1>3, <1>4, <1>7, <1>9, <1>10, <1>11, <1>13, <1>14
    DEF FailInv, r

LEMMA FailStep == TypeOK /\ FailInv /\ [Next]_vars => FailInv'
<1> SUFFICES ASSUME TypeOK, FailInv, [Next]_vars PROVE FailInv'
    OBVIOUS
<1>1. ASSUME UNCHANGED <<fails, lastFail, failures>>, now' \in Nat, now <= now'
      PROVE  FailInv'
    BY <1>1, SessionConstants DEF FailInv, RateLimited, TypeOK
<1>2. now \in Nat /\ now <= now
    BY SessionConstants DEF TypeOK
<1>3. CASE Tick
    BY <1>1, <1>2, <1>3 DEF Tick, historyVars
<1>4. ASSUME NEW c \in Clients, NEW w \in Web, Login(c, w) PROVE FailInv'
    BY <1>4 DEF Login, FailInv, RateLimited
<1>5. ASSUME NEW c \in Clients, NEW w \in Web, Reject(c, w) PROVE FailInv'
    BY <1>5, FailStepReject
<1>6. ASSUME NEW c \in Clients, NEW w \in Web,
             \/ LockedOut(c, w) \/ Open(c, w) \/ OpenStream(c, w) \/ Poll(c, w)
             \/ Logout(c, w)
      PROVE  FailInv'
    BY <1>1, <1>2, <1>6 DEF LockedOut, Open, OpenStream, Poll, Logout, historyVars
<1>7. ASSUME NEW c \in Clients,
             DropStream(c) \/ Act(c) \/ SkipPoll(c) \/ LogoutRefused(c)
      PROVE  FailInv'
    BY <1>1, <1>2, <1>7
    DEF DropStream, Act, SkipPoll, LogoutRefused, serverVars, historyVars
<1>8. CASE UNCHANGED vars
    BY <1>1, <1>2, <1>8 DEF vars, serverVars, historyVars
<1> QED BY <1>3, <1>4, <1>5, <1>6, <1>7, <1>8 DEF Next, ClockEnds

LEMMA FailInit == Init => FailInv
BY DEF Init, FailInv, RateLimited

\* README: "Five consecutive failed logins lock the form for 60 s".  More than
\* MaxFails failures in a row never fall into one lockout period, whatever the
\* tasks that take the logins and however often an expired lockout starts the
\* count over.
THEOREM LoginsRateLimited == Spec => []RateLimited
<1>1. FailInv => RateLimited
    BY DEF FailInv
<1> QED BY <1>1, SessionInit, FailInit, TypeStep, FailStep, PTL DEF Spec

\* reject_login and the lockout test: a password is refused unread only after
\* MaxFails failures in a row, and no longer than the lockout after the last.
THEOREM LockoutJustified == Spec => []LockedByFailures
<1>1. TypeOK /\ FailInv => LockedByFailures
  <2> SUFFICES ASSUME TypeOK, FailInv, Locked
               PROVE  /\ Len(failures) >= MaxFails
                      /\ now - failures[Len(failures)] < Lockout
      BY DEF LockedByFailures
  <2>1. fails \in Nat /\ fails >= MaxFails /\ now - lastFail < Lockout
      BY SessionConstants DEF TypeOK, Locked
  <2>2. failures # <<>> /\ Len(failures) \in Nat /\ Len(failures) >= MaxFails
      BY <2>1, SessionConstants DEF FailInv
  <2> QED BY <2>1, <2>2 DEF FailInv
<1> QED BY <1>1, SessionInit, FailInit, TypeStep, FailStep, PTL DEF Spec
=============================================================================
