---------------------------- MODULE ConfigUpdate ----------------------------
(***************************************************************************)
(* Changing the configuration from end to end: Storage, with WebForm in    *)
(* front of /save and the login in front of both.  A user opens the        *)
(* dashboard, edits some inputs and submits the form; the device parses    *)
(* it, writes the image byte by byte, reboots and asks for the new         *)
(* credentials.                                                            *)
(*                                                                         *)
(* serve_connection reads a request with one call of socket.read(), which  *)
(* returns what has arrived: the body may be cut short anywhere.           *)
(* Resets other than the reboots after a save are the subject of Storage.  *)
(***************************************************************************)
EXTENDS Storage, WebForm

CONSTANTS Edits,    \* what users type: functions from some inputs to contents
          Words,    \* what users type into the login form
          CutAt,    \* bound: the pairs of a form in which a read may end
          MaxCuts   \* bound: requests of which one read returns only a part

\* An input for a text holds characters, none of them a NUL; any other is read
\* as numbers.
ASSUME UpdateAssumption ==
    /\ \A e \in Edits : \A key \in DOMAIN e :
           \/ key \in Texts /\ e[key] \in Seq(Byte) /\ Utf8(e[key]) /\ NoNul(e[key])
           \/ key \in Addresses \union Numbers /\ e[key] \in Seq(Nat)
    /\ Words \subseteq Seq(Byte) /\ CutAt \subseteq DOMAIN FormKeys /\ MaxCuts \in Nat

VARIABLES session,  \* the browser has a session of this boot
          pages,    \* configurations whose dashboard is open in some tab
          meant,    \* history, of each web task: what its request stands for
          goal,     \* history: of the request acknowledged last, as a set
                    \* that is empty once another write has begun
          wronged,  \* history: a complete form within all limits was refused
          cuts      \* history: counts, for the bound

users == <<session, pages>>
updateVars == <<vars, users, meant, goal, wronged, cuts>>

\* What a user asks for with inputs e on the page of configuration c, while
\* the device runs on cur: each input as it reads, an empty password as it is.
Wish(e, c, cur) ==
    [f \in DOMAIN cur |->
        LET key == CHOOSE k \in DOMAIN FieldOf : FieldOf[k] = f IN
        IF key \in Secrets /\ (key \notin DOMAIN e \/ e[key] = <<>>) THEN cur[f]
        ELSE IF key \notin DOMAIN e THEN c[f]
        ELSE IF key \in Numbers THEN e[key][1] ELSE e[key]]

\* The inputs that were edited are within the limits of their fields.
WithinLimits(e) ==
    \A key \in DOMAIN e :
        CASE key \in Texts -> Len(e[key]) <= Limit(key)
          [] key \in Addresses -> e[key] \in Address
          [] key = "prefix" -> Len(e[key]) = 1 /\ e[key][1] \in 1..32
          [] key = "port" -> Len(e[key]) = 1 /\ e[key][1] \in 1..MaxPort

Nothing == [want |-> Default, whole |-> FALSE]

UpdateInit ==
    /\ Init
    /\ session = FALSE /\ pages = {}
    /\ meant = [w \in Web |-> Nothing] /\ goal = {}
    /\ wronged = FALSE /\ cuts = 0

-----------------------------------------------------------------------------
(* Users.                                                                  *)

\* serve_pool: auth_required, and authenticate_request.
AuthRequired == cfg.web_user # <<>> \/ cfg.web_pass # <<>>
MayEnter == ~AuthRequired \/ session

\* POST /login with the credentials that the device runs on.  The browser sends
\* neither input empty.
LogIn ==
    /\ AuthRequired /\ ~session
    /\ cfg.web_user # <<>> /\ cfg.web_pass # <<>>
    /\ CredentialsMatch(cfg.web_user, cfg.web_pass,
                        BasicToken(cfg.web_user, cfg.web_pass))
    /\ session' = TRUE
    /\ UNCHANGED <<vars, pages, meant, goal, wronged, cuts>>

\* GET /: send_page shows the configuration that the device runs on.
OpenPage ==
    /\ MayEnter /\ cfg \notin pages
    /\ pages' = pages \union {cfg}
    /\ UNCHANGED <<vars, session, meant, goal, wronged, cuts>>

\* save_and_reboot up to save_config, on the body that was read.
Request(w, body, wish, whole, valid) ==
    \/ /\ FormAccepted(body)
       /\ Save(w, ParseForm(body, cfg))
       /\ meant' = [meant EXCEPT ![w] = [want |-> wish, whole |-> whole]]
       /\ UNCHANGED wronged
    \/ /\ ~FormAccepted(body)  \* HTTP_400
       /\ saves' = saves + 1
       /\ wronged' = (wronged \/ (whole /\ valid))
       /\ UNCHANGED <<mem, taskVars, ledVars, cfgVars, cmds, resets, errs, acked,
                      ledHistory, meant>>

\* POST /save of a page that was opened at some time, maybe before the device
\* got the configuration that it runs on now.
Submit(w, c, e) ==
  /\ MayEnter /\ pc[w] = "idle" /\ saves < MaxSaves
  /\ LET body == Body([key \in DOMAIN FieldOf |->
                          IF key \in DOMAIN e THEN e[key] ELSE Shown(c)[key]])
         wish == Wish(e, c, cfg)
     IN  \/ Request(w, body, wish, TRUE, WithinLimits(e)) /\ UNCHANGED cuts
         \/ /\ cuts < MaxCuts /\ cuts' = cuts + 1
            /\ \E n \in CutAt : \E part \in CutBodies(body, n) :
                   Request(w, part, wish, FALSE, FALSE)
  /\ UNCHANGED <<users, goal>>

-----------------------------------------------------------------------------
(* The device.                                                             *)

UpdateStep(t) ==
    \/ /\ Work(t)
       /\ goal' = IF acked' = acked THEN goal
                  ELSE IF acked' = {} THEN {} ELSE {meant[t]}
       /\ UNCHANGED <<users, meant, wronged, cuts>>
    \/ /\ t \in Web /\ Reboot(t)
       /\ session' = FALSE /\ meant' = [w \in Web |-> Nothing]
       /\ UNCHANGED <<pages, goal, wronged, cuts>>

UpdateLed ==
    /\ LedCommand({1}, 1)
    /\ UNCHANGED <<users, meant, goal, wronged, cuts>>

UpdateNext ==
    \/ \E t \in Tasks : UpdateStep(t)
    \/ UpdateLed
    \/ LogIn \/ OpenPage
    \/ \E w \in Web, c \in pages, e \in Edits : Submit(w, c, e)
    \/ Idle /\ UNCHANGED updateVars

UpdateSpec ==
    /\ UpdateInit /\ [][UpdateNext]_updateVars
    /\ \A t \in Tasks : WF_updateVars(UpdateStep(t))

-----------------------------------------------------------------------------
(* Properties.                                                             *)

\* README, "Changing the IP", and web_form.rs: "an untouched field must not
\* wipe them".  After a complete request was acknowledged the chip holds, for
\* every field, what the input read, and the old secret for a blank password:
\* through escaping, encoding, decoding, parsing and the image, on top of saves
\* from other tabs and until another save begins to write.
SavedAsTyped == \A g \in goal : g.whole => StoredConfig = g.want

\* web_form.rs and parse_form: a complete form whose inputs are within the
\* limits of their fields is not answered with 400.
ValidFormsAccepted == ~wronged

\* web.rs, login_credentials_match, and auth.rs: of all words that users type,
\* the login form accepts exactly those that read, joined by a colon, as the
\* credentials that the device booted with.  One exception: basic_token leaves
\* out a password for which it has no room, so that a name that reads as all of
\* the credentials matches with any password of that length.
LoginExact ==
    AuthRequired /\ Idle =>
        LET stored == cfg.web_user \o <<Colon>> \o cfg.web_pass IN
        \A user, pass \in Words :
            CredentialsMatch(user, pass, BasicToken(cfg.web_user, cfg.web_pass))
                <=> \/ user \o <<Colon>> \o pass = stored
                    \/ /\ user \o <<Colon>> = stored
                       /\ Len(user) + 1 + Len(pass) > TokenCap
                       /\ Decodable(UrlEncode(pass))

\* README, "Changing the IP (verified end-to-end)": "edit the field on the web
\* page -> the form is parsed and validated -> written to EEPROM -> device
\* reboots -> on boot load_config reads it back and the stack comes up on the
\* new address".
NewAddressTaken == \A g \in goal : StoredConfig.ip = g.want.ip
=============================================================================
