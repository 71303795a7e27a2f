------------------------------ MODULE Dashboard ------------------------------
(***************************************************************************)
(* The dashboard packed into net.h, in several tabs of one browser, with   *)
(* the server of WebServer: logging in and out, the Settings page and its  *)
(* Save button.  Requests of a tab are handled and answered in any order   *)
(* and can get lost on the way there or back; the unit can restart.        *)
(*                                                                         *)
(* A promise chain ends with its page: what is left of a chain when the    *)
(* Settings page is left is the request on its way to the server.          *)
(***************************************************************************)
EXTENDS WebServer

CONSTANTS
  Tabs,        (* The tabs; they share the cookie.                         *)
  Blank,       (* Settings that are not loaded.                            *)
  MaxRequests  (* Bound: requests of a tab under way at once.              *)

ASSUME DashboardAssumption ==
  /\ MaxRequests \in Nat \ {0}
  /\ Blank \notin [Fields -> Int \cup {Null}]

VARIABLES
  loading,   (* App: nothing is shown yet.                                 *)
  user,      (* App: the user shown, or NULL for the login page.           *)
  path,      (* App: the page, kept in the address.                        *)
  settings,  (* Settings: the form.                                        *)
  spin,      (* Settings: the Save button is disabled.                     *)
  net,       (* The requests under way.                                    *)
  cookie,    (* The browser's access_token, by its user.                   *)
  edited,    (* History: fields edited since the form was read.            *)
  stale      (* History: somebody has changed the settings since then.     *)

pageVars == <<loading, user, path, settings, spin, edited, stale>>
vars == <<s_settings, pageVars, net, cookie>>

Slots == 1 .. MaxRequests
Forms == [Fields -> Int \cup {Null}]

Nothing == [what |-> "none", answered |-> FALSE, basic |-> NULL, cookie |-> NULL,
            body |-> Blank, edited |-> {}, stale |-> FALSE]

(* "left": a "set" whose page is gone.                                     *)
Requests ==
  [what: {"none", "login", "logout", "get", "set", "left"}, answered: BOOLEAN,
   basic: Users \cup {NULL, Wrong}, cookie: Users \cup {NULL},
   body: Forms \cup {Blank}, edited: SUBSET Fields, stale: BOOLEAN]

TypeOK ==
  /\ s_settings \in [Fields -> Int]
  /\ loading \in [Tabs -> BOOLEAN]
  /\ user \in [Tabs -> Users \cup {NULL}]
  /\ path \in [Tabs -> {"/", "settings"}]
  /\ settings \in [Tabs -> Forms \cup {Blank}]
  /\ spin \in [Tabs -> BOOLEAN]
  /\ net \in [Tabs -> [Slots -> Requests]]
  /\ cookie \in Users \cup {NULL}
  /\ edited \in [Tabs -> SUBSET Fields]
  /\ stale \in [Tabs -> BOOLEAN]

(* fetch: the browser adds the cookie.                                     *)
Fetch(what) == [Nothing EXCEPT !.what = what, !.cookie = cookie]

Succeeds(r) == authenticate(r.basic, r.cookie) # NULL

(* Every tab asks who it is.                                               *)
Init ==
  /\ s_settings = web_init
  /\ loading = [t \in Tabs |-> TRUE]
  /\ user = [t \in Tabs |-> NULL]
  /\ path \in [Tabs -> {"/", "settings"}]
  /\ settings = [t \in Tabs |-> Blank]
  /\ spin = [t \in Tabs |-> FALSE]
  /\ cookie = NULL
  /\ net = [t \in Tabs |-> [s \in Slots |-> IF s = 1 THEN Fetch("login") ELSE Nothing]]
  /\ edited = [t \in Tabs |-> {}]
  /\ stale = [t \in Tabs |-> FALSE]

-----------------------------------------------------------------------------
(* The pages.                                                              *)

LoggedIn(t) == ~loading[t] /\ user[t] # NULL
Mounted(t)  == LoggedIn(t) /\ path[t] = "settings"

(* The form of a Settings page that is new or gone.                        *)
NoForm(t) ==
  /\ settings' = [settings EXCEPT ![t] = Blank]
  /\ spin' = [spin EXCEPT ![t] = FALSE]
  /\ edited' = [edited EXCEPT ![t] = {}]
  /\ stale' = [stale EXCEPT ![t] = FALSE]

(* A request of the Settings page when that is left.                       *)
Orphaned(r) ==
  IF r.what = "get" \/ (r.what = "set" /\ r.answered) THEN Nothing
  ELSE IF r.what = "set" THEN [r EXCEPT !.what = "left"] ELSE r

(* A new request takes the first place that is free.                       *)
Free(t, s) == net[t][s] = Nothing /\ \A x \in Slots : x < s => net[t][x] # Nothing

Put(t, s, r) == net' = [net EXCEPT ![t][s] = r]

(* Opening the page anew.                                                  *)
Reload(t, s) ==
  /\ net[t][s].what \notin {"set", "left"}
  /\ loading' = [loading EXCEPT ![t] = TRUE]
  /\ user' = [user EXCEPT ![t] = NULL]
  /\ NoForm(t)
  /\ net' = [net EXCEPT ![t] = [x \in Slots |->
       IF x = s THEN Fetch("login")
       ELSE IF net[t][x].what \in {"login", "logout"} THEN Nothing
       ELSE Orphaned(net[t][x])]]
  /\ UNCHANGED <<s_settings, path, cookie>>

(* The login page submits when the password field is left and when the     *)
(* button is clicked, so twice in a row for one click.                     *)
Submit(t, s, basic) ==
  /\ ~loading[t] /\ user[t] = NULL
  /\ Free(t, s)
  /\ Put(t, s, [Fetch("login") EXCEPT !.basic = basic])
  /\ UNCHANGED <<s_settings, pageVars, cookie>>

Logout(t, s) ==
  /\ LoggedIn(t)
  /\ \A x \in Slots : net[t][x].what # "logout"
  /\ Free(t, s)
  /\ Put(t, s, Fetch("logout"))
  /\ UNCHANGED <<s_settings, pageVars, cookie>>

OpenSettings(t, s) ==
  /\ LoggedIn(t) /\ path[t] = "/"
  /\ path' = [path EXCEPT ![t] = "settings"]
  /\ Free(t, s)
  /\ Put(t, s, Fetch("get"))
  /\ UNCHANGED <<s_settings, loading, user, settings, spin, edited, stale, cookie>>

LeaveSettings(t) ==
  /\ Mounted(t)
  /\ path' = [path EXCEPT ![t] = "/"]
  /\ NoForm(t)
  /\ net' = [net EXCEPT ![t] = [x \in Slots |-> Orphaned(net[t][x])]]
  /\ UNCHANGED <<s_settings, loading, user, cookie>>

(* Mutant of Edit: the rest of the form is not kept.                       *)
MutEdit(t, f, v) ==
  /\ Mounted(t) /\ settings[t] # Blank
  /\ settings' = [settings EXCEPT ![t] = [g \in {f} |-> v]]
  /\ edited' = [edited EXCEPT ![t] = @ \cup {f}]
  /\ UNCHANGED <<s_settings, loading, user, path, spin, stale, net, cookie>>

(* The form of a loaded page is edited; an empty number becomes null.      *)
Edit(t, f, v) ==
  /\ Mounted(t) /\ settings[t] # Blank
  /\ v = Null => f \in Bytes
  /\ settings' = [settings EXCEPT ![t][f] = v]
  /\ edited' = [edited EXCEPT ![t] = @ \cup {f}]
  /\ UNCHANGED <<s_settings, loading, user, path, spin, stale, net, cookie>>

(* Mutant of Saves: a button that is never disabled.                       *)
MutSaves(t) == settings[t] # Blank

Saves(t) == settings[t] # Blank /\ ~spin[t]

Save(t, s) ==
  /\ Mounted(t) /\ Saves(t)
  /\ Free(t, s)
  /\ Put(t, s, [Fetch("set") EXCEPT !.body = settings[t], !.edited = edited[t],
                                    !.stale = stale[t]])
  /\ spin' = [spin EXCEPT ![t] = TRUE]
  /\ UNCHANGED <<s_settings, loading, user, path, settings, edited, stale, cookie>>

-----------------------------------------------------------------------------
(* The server.                                                             *)

(* What was read before a change of the settings is stale after it.        *)
Outdated(r) ==
  IF (r.what \in {"set", "left"} /\ ~r.answered) \/ (r.what = "get" /\ r.answered)
  THEN [r EXCEPT !.stale = TRUE] ELSE r

(* Requests that change nothing.                                           *)
Serve(t, s) ==
  /\ net[t][s].what \in {"login", "logout", "get"} /\ ~net[t][s].answered
  /\ Put(t, s, [net[t][s] EXCEPT !.answered = TRUE,
                 !.body = IF net[t][s].what = "get" /\ Succeeds(net[t][s])
                          THEN handle_settings_get ELSE Blank])
  /\ UNCHANGED <<s_settings, pageVars, cookie>>

(* A "set" that is refused, and one that is carried out.                   *)
ServeRefused(t, s) ==
  /\ net[t][s].what \in {"set", "left"} /\ ~net[t][s].answered
  /\ ~Succeeds(net[t][s])
  /\ Put(t, s, IF net[t][s].what = "left" THEN Nothing
               ELSE [net[t][s] EXCEPT !.answered = TRUE])
  /\ UNCHANGED <<s_settings, pageVars, cookie>>

ServeSet(t, s) ==
  /\ net[t][s].what \in {"set", "left"} /\ ~net[t][s].answered
  /\ Succeeds(net[t][s])
  /\ handle_settings_set(net[t][s].body)
  /\ net' = [u \in Tabs |-> [x \in Slots |->
       IF u # t \/ x # s THEN Outdated(net[u][x])
       ELSE IF net[t][s].what = "left" THEN Nothing
       ELSE [net[t][s] EXCEPT !.answered = TRUE]]]
  /\ stale' = [u \in Tabs |->
       IF u = t /\ net[t][s].what = "set" THEN stale[t] \/ net[t][s].stale
       ELSE settings[u] # Blank]
  /\ UNCHANGED <<loading, user, path, settings, spin, edited, cookie>>

(* The settings change without the tabs.                                   *)
Outdate ==
  /\ net' = [u \in Tabs |-> [x \in Slots |-> Outdated(net[u][x])]]
  /\ stale' = [u \in Tabs |-> settings[u] # Blank]
  /\ UNCHANGED <<loading, user, path, settings, spin, edited, cookie>>

(* Another client sets some of the fields; null would do what leaving the  *)
(* field out does.                                                         *)
OtherSets(body) == handle_settings_set(body) /\ Outdate

(* The unit restarts with the settings of web_init.                        *)
Restart == s_settings' = web_init /\ Outdate

(* The cookie of a login lives for a day, in the browser.                  *)
CookieExpires ==
  /\ cookie # NULL /\ cookie' = NULL
  /\ UNCHANGED <<s_settings, pageVars, net>>

-----------------------------------------------------------------------------
(* The answers.                                                            *)

Answer(t, s, what) == net[t][s].what = what /\ net[t][s].answered

(* A login succeeds: the page that the address names appears, if it was    *)
(* not shown before.                                                       *)
LoginAnswered(t, s) ==
  /\ Answer(t, s, "login") /\ Succeeds(net[t][s])
  /\ user' = [user EXCEPT ![t] = authenticate(net[t][s].basic, net[t][s].cookie)]
  /\ cookie' = user'[t]
  /\ loading' = [loading EXCEPT ![t] = FALSE]
  /\ Put(t, s, IF ~LoggedIn(t) /\ path[t] = "settings"
               THEN [Fetch("get") EXCEPT !.cookie = user'[t]] ELSE Nothing)
  /\ UNCHANGED <<s_settings, path, settings, spin, edited, stale>>

(* Mutant of LoginRefused: the "setUser(null)" of the code, carried out.   *)
MutLoginRefused(t, s) ==
  /\ Answer(t, s, "login") /\ ~Succeeds(net[t][s])
  /\ loading' = [loading EXCEPT ![t] = FALSE]
  /\ user' = [user EXCEPT ![t] = NULL]
  /\ NoForm(t)
  /\ net' = [net EXCEPT ![t] = [x \in Slots |->
               IF x = s THEN Nothing ELSE Orphaned(net[t][x])]]
  /\ UNCHANGED <<s_settings, path, cookie>>

(* "setLoading(false) && setUser(null)": setLoading returns undefined.     *)
LoginRefused(t, s) ==
  /\ Answer(t, s, "login") /\ ~Succeeds(net[t][s])
  /\ loading' = [loading EXCEPT ![t] = FALSE]
  /\ Put(t, s, Nothing)
  /\ UNCHANGED <<s_settings, user, path, settings, spin, edited, stale, cookie>>

(* Whatever the answer is, the user is gone.  The empty cookie has the     *)
(* attribute Secure, which browsers may refuse over plain HTTP.            *)
LogoutAnswered(t, s) ==
  /\ Answer(t, s, "logout")
  /\ user' = [user EXCEPT ![t] = NULL]
  /\ cookie' \in {cookie} \cup (IF Succeeds(net[t][s]) THEN {NULL} ELSE {})
  /\ NoForm(t)
  /\ net' = [net EXCEPT ![t] = [x \in Slots |->
               IF x = s THEN Nothing ELSE Orphaned(net[t][x])]]
  /\ UNCHANGED <<s_settings, loading, path>>

(* refresh.                                                                *)
GetAnswered(t, s) ==
  /\ Answer(t, s, "get") /\ Succeeds(net[t][s])
  /\ settings' = [settings EXCEPT ![t] = net[t][s].body]
  /\ edited' = [edited EXCEPT ![t] = {}]
  /\ stale' = [stale EXCEPT ![t] = net[t][s].stale]
  /\ spin' = [spin EXCEPT ![t] = FALSE]
  /\ Put(t, s, Nothing)
  /\ UNCHANGED <<s_settings, loading, user, path, cookie>>

(* onsave goes on with a refresh.                                          *)
SetAnswered(t, s) ==
  /\ Answer(t, s, "set") /\ Succeeds(net[t][s])
  /\ Put(t, s, Fetch("get"))
  /\ UNCHANGED <<s_settings, pageVars, cookie>>

(* Mutant of Rejected: no catch in the button's callback.                  *)
MutRejected(t, s) ==
  /\ Put(t, s, Nothing)
  /\ UNCHANGED <<s_settings, pageVars, cookie>>

(* A chain of the Settings page is rejected, or any other.                 *)
Rejected(t, s) ==
  /\ spin' = IF net[t][s].what \in {"get", "set"} THEN [spin EXCEPT ![t] = FALSE] ELSE spin
  /\ Put(t, s, Nothing)
  /\ UNCHANGED <<s_settings, loading, user, path, settings, edited, stale, cookie>>

(* "Not Authorised" is no JSON.                                            *)
NotJson(t, s) ==
  /\ Answer(t, s, "get") \/ Answer(t, s, "set")
  /\ ~Succeeds(net[t][s])
  /\ Rejected(t, s)

(* A request or its answer is lost.                                        *)
Lost(t, s) == net[t][s] # Nothing /\ Rejected(t, s)

Settles(t, s) ==
  \/ Serve(t, s) \/ ServeRefused(t, s) \/ ServeSet(t, s)
  \/ LoginAnswered(t, s) \/ LoginRefused(t, s) \/ LogoutAnswered(t, s)
  \/ GetAnswered(t, s) \/ SetAnswered(t, s) \/ NotJson(t, s) \/ Lost(t, s)

Next ==
  \/ \E t \in Tabs :
       \/ \E s \in Slots :
            \/ Reload(t, s) \/ Logout(t, s) \/ OpenSettings(t, s) \/ Save(t, s)
            \/ \E basic \in Users \cup {Wrong} : Submit(t, s, basic)
            \/ Settles(t, s)
       \/ LeaveSettings(t)
       \/ \E f \in Fields, v \in Typed \cup {Null} : Edit(t, f, v)
  \/ \E D \in SUBSET Fields : \E body \in [D -> Typed] : OtherSets(body)
  \/ Restart
  \/ CookieExpires

Spec == Init /\ [][Next]_vars

(* Every fetch comes to an end: mongoose_task polls for ever, and the      *)
(* browser gives up a connection that is dead.                             *)
FairSpec == Spec /\ \A t \in Tabs, s \in Slots : WF_vars(Settles(t, s))

-----------------------------------------------------------------------------
(* Properties.                                                             *)

(* A page sends one save at a time, so the unit cannot carry out an older  *)
(* one after a newer one as long as the page is not left.                  *)
OneSaveAtATime ==
  \A t \in Tabs, s, x \in Slots :
    net[t][s].what = "set" /\ net[t][x].what = "set" => s = x

(* A save changes what its user edited and nothing else, unless somebody   *)
(* has changed the settings since the form was read: no field is lost on   *)
(* its way to the page and back.                                           *)
SavesOnlyEdits ==
  [][\A t \in Tabs, s \in Slots :
       ServeSet(t, s) /\ ~net[t][s].stale =>
         \A f \in Fields : handle_settings_get'[f] # handle_settings_get[f]
                             => f \in net[t][s].edited]_vars

(* Only a logout that was answered, or a reload, ends a session on the     *)
(* page: not a login that was refused late.                                *)
OnlyLogoutLogsOut ==
  [][\A t \in Tabs : LoggedIn(t) /\ ~LoggedIn(t)' =>
       loading'[t] \/ \E s \in Slots : Answer(t, s, "logout")]_vars

(* The Save button comes back, whatever is lost, refused or left.          *)
NoDeadButton == \A t \in Tabs : spin[t] ~> ~spin[t]
=============================================================================
