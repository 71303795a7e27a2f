--------------------------- MODULE DashboardProofs ---------------------------
(***************************************************************************)
(* Theorems about Dashboard, for any number of tabs, requests, users and   *)
(* fields.                                                                 *)
(***************************************************************************)
EXTENDS Dashboard, TLAPS

-----------------------------------------------------------------------------
(* Types.                                                                  *)

LEMMA NothingType == Nothing \in Requests
  BY WebAssumption DEF Nothing, Requests

LEMMA FetchType ==
  ASSUME TypeOK, NEW what \in {"login", "logout", "get", "set"}
  PROVE  Fetch(what) \in Requests
  BY DEF TypeOK, Fetch, Nothing, Requests

LEMMA OrphanedType ==
  ASSUME NEW r \in Requests
  PROVE  Orphaned(r) \in Requests
<1>1. [r EXCEPT !.what = "left"] \in Requests
  BY DEF Requests
<1> QED  BY <1>1, NothingType DEF Orphaned

LEMMA OutdatedType ==
  ASSUME NEW r \in Requests
  PROVE  Outdated(r) \in Requests
<1>1. [r EXCEPT !.stale = TRUE] \in Requests
  BY DEF Requests
<1> QED  BY <1>1 DEF Outdated

LEMMA RequestType ==
  ASSUME TypeOK, NEW t \in Tabs, NEW s \in Slots
  PROVE  net[t][s] \in Requests
  BY DEF TypeOK

LEMMA PutType ==
  ASSUME TypeOK, NEW t \in Tabs, NEW s \in Slots, NEW r \in Requests, Put(t, s, r)
  PROVE  net' \in [Tabs -> [Slots -> Requests]]
  BY DEF TypeOK, Put

LEMMA FormTypes ==
  ASSUME TypeOK, NEW t \in Tabs, NoForm(t)
  PROVE  /\ settings' \in [Tabs -> Forms \cup {Blank}]
         /\ spin' \in [Tabs -> BOOLEAN]
         /\ edited' \in [Tabs -> SUBSET Fields]
         /\ stale' \in [Tabs -> BOOLEAN]
  BY DEF TypeOK, NoForm

(* What the server answers is a form, and what it stores are numbers.      *)
LEMMA ServerTypes ==
  ASSUME TypeOK
  PROVE  /\ handle_settings_get \in Forms
         /\ \A f \in Fields : handle_settings_get[f] \in Int
<1>1. \A f \in Fields : s_settings[f] \in Int /\ s_settings[f] % ByteSize \in Int
  BY WebAssumption DEF TypeOK
<1> QED  BY <1>1 DEF handle_settings_get, Forms

LEMMA SetType ==
  ASSUME NEW body, \A f \in Fields : f \in DOMAIN body => body[f] \in Int \cup {Null},
         handle_settings_set(body)
  PROVE  s_settings' \in [Fields -> Int]
  BY DEF handle_settings_set

(* A save on its way to the server has a body.                             *)
HasBody ==
  \A t \in Tabs, s \in Slots :
    net[t][s].what \in {"set", "left"} /\ ~net[t][s].answered => net[t][s].body \in Forms

LEMMA TypeInit == Init => TypeOK /\ HasBody
<1> SUFFICES ASSUME Init PROVE TypeOK /\ HasBody
  OBVIOUS
<1>1. Fetch("login") \in Requests /\ Nothing \in Requests
  BY WebAssumption DEF Init, Fetch, Nothing, Requests
<1>2. net \in [Tabs -> [Slots -> Requests]]
  BY <1>1 DEF Init
<1>3. HasBody
  BY DEF Init, HasBody, Fetch, Nothing
<1>4. s_settings \in [Fields -> Int]
  BY WebAssumption DEF Init, web_init
<1> QED  BY <1>2, <1>3, <1>4 DEF Init, TypeOK

(* Leaving requests as they are, or changing one, keeps HasBody.           *)
LEMMA PutHasBody ==
  ASSUME TypeOK, HasBody, NEW t \in Tabs, NEW s \in Slots, NEW r, Put(t, s, r),
         r.what \in {"set", "left"} /\ ~r.answered => r.body \in Forms
  PROVE  HasBody'
<1> SUFFICES ASSUME NEW u \in Tabs, NEW x \in Slots,
                    net'[u][x].what \in {"set", "left"}, ~net'[u][x].answered
             PROVE  net'[u][x].body \in Forms
  BY DEF HasBody
<1>1. CASE u = t /\ x = s
  BY <1>1 DEF Put, TypeOK
<1>2. CASE ~(u = t /\ x = s)
  <2>1. net'[u][x] = net[u][x]
    BY <1>2 DEF Put, TypeOK
  <2> QED  BY <2>1 DEF HasBody
<1> QED  BY <1>1, <1>2

LEMMA NothingFields == Nothing.what = "none" /\ Nothing.answered = FALSE
  BY DEF Nothing

LEMMA FetchFields ==
  ASSUME NEW what
  PROVE  Fetch(what).what = what /\ Fetch(what).answered = FALSE
  BY DEF Fetch, Nothing

(* Orphaned and Outdated keep what they do not drop.                       *)
LEMMA OrphanedFields ==
  ASSUME NEW r \in Requests
  PROVE  /\ Orphaned(r).what \notin {"get", "set"}
         /\ Orphaned(r).what = "left" =>
              /\ r.what \in {"set", "left"} /\ (r.what = "set" => ~r.answered)
              /\ Orphaned(r).answered = r.answered
              /\ Orphaned(r).body = r.body
              /\ Orphaned(r).edited = r.edited
              /\ Orphaned(r).stale = r.stale
  BY NothingFields DEF Orphaned, Requests

LEMMA OutdatedFields ==
  ASSUME NEW r \in Requests
  PROVE  /\ Outdated(r).what = r.what /\ Outdated(r).answered = r.answered
         /\ Outdated(r).body = r.body /\ Outdated(r).edited = r.edited
         /\ Outdated(r).basic = r.basic /\ Outdated(r).cookie = r.cookie
         /\ r.what \in {"set", "left"} /\ ~r.answered => Outdated(r).stale
         /\ r.what = "get" /\ r.answered => Outdated(r).stale
  BY DEF Outdated, Requests

(* A page that is left.                                                    *)
LEMMA LeftRequests ==
  ASSUME TypeOK, HasBody, NEW t \in Tabs, NEW s \in Slots \cup {0},
         NEW N \in Requests, N.what \in {"none", "login"},
         net' = [net EXCEPT ![t] = [x \in Slots |->
           IF x = s THEN N
           ELSE IF net[t][x].what \in {"login", "logout"} /\ N.what = "login"
                THEN Nothing ELSE Orphaned(net[t][x])]]
  PROVE  net' \in [Tabs -> [Slots -> Requests]] /\ HasBody'
<1>1. \A x \in Slots : net[t][x] \in Requests /\ Orphaned(net[t][x]) \in Requests
  BY RequestType, OrphanedType
<1>2. net' \in [Tabs -> [Slots -> Requests]]
  BY <1>1, NothingType DEF TypeOK
<1>3. HasBody'
  <2> SUFFICES ASSUME NEW u \in Tabs, NEW x \in Slots,
                      net'[u][x].what \in {"set", "left"}, ~net'[u][x].answered
               PROVE  net'[u][x].body \in Forms
    BY DEF HasBody
  <2>1. CASE u # t
    <3>1. net'[u][x] = net[u][x]
      BY <2>1 DEF TypeOK
    <3> QED  BY <3>1 DEF HasBody
  <2>2. CASE u = t
    <3>1. net'[u][x] = Orphaned(net[t][x])
      BY <2>2, NothingFields DEF TypeOK
    <3>2. /\ net[t][x].what \in {"set", "left"} /\ net'[u][x].body = net[t][x].body
          /\ net'[u][x].answered = net[t][x].answered
      BY <1>1, <3>1, OrphanedFields
    <3> QED  BY <3>2 DEF HasBody
  <2> QED  BY <2>1, <2>2
<1> QED  BY <1>2, <1>3

(* Settings that change elsewhere.                                         *)
LEMMA OutdateType ==
  ASSUME TypeOK, HasBody, s_settings' \in [Fields -> Int], Outdate
  PROVE  TypeOK' /\ HasBody'
<1>1. \A u \in Tabs, x \in Slots : net[u][x] \in Requests /\ Outdated(net[u][x]) \in Requests
  BY RequestType, OutdatedType
<1>2. net' \in [Tabs -> [Slots -> Requests]]
  BY <1>1 DEF Outdate
<1>3. HasBody'
  BY <1>1, OutdatedFields DEF HasBody, Outdate
<1> QED  BY <1>2, <1>3 DEF Outdate, TypeOK

LEMMA ReloadType ==
  ASSUME TypeOK, HasBody, NEW t \in Tabs, NEW s \in Slots, Reload(t, s)
  PROVE  TypeOK' /\ HasBody'
<1>1. Fetch("login") \in Requests /\ Fetch("login").what = "login"
  BY FetchType, FetchFields
<1>2. net' = [net EXCEPT ![t] = [x \in Slots |->
        IF x = s THEN Fetch("login")
        ELSE IF net[t][x].what \in {"login", "logout"} /\ Fetch("login").what = "login"
             THEN Nothing ELSE Orphaned(net[t][x])]]
  BY <1>1 DEF Reload
<1>3. net' \in [Tabs -> [Slots -> Requests]] /\ HasBody'
  BY <1>1, <1>2, LeftRequests
<1> QED  BY <1>3, FormTypes DEF Reload, TypeOK

LEMMA LeaveType ==
  ASSUME TypeOK, HasBody, NEW t \in Tabs, LeaveSettings(t)
  PROVE  TypeOK' /\ HasBody'
<1>1. \A x \in Slots : x # 0
  BY DashboardAssumption DEF Slots
<1>2. net' = [net EXCEPT ![t] = [x \in Slots |->
        IF x = 0 THEN Nothing
        ELSE IF net[t][x].what \in {"login", "logout"} /\ Nothing.what = "login"
             THEN Nothing ELSE Orphaned(net[t][x])]]
  BY <1>1, NothingFields DEF LeaveSettings
<1>3. net' \in [Tabs -> [Slots -> Requests]] /\ HasBody'
  BY <1>2, NothingType, NothingFields, LeftRequests
<1> QED  BY <1>3, FormTypes DEF LeaveSettings, TypeOK

LEMMA LogoutAnsweredType ==
  ASSUME TypeOK, HasBody, NEW t \in Tabs, NEW s \in Slots, LogoutAnswered(t, s)
  PROVE  TypeOK' /\ HasBody'
<1>1. net' = [net EXCEPT ![t] = [x \in Slots |->
        IF x = s THEN Nothing
        ELSE IF net[t][x].what \in {"login", "logout"} /\ Nothing.what = "login"
             THEN Nothing ELSE Orphaned(net[t][x])]]
  BY NothingFields DEF LogoutAnswered
<1>2. net' \in [Tabs -> [Slots -> Requests]] /\ HasBody'
  BY <1>1, NothingType, NothingFields, LeftRequests
<1> QED  BY <1>2, FormTypes DEF LogoutAnswered, TypeOK

(* The requests that a user's action sends.                                *)
LEMMA SendType ==
  ASSUME TypeOK, HasBody, NEW t \in Tabs, NEW s \in Slots,
         NEW basic \in Users \cup {Wrong},
         Submit(t, s, basic) \/ Logout(t, s) \/ OpenSettings(t, s) \/ Save(t, s)
  PROVE  TypeOK' /\ HasBody'
<1>1. CASE Submit(t, s, basic)
  <2> DEFINE r == [Fetch("login") EXCEPT !.basic = basic]
  <2>1. r \in Requests /\ r.what = "login"
    BY FetchType, FetchFields DEF Requests
  <2>2. net' \in [Tabs -> [Slots -> Requests]] /\ HasBody'
    BY <1>1, <2>1, PutType, PutHasBody DEF Submit
  <2> QED  BY <1>1, <2>2 DEF Submit, TypeOK, pageVars
<1>2. CASE Logout(t, s)
  <2>1. Fetch("logout") \in Requests /\ Fetch("logout").what = "logout"
    BY FetchType, FetchFields
  <2>2. net' \in [Tabs -> [Slots -> Requests]] /\ HasBody'
    BY <1>2, <2>1, PutType, PutHasBody DEF Logout
  <2> QED  BY <1>2, <2>2 DEF Logout, TypeOK, pageVars
<1>3. CASE OpenSettings(t, s)
  <2>1. Fetch("get") \in Requests /\ Fetch("get").what = "get"
    BY FetchType, FetchFields
  <2>2. net' \in [Tabs -> [Slots -> Requests]] /\ HasBody'
    BY <1>3, <2>1, PutType, PutHasBody DEF OpenSettings
  <2> QED  BY <1>3, <2>2 DEF OpenSettings, TypeOK
<1>4. CASE Save(t, s)
  <2> DEFINE r == [Fetch("set") EXCEPT !.body = settings[t], !.edited = edited[t],
                                       !.stale = stale[t]]
  <2>1. settings[t] \in Forms /\ edited[t] \in SUBSET Fields /\ stale[t] \in BOOLEAN
    BY <1>4 DEF Save, Saves, TypeOK
  <2>2. r \in Requests /\ r.body = settings[t]
    BY <2>1, FetchType DEF Requests
  <2>3. net' \in [Tabs -> [Slots -> Requests]] /\ HasBody'
    BY <1>4, <2>1, <2>2, PutType, PutHasBody DEF Save
  <2> QED  BY <1>4, <2>3 DEF Save, TypeOK
<1> QED  BY <1>1, <1>2, <1>3, <1>4

LEMMA EditType ==
  ASSUME TypeOK, HasBody, NEW t \in Tabs, NEW f \in Fields,
         NEW v \in Typed \cup {Null}, Edit(t, f, v)
  PROVE  TypeOK' /\ HasBody'
<1>1. settings[t] \in Forms /\ v \in Int \cup {Null}
  BY WebAssumption DEF Edit, TypeOK
<1>2. [settings[t] EXCEPT ![f] = v] \in Forms
  BY <1>1 DEF Forms
<1>3. settings' \in [Tabs -> Forms \cup {Blank}]
  BY <1>2 DEF Edit, TypeOK
<1>4. edited' \in [Tabs -> SUBSET Fields]
  BY DEF Edit, TypeOK
<1>5. HasBody'
  BY DEF Edit, HasBody
<1> QED  BY <1>3, <1>4, <1>5 DEF Edit, TypeOK

(* The server's steps.                                                     *)
LEMMA ServeType ==
  ASSUME TypeOK, HasBody, NEW t \in Tabs, NEW s \in Slots,
         Serve(t, s) \/ ServeRefused(t, s) \/ ServeSet(t, s)
  PROVE  TypeOK' /\ HasBody'
<1>1. net[t][s] \in Requests
  BY RequestType
<1>2. CASE Serve(t, s)
  <2> DEFINE b == IF net[t][s].what = "get" /\ Succeeds(net[t][s])
                  THEN handle_settings_get ELSE Blank
             r == [net[t][s] EXCEPT !.answered = TRUE, !.body = b]
  <2>1. b \in Forms \cup {Blank}
    BY ServerTypes
  <2>2. r \in Requests /\ r.answered = TRUE
    BY <1>1, <2>1 DEF Requests
  <2>3. net' \in [Tabs -> [Slots -> Requests]] /\ HasBody'
    BY <1>2, <2>2, PutType, PutHasBody DEF Serve
  <2> QED  BY <1>2, <2>3 DEF Serve, TypeOK, pageVars
<1>3. CASE ServeRefused(t, s)
  <2> DEFINE r == IF net[t][s].what = "left" THEN Nothing
                  ELSE [net[t][s] EXCEPT !.answered = TRUE]
  <2>1. r \in Requests /\ (r.what \in {"set", "left"} => r.answered)
    BY <1>1, NothingType, NothingFields DEF Requests
  <2>2. net' \in [Tabs -> [Slots -> Requests]] /\ HasBody'
    BY <1>3, <2>1, PutType, PutHasBody DEF ServeRefused
  <2> QED  BY <1>3, <2>2 DEF ServeRefused, TypeOK, pageVars
<1>4. CASE ServeSet(t, s)
  <2>1. net[t][s].body \in Forms
    BY <1>4 DEF ServeSet, HasBody
  <2>2. s_settings' \in [Fields -> Int]
    BY <1>4, <2>1, SetType DEF ServeSet, Forms
  <2>3. \A u \in Tabs, x \in Slots :
          net[u][x] \in Requests /\ Outdated(net[u][x]) \in Requests
    BY RequestType, OutdatedType
  <2>4. [net[t][s] EXCEPT !.answered = TRUE] \in Requests
    BY <1>1 DEF Requests
  <2>5. net' \in [Tabs -> [Slots -> Requests]]
    BY <1>4, <2>3, <2>4, NothingType DEF ServeSet
  <2>6. HasBody'
    <3> SUFFICES ASSUME NEW u \in Tabs, NEW x \in Slots,
                        net'[u][x].what \in {"set", "left"}, ~net'[u][x].answered
                 PROVE  net'[u][x].body \in Forms
      BY DEF HasBody
    <3>1. u # t \/ x # s
      BY <1>1, <1>4, NothingFields DEF ServeSet, Requests
    <3>2. net'[u][x] = Outdated(net[u][x])
      BY <1>4, <3>1 DEF ServeSet
    <3> QED  BY <2>3, <3>2, OutdatedFields DEF HasBody
  <2>7. stale' \in [Tabs -> BOOLEAN]
    BY <1>1, <1>4 DEF ServeSet, TypeOK, Requests
  <2> QED  BY <1>4, <2>2, <2>5, <2>6, <2>7 DEF ServeSet, TypeOK
<1> QED  BY <1>2, <1>3, <1>4

LEMMA RejectedType ==
  ASSUME TypeOK, HasBody, NEW t \in Tabs, NEW s \in Slots, Rejected(t, s)
  PROVE  TypeOK' /\ HasBody'
<1>1. net' \in [Tabs -> [Slots -> Requests]] /\ HasBody'
  BY NothingType, NothingFields, PutType, PutHasBody DEF Rejected
<1> QED  BY <1>1 DEF Rejected, TypeOK

(* The answers.                                                            *)
LEMMA AnsweredType ==
  ASSUME TypeOK, HasBody, NEW t \in Tabs, NEW s \in Slots,
         \/ LoginAnswered(t, s) \/ LoginRefused(t, s)
         \/ GetAnswered(t, s) \/ SetAnswered(t, s)
  PROVE  TypeOK' /\ HasBody'
<1>1. net[t][s] \in Requests
  BY RequestType
<1>2. CASE LoginAnswered(t, s)
  <2>1. authenticate(net[t][s].basic, net[t][s].cookie) \in Users \cup {NULL}
    BY <1>1 DEF authenticate, Requests
  <2>2. user' \in [Tabs -> Users \cup {NULL}] /\ cookie' \in Users \cup {NULL}
    BY <1>2, <2>1 DEF LoginAnswered, TypeOK
  <2> DEFINE r == IF ~LoggedIn(t) /\ path[t] = "settings"
                  THEN [Fetch("get") EXCEPT !.cookie = user'[t]] ELSE Nothing
  <2>3. user'[t] \in Users \cup {NULL}
    BY <2>2
  <2>4. [Fetch("get") EXCEPT !.cookie = user'[t]] \in Requests
    BY <2>3, FetchType DEF Requests
  <2>5. Fetch("get") \in Requests /\ Fetch("get").what = "get"
    BY FetchType, FetchFields
  <2>6. r \in Requests /\ r.what \in {"get", "none"}
    BY <2>4, <2>5, NothingType, NothingFields DEF Requests
  <2>7. net' \in [Tabs -> [Slots -> Requests]] /\ HasBody'
    BY <1>2, <2>6, PutType, PutHasBody DEF LoginAnswered
  <2> QED  BY <1>2, <2>2, <2>7 DEF LoginAnswered, TypeOK
<1>3. CASE LoginRefused(t, s)
  <2>1. net' \in [Tabs -> [Slots -> Requests]] /\ HasBody'
    BY <1>3, NothingType, NothingFields, PutType, PutHasBody DEF LoginRefused
  <2> QED  BY <1>3, <2>1 DEF LoginRefused, TypeOK
<1>4. CASE GetAnswered(t, s)
  <2>1. net' \in [Tabs -> [Slots -> Requests]] /\ HasBody'
    BY <1>4, NothingType, NothingFields, PutType, PutHasBody DEF GetAnswered
  <2>2. net[t][s].body \in Forms \cup {Blank} /\ net[t][s].stale \in BOOLEAN
    BY <1>1 DEF Requests
  <2> QED  BY <1>4, <2>1, <2>2 DEF GetAnswered, TypeOK
<1>5. CASE SetAnswered(t, s)
  <2>1. Fetch("get") \in Requests /\ Fetch("get").what = "get"
    BY FetchType, FetchFields
  <2>2. net' \in [Tabs -> [Slots -> Requests]] /\ HasBody'
    BY <1>5, <2>1, PutType, PutHasBody DEF SetAnswered
  <2> QED  BY <1>5, <2>2 DEF SetAnswered, TypeOK, pageVars
<1> QED  BY <1>2, <1>3, <1>4, <1>5

LEMMA TypeStep == TypeOK /\ HasBody /\ [Next]_vars => TypeOK' /\ HasBody'
<1> SUFFICES ASSUME TypeOK, HasBody, [Next]_vars
             PROVE  TypeOK' /\ HasBody'
  OBVIOUS
<1>1. ASSUME NEW t \in Tabs, NEW s \in Slots, Settles(t, s)
      PROVE  TypeOK' /\ HasBody'
  BY <1>1, ServeType, AnsweredType, RejectedType, LogoutAnsweredType
     DEF Settles, NotJson, Lost
<1>2. ASSUME NEW D \in SUBSET Fields, NEW body \in [D -> Typed], OtherSets(body)
      PROVE  TypeOK' /\ HasBody'
  <2>1. \A f \in Fields : f \in DOMAIN body => body[f] \in Int \cup {Null}
    BY WebAssumption
  <2>2. s_settings' \in [Fields -> Int]
    BY <1>2, <2>1, SetType DEF OtherSets
  <2> QED  BY <1>2, <2>2, OutdateType DEF OtherSets
<1>3. CASE Restart
  <2>1. s_settings' \in [Fields -> Int]
    BY <1>3, WebAssumption DEF Restart, web_init
  <2> QED  BY <1>3, <2>1, OutdateType DEF Restart
<1>4. CASE UNCHANGED vars
  BY <1>4 DEF vars, pageVars, TypeOK, HasBody
<1>5. ASSUME NEW t \in Tabs, NEW s \in Slots, Logout(t, s) \/ OpenSettings(t, s) \/ Save(t, s)
      PROVE  TypeOK' /\ HasBody'
  <2>1. Wrong \in Users \cup {Wrong}
    OBVIOUS
  <2> QED  BY <1>5, <2>1, SendType
<1>6. CASE CookieExpires
  BY <1>6 DEF CookieExpires, pageVars, TypeOK, HasBody
<1> QED  BY <1>1, <1>2, <1>3, <1>4, <1>5, <1>6, SendType, ReloadType, LeaveType, EditType
        DEF Next

(* The pages, the requests and the settings keep their types.              *)
THEOREM WebTypeOK == Spec => []TypeOK
  BY TypeInit, TypeStep, PTL DEF Spec

-----------------------------------------------------------------------------
(* The requests of a Settings page.                                        *)

Live(t, s) == net[t][s].what \in {"get", "set"}

(* They go on only while the page is there, one at a time, and with the    *)
(* Save button disabled if there is a form.                                *)
LiveInv ==
  /\ \A t \in Tabs, s \in Slots : Live(t, s) => Mounted(t)
  /\ \A t \in Tabs, s, x \in Slots : Live(t, s) /\ Live(t, x) => s = x
  /\ \A t \in Tabs, s \in Slots : net[t][s].what = "set" => settings[t] # Blank
  /\ \A t \in Tabs, s \in Slots : Live(t, s) /\ settings[t] # Blank => spin[t]
  /\ \A t \in Tabs : settings[t] # Blank => Mounted(t)

LEMMA PutLookup ==
  ASSUME TypeOK, NEW t \in Tabs, NEW s \in Slots, NEW r, Put(t, s, r),
         NEW u \in Tabs, NEW x \in Slots
  PROVE  net'[u][x] = IF u = t /\ x = s THEN r ELSE net[u][x]
  BY DEF TypeOK, Put

LEMMA LiveInit == Init => LiveInv
<1>1. Fetch("login").what = "login" /\ Nothing.what = "none"
  BY FetchFields, NothingFields
<1> QED  BY <1>1 DEF Init, LiveInv, Live

(* Nothing of the page t is live, and nothing else has changed.            *)
LEMMA LiveGone ==
  ASSUME TypeOK, LiveInv, NEW t \in Tabs, NoForm(t),
         \A x \in Slots : ~Live(t, x)',
         \A u \in Tabs \ {t} : /\ net'[u] = net[u] /\ loading'[u] = loading[u]
                              /\ user'[u] = user[u] /\ path'[u] = path[u]
  PROVE  LiveInv'
<1>1. \A u \in Tabs \ {t} : settings'[u] = settings[u] /\ spin'[u] = spin[u]
  BY DEF NoForm, TypeOK
<1>2. settings'[t] = Blank
  BY DEF NoForm, TypeOK
<1>3. \A u \in Tabs \ {t} : Mounted(u)' = Mounted(u)
  BY DEF Mounted, LoggedIn
<1>4. \A u \in Tabs \ {t}, x \in Slots : Live(u, x)' = Live(u, x)
  BY DEF Live
<1>5. \A u \in Tabs, x \in Slots : Live(u, x)' => u # t
  OBVIOUS
<1>6. \A u \in Tabs, x \in Slots : net'[u][x].what = "set" => Live(u, x)'
  BY DEF Live
<1>a. \A u \in Tabs, x \in Slots : Live(u, x)' => Mounted(u)'
  BY <1>3, <1>4, <1>5 DEF LiveInv
<1>b. \A u \in Tabs, x, y \in Slots : Live(u, x)' /\ Live(u, y)' => x = y
  BY <1>4, <1>5 DEF LiveInv
<1>c. \A u \in Tabs, x \in Slots : net'[u][x].what = "set" => settings'[u] # Blank
  BY <1>1, <1>5, <1>6 DEF LiveInv
<1>d. \A u \in Tabs, x \in Slots : Live(u, x)' /\ settings'[u] # Blank => spin'[u]
  BY <1>1, <1>4, <1>5 DEF LiveInv
<1>e. \A u \in Tabs : settings'[u] # Blank => Mounted(u)'
  BY <1>1, <1>2, <1>3 DEF LiveInv
<1> QED  BY <1>a, <1>b, <1>c, <1>d, <1>e DEF LiveInv

LEMMA LiveLeave ==
  ASSUME TypeOK, LiveInv, NEW t \in Tabs, NEW s \in Slots,
         Reload(t, s) \/ LeaveSettings(t) \/ LogoutAnswered(t, s)
  PROVE  LiveInv'
<1>1. \A x \in Slots : net[t][x] \in Requests
  BY RequestType
<1>2. \A x \in Slots : Orphaned(net[t][x]).what \notin {"get", "set"}
  BY <1>1, OrphanedFields
<1>3. Fetch("login").what = "login" /\ Nothing.what = "none"
  BY FetchFields, NothingFields
<1>4. \A x \in Slots : net'[t][x] \in {Fetch("login"), Nothing, Orphaned(net[t][x])}
  BY DEF Reload, LeaveSettings, LogoutAnswered, TypeOK
<1>5. \A x \in Slots : ~Live(t, x)'
  BY <1>2, <1>3, <1>4 DEF Live
<1>6. /\ NoForm(t)
      /\ \A u \in Tabs \ {t} : /\ net'[u] = net[u] /\ loading'[u] = loading[u]
                              /\ user'[u] = user[u] /\ path'[u] = path[u]
  BY DEF Reload, LeaveSettings, LogoutAnswered, TypeOK
<1> QED  BY <1>5, <1>6, LiveGone

(* The page is the same, and nothing is live that was not.                 *)
LEMMA LiveSame ==
  ASSUME TypeOK, LiveInv, UNCHANGED <<spin, path>>,
         \A u \in Tabs : settings'[u] = settings[u],
         \A u \in Tabs : Mounted(u) => Mounted(u)',
         \A u \in Tabs, x \in Slots :
           net'[u][x].what = net[u][x].what \/ net'[u][x].what \notin {"get", "set"}
  PROVE  LiveInv'
<1>1. \A u \in Tabs, x \in Slots : Live(u, x)' => Live(u, x)
  BY DEF Live
<1>2. \A u \in Tabs, x \in Slots : net'[u][x].what = "set" => net[u][x].what = "set"
  OBVIOUS
<1> QED  BY <1>1, <1>2 DEF LiveInv

(* One request of the page t changes, and the page keeps its form.         *)
LEMMA LiveSend ==
  ASSUME TypeOK, LiveInv, NEW t \in Tabs, NEW s \in Slots,
         (\E basic \in Users \cup {Wrong} : Submit(t, s, basic)) \/ Logout(t, s)
  PROVE  LiveInv'
<1>1. PICK r : Put(t, s, r) /\ r.what \in {"login", "logout"}
  <2>1. \A basic : [Fetch("login") EXCEPT !.basic = basic].what = "login"
    BY DEF Fetch, Nothing
  <2> QED  BY <2>1, FetchFields DEF Submit, Logout
<1>2. \A u \in Tabs, x \in Slots :
        net'[u][x].what = net[u][x].what \/ net'[u][x].what \notin {"get", "set"}
  BY <1>1, PutLookup
<1>3. UNCHANGED pageVars
  BY DEF Submit, Logout
<1> QED  BY <1>2, <1>3, LiveSame DEF pageVars, Mounted, LoggedIn

LEMMA LiveServe ==
  ASSUME TypeOK, LiveInv, NEW t \in Tabs, NEW s \in Slots,
         Serve(t, s) \/ ServeRefused(t, s) \/ ServeSet(t, s)
  PROVE  LiveInv'
<1>1. \A u \in Tabs, x \in Slots :
        net[u][x] \in Requests /\ Outdated(net[u][x]).what = net[u][x].what
  BY RequestType, OutdatedFields
<1>2. \A u \in Tabs, x \in Slots :
        net'[u][x].what = net[u][x].what \/ net'[u][x].what \notin {"get", "set"}
  <2>1. CASE Serve(t, s)
    <3> DEFINE r == [net[t][s] EXCEPT !.answered = TRUE,
                 !.body = IF net[t][s].what = "get" /\ Succeeds(net[t][s])
                          THEN handle_settings_get ELSE Blank]
    <3>1. r.what = net[t][s].what
      BY <1>1 DEF Requests
    <3>2. Put(t, s, r)
      BY <2>1 DEF Serve
    <3> HIDE DEF r
    <3> QED  BY <3>1, <3>2, PutLookup
  <2>2. CASE ServeRefused(t, s)
    <3> DEFINE r == IF net[t][s].what = "left" THEN Nothing
                    ELSE [net[t][s] EXCEPT !.answered = TRUE]
    <3>1. r.what \in {net[t][s].what, "none"}
      BY <1>1, NothingFields DEF Requests
    <3>2. Put(t, s, r)
      BY <2>2 DEF ServeRefused
    <3> HIDE DEF r
    <3> QED  BY <3>1, <3>2, PutLookup
  <2>3. CASE ServeSet(t, s)
    <3>1. [net[t][s] EXCEPT !.answered = TRUE].what = net[t][s].what
      BY <1>1 DEF Requests
    <3> QED  BY <1>1, <2>3, <3>1, NothingFields DEF ServeSet
  <2> QED  BY <2>1, <2>2, <2>3
<1>3. UNCHANGED <<spin, path, settings, loading, user>>
  BY DEF Serve, ServeRefused, ServeSet, pageVars
<1> QED  BY <1>2, <1>3, LiveSame DEF Mounted, LoggedIn

LEMMA LiveOutdate ==
  ASSUME TypeOK, LiveInv, Outdate
  PROVE  LiveInv'
<1>1. \A u \in Tabs, x \in Slots :
        net[u][x] \in Requests /\ Outdated(net[u][x]).what = net[u][x].what
  BY RequestType, OutdatedFields
<1>2. \A u \in Tabs, x \in Slots :
        net'[u][x].what = net[u][x].what \/ net'[u][x].what \notin {"get", "set"}
  BY <1>1 DEF Outdate
<1> QED  BY <1>2, LiveSame DEF Outdate, Mounted, LoggedIn

(* A request of the page t ends there, and the button is enabled.          *)
LEMMA LiveEnds ==
  ASSUME TypeOK, LiveInv, NEW t \in Tabs, NEW s \in Slots, Live(t, s),
         Put(t, s, Nothing), spin' = [spin EXCEPT ![t] = FALSE],
         \A u \in Tabs \ {t} : settings'[u] = settings[u],
         UNCHANGED <<loading, user, path>>
  PROVE  LiveInv'
<1>1. \A u \in Tabs, x \in Slots : Live(u, x)' => Live(u, x) /\ u # t
  BY PutLookup, NothingFields DEF Live, LiveInv
<1>2. \A u \in Tabs, x \in Slots :
        net'[u][x].what = "set" => Live(u, x)' /\ net[u][x].what = "set"
  BY PutLookup, NothingFields DEF Live
<1>3. \A u \in Tabs \ {t} : settings'[u] = settings[u] /\ spin'[u] = spin[u]
  BY DEF TypeOK
<1>4. \A u \in Tabs : Mounted(u)' = Mounted(u)
  BY DEF Mounted, LoggedIn
<1>5. Mounted(t)
  BY DEF LiveInv
<1> QED  BY <1>1, <1>2, <1>3, <1>4, <1>5 DEF LiveInv

(* A page of t that has nothing live sends a request.                      *)
LEMMA LiveStarts ==
  ASSUME TypeOK, LiveInv, NEW t \in Tabs, NEW s \in Slots, NEW r, Put(t, s, r),
         \A x \in Slots : ~Live(t, x),
         UNCHANGED settings, spin'[t] \/ settings[t] = Blank,
         r.what = "set" => settings[t] # Blank,
         \A u \in Tabs \ {t} : spin'[u] = spin[u],
         \A u \in Tabs : Mounted(u) => Mounted(u)',
         Mounted(t)'
  PROVE  LiveInv'
<1>1. \A u \in Tabs, x \in Slots : Live(u, x)' => Live(u, x) \/ (u = t /\ x = s)
  BY PutLookup DEF Live
<1>2. \A u \in Tabs, x \in Slots :
        net'[u][x].what = "set" => net[u][x].what = "set" \/ (u = t /\ x = s)
  BY PutLookup
<1>3. net'[t][s] = r
  BY PutLookup
<1>a. \A u \in Tabs, x \in Slots : Live(u, x)' => Mounted(u)'
  BY <1>1 DEF LiveInv
<1>b. \A u \in Tabs, x, y \in Slots : Live(u, x)' /\ Live(u, y)' => x = y
  BY <1>1 DEF LiveInv
<1>c. \A u \in Tabs, x \in Slots : net'[u][x].what = "set" => settings'[u] # Blank
  BY <1>2, <1>3 DEF LiveInv
<1>d. \A u \in Tabs, x \in Slots : Live(u, x)' /\ settings'[u] # Blank => spin'[u]
  BY <1>1 DEF LiveInv
<1>e. \A u \in Tabs : settings'[u] # Blank => Mounted(u)'
  BY DEF LiveInv
<1> QED  BY <1>a, <1>b, <1>c, <1>d, <1>e DEF LiveInv

LEMMA LivePage ==
  ASSUME TypeOK, LiveInv, NEW t \in Tabs, NEW s \in Slots,
         OpenSettings(t, s) \/ Save(t, s)
  PROVE  LiveInv'
<1>1. CASE OpenSettings(t, s)
  <2>1. ~Mounted(t) /\ Mounted(t)'
    BY <1>1 DEF OpenSettings, Mounted, LoggedIn, TypeOK
  <2>2. \A u \in Tabs : Mounted(u) => Mounted(u)'
    BY <1>1 DEF OpenSettings, Mounted, LoggedIn, TypeOK
  <2>3. (\A x \in Slots : ~Live(t, x)) /\ settings[t] = Blank
    BY <2>1 DEF LiveInv
  <2>4. Fetch("get").what # "set"
    BY FetchFields
  <2> QED  BY <1>1, <2>1, <2>2, <2>3, <2>4, LiveStarts DEF OpenSettings
<1>2. CASE Save(t, s)
  <2> DEFINE r == [Fetch("set") EXCEPT !.body = settings[t], !.edited = edited[t],
                                       !.stale = stale[t]]
  <2>1. settings[t] # Blank /\ ~spin[t] /\ Mounted(t) /\ Put(t, s, r)
    BY <1>2 DEF Save, Saves
  <2>2. \A x \in Slots : ~Live(t, x)
    BY <2>1 DEF LiveInv
  <2>3. \A u \in Tabs : Mounted(u) => Mounted(u)'
    BY <1>2 DEF Save, Mounted, LoggedIn
  <2>4. spin'[t] /\ \A u \in Tabs \ {t} : spin'[u] = spin[u]
    BY <1>2 DEF Save, TypeOK
  <2>5. UNCHANGED settings
    BY <1>2 DEF Save
  <2> HIDE DEF r
  <2> QED  BY <2>1, <2>2, <2>3, <2>4, <2>5, LiveStarts
<1> QED  BY <1>1, <1>2

LEMMA FormsNotBlank ==
  ASSUME NEW g \in Forms
  PROVE  g # Blank
  BY DashboardAssumption DEF Forms

LEMMA EditForm ==
  ASSUME TypeOK, NEW t \in Tabs, NEW f \in Fields,
         NEW v \in Typed \cup {Null}, Edit(t, f, v)
  PROVE  /\ settings'[t] \in Forms /\ settings[t] \in Forms
         /\ \A g \in Fields \ {f} : settings'[t][g] = settings[t][g]
         /\ \A u \in Tabs \ {t} : settings'[u] = settings[u]
<1>1. settings[t] \in Forms /\ v \in Int \cup {Null}
  BY WebAssumption DEF Edit, TypeOK
<1>2. [settings[t] EXCEPT ![f] = v] \in Forms
  BY <1>1 DEF Forms
<1>3. settings'[t] = [settings[t] EXCEPT ![f] = v]
  BY DEF Edit, TypeOK
<1> QED  BY <1>1, <1>2, <1>3 DEF Edit, TypeOK, Forms

LEMMA LiveEdit ==
  ASSUME TypeOK, LiveInv, NEW t \in Tabs, NEW f \in Fields,
         NEW v \in Typed \cup {Null}, Edit(t, f, v)
  PROVE  LiveInv'
<1>1. UNCHANGED <<loading, user, path, spin, net>>
  BY DEF Edit
<1>2. \A u \in Tabs : settings'[u] # Blank <=> settings[u] # Blank
  BY EditForm, FormsNotBlank
<1> QED  BY <1>1, <1>2 DEF LiveInv, Live, Mounted, LoggedIn

LEMMA LiveAnswered ==
  ASSUME TypeOK, LiveInv, NEW t \in Tabs, NEW s \in Slots,
         \/ LoginAnswered(t, s) \/ LoginRefused(t, s)
         \/ GetAnswered(t, s) \/ SetAnswered(t, s)
  PROVE  LiveInv'
<1>1. CASE LoginAnswered(t, s)
  <2>1. user'[t] # NULL /\ loading'[t] = FALSE
    BY <1>1 DEF LoginAnswered, Succeeds, TypeOK
  <2>2. \A u \in Tabs \ {t} : user'[u] = user[u] /\ loading'[u] = loading[u]
    BY <1>1 DEF LoginAnswered, TypeOK
  <2>3. \A u \in Tabs : Mounted(u) => Mounted(u)'
    BY <1>1, <2>1, <2>2 DEF LoginAnswered, Mounted, LoggedIn
  <2>4. UNCHANGED <<path, settings, spin>>
    BY <1>1 DEF LoginAnswered
  <2>5. CASE ~LoggedIn(t) /\ path[t] = "settings"
    <3> DEFINE r == [Fetch("get") EXCEPT !.cookie = user'[t]]
    <3>1. ~Mounted(t) /\ Mounted(t)'
      BY <2>1, <2>4, <2>5 DEF Mounted, LoggedIn
    <3>2. (\A x \in Slots : ~Live(t, x)) /\ settings[t] = Blank
      BY <3>1 DEF LiveInv
    <3>3. r.what = "get"
      BY DEF Fetch, Nothing
    <3>4. Put(t, s, r)
      BY <1>1, <2>5 DEF LoginAnswered
    <3> HIDE DEF r
    <3> QED  BY <2>3, <2>4, <3>1, <3>2, <3>3, <3>4, LiveStarts
  <2>6. CASE ~(~LoggedIn(t) /\ path[t] = "settings")
    <3>1. Put(t, s, Nothing)
      BY <1>1, <2>6 DEF LoginAnswered
    <3>2. \A u \in Tabs, x \in Slots :
            net'[u][x].what = net[u][x].what \/ net'[u][x].what \notin {"get", "set"}
      BY <3>1, PutLookup, NothingFields
    <3> QED  BY <2>3, <2>4, <3>2, LiveSame
  <2> QED  BY <2>5, <2>6
<1>2. CASE LoginRefused(t, s)
  <2>1. \A u \in Tabs, x \in Slots :
          net'[u][x].what = net[u][x].what \/ net'[u][x].what \notin {"get", "set"}
    BY <1>2, PutLookup, NothingFields DEF LoginRefused
  <2>2. \A u \in Tabs : Mounted(u) => Mounted(u)'
    BY <1>2 DEF LoginRefused, Mounted, LoggedIn, TypeOK
  <2> QED  BY <1>2, <2>1, <2>2, LiveSame DEF LoginRefused
<1>3. CASE GetAnswered(t, s)
  <2>1. Live(t, s)
    BY <1>3 DEF GetAnswered, Answer, Live
  <2>2. \A u \in Tabs \ {t} : settings'[u] = settings[u]
    BY <1>3 DEF GetAnswered, TypeOK
  <2> QED  BY <1>3, <2>1, <2>2, LiveEnds DEF GetAnswered
<1>4. CASE SetAnswered(t, s)
  <2>1. \A u \in Tabs, x \in Slots : Live(u, x)' => Live(u, x)
    BY <1>4, PutLookup DEF SetAnswered, Answer, Live
  <2>2. \A u \in Tabs, x \in Slots : net'[u][x].what = "set" => net[u][x].what = "set"
    <3>1. Fetch("get").what = "get"
      BY FetchFields
    <3>2. Put(t, s, Fetch("get"))
      BY <1>4 DEF SetAnswered
    <3> QED  BY <3>1, <3>2, PutLookup
  <2> QED  BY <1>4, <2>1, <2>2 DEF SetAnswered, LiveInv, pageVars, Mounted, LoggedIn
<1> QED  BY <1>1, <1>2, <1>3, <1>4

LEMMA LiveRejected ==
  ASSUME TypeOK, LiveInv, NEW t \in Tabs, NEW s \in Slots, Rejected(t, s)
  PROVE  LiveInv'
<1>1. CASE Live(t, s)
  BY <1>1, LiveEnds DEF Rejected, Live
<1>2. CASE ~Live(t, s)
  <2>1. \A u \in Tabs, x \in Slots :
          net'[u][x].what = net[u][x].what \/ net'[u][x].what \notin {"get", "set"}
    BY PutLookup, NothingFields DEF Rejected
  <2> QED  BY <1>2, <2>1, LiveSame DEF Rejected, Live, Mounted, LoggedIn
<1> QED  BY <1>1, <1>2

LEMMA LiveStep == TypeOK /\ LiveInv /\ [Next]_vars => LiveInv'
<1> SUFFICES ASSUME TypeOK, LiveInv, [Next]_vars
             PROVE  LiveInv'
  OBVIOUS
<1>1. ASSUME NEW t \in Tabs, NEW s \in Slots, Settles(t, s)
      PROVE  LiveInv'
  BY <1>1, LiveServe, LiveAnswered, LiveLeave, LiveRejected DEF Settles, NotJson, Lost
<1>2. CASE UNCHANGED vars
  BY <1>2 DEF vars, pageVars, LiveInv, Live, Mounted, LoggedIn
<1>3. ASSUME NEW t \in Tabs, LeaveSettings(t)
      PROVE  LiveInv'
  <2>1. 1 \in Slots
    BY DashboardAssumption DEF Slots
  <2> QED  BY <1>3, <2>1, LiveLeave
<1>4. CASE CookieExpires
  BY <1>4 DEF CookieExpires, pageVars, LiveInv, Live, Mounted, LoggedIn
<1> QED  BY <1>1, <1>2, <1>3, <1>4, LiveLeave, LiveSend, LivePage, LiveEdit, LiveOutdate
        DEF Next, OtherSets, Restart

(* A page sends one save at a time.                                        *)
THEOREM SavesInTurn == Spec => []OneSaveAtATime
<1>1. LiveInv => OneSaveAtATime
  BY DEF LiveInv, Live, OneSaveAtATime
<1> QED  BY <1>1, TypeInit, TypeStep, LiveInit, LiveStep, PTL DEF Spec

-----------------------------------------------------------------------------
(* What a form and a save have that nobody edited is what the unit has,    *)
(* unless they are stale.                                                  *)

Setting(r) == r.what \in {"set", "left"} /\ ~r.answered
Got(r)     == r.what = "get" /\ r.answered

(* A save knows no more than the form it was made from.                    *)
SaveOfForm ==
  \A t \in Tabs, s \in Slots : Setting(net[t][s]) /\ net[t][s].what = "set" =>
    net[t][s].edited \subseteq edited[t] /\ (net[t][s].stale => stale[t])

SaveFresh ==
  \A t \in Tabs, s \in Slots : Setting(net[t][s]) /\ ~net[t][s].stale =>
    \A f \in Fields : f \notin net[t][s].edited
                        => net[t][s].body[f] = handle_settings_get[f]

FormFresh ==
  \A t \in Tabs : settings[t] # Blank /\ ~stale[t] =>
    \A f \in Fields : f \notin edited[t] => settings[t][f] = handle_settings_get[f]

AnswerFresh ==
  \A t \in Tabs, s \in Slots :
    Got(net[t][s]) /\ Succeeds(net[t][s]) /\ ~net[t][s].stale
      => net[t][s].body = handle_settings_get

FreshInv == SaveOfForm /\ SaveFresh /\ FormFresh /\ AnswerFresh

LEMMA Remainder ==
  ASSUME NEW M \in Nat \ {0}, NEW x \in Int
  PROVE  (x % M) % M = x % M
<1>1. x % M \in Int /\ 0 <= x % M /\ x % M < M
  OBVIOUS
<1>2. \A r \in Int : 0 <= r /\ r < M => r % M = r
  OBVIOUS
<1> QED  BY <1>1, <1>2

(* A field that is sent back as it was answered is answered the same.      *)
LEMMA SentBack ==
  ASSUME TypeOK, NEW body \in Forms, handle_settings_set(body),
         NEW f \in Fields, body[f] = handle_settings_get[f]
  PROVE  handle_settings_get'[f] = handle_settings_get[f]
<1>1. handle_settings_get[f] \in Int /\ s_settings[f] \in Int /\ body[f] # Null
  BY ServerTypes, WebAssumption DEF TypeOK
<1>2. s_settings'[f] = handle_settings_get[f]
  BY <1>1 DEF handle_settings_set, Forms
<1>3. CASE f \in Bytes
  <2>1. s_settings'[f] = s_settings[f] % ByteSize
    BY <1>2, <1>3 DEF handle_settings_get
  <2>2. handle_settings_get'[f] = (s_settings[f] % ByteSize) % ByteSize
    BY <1>3, <2>1 DEF handle_settings_get
  <2> QED  BY <1>1, <1>3, <2>2, Remainder, WebAssumption DEF handle_settings_get
<1>4. CASE f \notin Bytes
  BY <1>2, <1>4 DEF handle_settings_get
<1> QED  BY <1>3, <1>4

LEMMA FreshInit == Init => FreshInv
<1>1. Fetch("login").what = "login" /\ Nothing.what = "none"
  BY FetchFields, NothingFields
<1> QED  BY <1>1 DEF Init, FreshInv, SaveOfForm, SaveFresh, FormFresh, AnswerFresh,
                     Setting, Got

(* Requests that matter to nobody come and go.                             *)
LEMMA FreshQuiet ==
  ASSUME TypeOK, FreshInv, UNCHANGED <<s_settings, settings, edited, stale>>,
         \A u \in Tabs, x \in Slots :
           \/ net'[u][x] = net[u][x]
           \/ ~Setting(net'[u][x]) /\ ~Got(net'[u][x])
  PROVE  FreshInv'
<1>1. handle_settings_get' = handle_settings_get
  BY DEF handle_settings_get
<1>2. SaveOfForm'
  BY DEF FreshInv, SaveOfForm
<1>3. SaveFresh'
  BY <1>1 DEF FreshInv, SaveFresh
<1>4. FormFresh'
  BY <1>1 DEF FreshInv, FormFresh
<1>5. AnswerFresh'
  BY <1>1 DEF FreshInv, AnswerFresh, Succeeds
<1> QED  BY <1>2, <1>3, <1>4, <1>5 DEF FreshInv

LEMMA Harmless ==
  /\ ~Setting(Nothing) /\ ~Got(Nothing)
  /\ \A what : ~Got(Fetch(what)) /\ (what \notin {"set", "left"} => ~Setting(Fetch(what)))
  /\ \A basic : LET r == [Fetch("login") EXCEPT !.basic = basic]
                 IN  ~Setting(r) /\ ~Got(r)
  BY DEF Setting, Got, Fetch, Nothing

LEMMA FreshLeave ==
  ASSUME TypeOK, FreshInv, NEW t \in Tabs, NEW s \in Slots,
         Reload(t, s) \/ LeaveSettings(t) \/ LogoutAnswered(t, s)
  PROVE  FreshInv'
<1>1. handle_settings_get' = handle_settings_get
  BY DEF handle_settings_get, Reload, LeaveSettings, LogoutAnswered
<1>2. /\ settings'[t] = Blank
      /\ \A u \in Tabs \ {t} : /\ settings'[u] = settings[u] /\ edited'[u] = edited[u]
                              /\ stale'[u] = stale[u] /\ net'[u] = net[u]
  BY DEF Reload, LeaveSettings, LogoutAnswered, NoForm, TypeOK
<1>3. \A x \in Slots :
        \/ ~Setting(net'[t][x]) /\ ~Got(net'[t][x])
        \/ /\ Setting(net[t][x]) /\ net'[t][x].what = "left"
           /\ net'[t][x].body = net[t][x].body /\ net'[t][x].edited = net[t][x].edited
           /\ net'[t][x].stale = net[t][x].stale
  <2> TAKE x \in Slots
  <2>1. net[t][x] \in Requests
    BY RequestType
  <2>2. net'[t][x] \in {Fetch("login"), Nothing, Orphaned(net[t][x])}
    BY DEF Reload, LeaveSettings, LogoutAnswered, TypeOK
  <2>3. CASE net'[t][x] = Orphaned(net[t][x])
    <3>1. CASE Orphaned(net[t][x]).what = "left"
      BY <2>1, <2>3, <3>1, OrphanedFields DEF Setting, Got
    <3>2. CASE Orphaned(net[t][x]).what # "left"
      BY <2>1, <2>3, <3>2, OrphanedFields DEF Setting, Got
    <3> QED  BY <3>1, <3>2
  <2>4. CASE net'[t][x] \in {Fetch("login"), Nothing}
    BY <2>4, Harmless
  <2> QED  BY <2>2, <2>3, <2>4
<1>4. SaveOfForm'
  <2> SUFFICES ASSUME NEW u \in Tabs, NEW x \in Slots,
                      Setting(net'[u][x]), net'[u][x].what = "set"
               PROVE  net'[u][x].edited \subseteq edited'[u] /\ (net'[u][x].stale => stale'[u])
    BY DEF SaveOfForm, Setting
  <2>1. u # t
    BY <1>3
  <2> QED  BY <1>2, <2>1 DEF FreshInv, SaveOfForm
<1>5. SaveFresh'
  <2> SUFFICES ASSUME NEW u \in Tabs, NEW x \in Slots,
                      Setting(net'[u][x]), ~net'[u][x].stale,
                      NEW f \in Fields, f \notin net'[u][x].edited
               PROVE  net'[u][x].body[f] = handle_settings_get[f]
    BY <1>1 DEF SaveFresh, Setting
  <2>1. CASE u = t
    BY <1>3, <2>1 DEF FreshInv, SaveFresh
  <2>2. CASE u # t
    BY <1>2, <2>2 DEF FreshInv, SaveFresh
  <2> QED  BY <2>1, <2>2
<1>6. FormFresh'
  BY <1>1, <1>2 DEF FreshInv, FormFresh
<1>7. AnswerFresh'
  <2> SUFFICES ASSUME NEW u \in Tabs, NEW x \in Slots, Got(net'[u][x]),
                      Succeeds(net'[u][x]), ~net'[u][x].stale
               PROVE  net'[u][x].body = handle_settings_get
    BY <1>1 DEF AnswerFresh, Got, Succeeds
  <2>1. u # t
    BY <1>3 DEF Got
  <2> QED  BY <1>2, <2>1 DEF FreshInv, AnswerFresh
<1> QED  BY <1>4, <1>5, <1>6, <1>7 DEF FreshInv

(* Changes from elsewhere make everything stale.                           *)
LEMMA FreshOutdate ==
  ASSUME TypeOK, LiveInv, FreshInv, Outdate
  PROVE  FreshInv'
<1>1. \A u \in Tabs, x \in Slots :
        /\ net[u][x] \in Requests /\ net'[u][x] = Outdated(net[u][x])
        /\ settings'[u] = settings[u] /\ (settings[u] # Blank => stale'[u])
        /\ edited'[u] = edited[u]
  BY RequestType DEF Outdate
<1>2. \A u \in Tabs, x \in Slots :
        Setting(net'[u][x]) \/ Got(net'[u][x]) => net'[u][x].stale
  BY <1>1, OutdatedFields DEF Setting, Got
<1>3. SaveOfForm'
  <2> SUFFICES ASSUME NEW u \in Tabs, NEW x \in Slots,
                      Setting(net'[u][x]), net'[u][x].what = "set"
               PROVE  net'[u][x].edited \subseteq edited'[u] /\ (net'[u][x].stale => stale'[u])
    BY DEF SaveOfForm, Setting
  <2>1. Setting(net[u][x]) /\ net[u][x].what = "set" /\ net'[u][x].edited = net[u][x].edited
    BY <1>1, OutdatedFields DEF Setting
  <2>2. settings[u] # Blank
    BY <2>1 DEF LiveInv
  <2> QED  BY <1>1, <2>1, <2>2 DEF FreshInv, SaveOfForm
<1>4. SaveFresh'
  BY <1>2 DEF SaveFresh, Setting
<1>5. AnswerFresh'
  BY <1>2 DEF AnswerFresh, Got
<1>6. FormFresh'
  BY DEF FormFresh, Outdate
<1> QED  BY <1>3, <1>4, <1>5, <1>6 DEF FreshInv

(* The server carries out a save.                                          *)
LEMMA SetKeeps ==
  ASSUME TypeOK, HasBody, FreshInv, NEW t \in Tabs, NEW s \in Slots, ServeSet(t, s),
         ~net[t][s].stale, NEW f \in Fields, f \notin net[t][s].edited
  PROVE  handle_settings_get'[f] = handle_settings_get[f]
<1>1. Setting(net[t][s]) /\ handle_settings_set(net[t][s].body)
  BY DEF ServeSet, Setting
<1>2. net[t][s].body \in Forms
  BY <1>1 DEF HasBody, Setting
<1>3. net[t][s].body[f] = handle_settings_get[f]
  BY <1>1 DEF FreshInv, SaveFresh
<1> QED  BY <1>1, <1>2, <1>3, SentBack

LEMMA FreshSet ==
  ASSUME TypeOK, HasBody, LiveInv, FreshInv, NEW t \in Tabs, NEW s \in Slots,
         ServeSet(t, s)
  PROVE  FreshInv'
<1>1. \A u \in Tabs, x \in Slots : net[u][x] \in Requests
  BY RequestType
<1>2. ~Setting(net'[t][s]) /\ ~Got(net'[t][s])
  <2>1. net'[t][s] = IF net[t][s].what = "left" THEN Nothing
                     ELSE [net[t][s] EXCEPT !.answered = TRUE]
    BY DEF ServeSet
  <2>2. CASE net[t][s].what = "left"
    BY <2>1, <2>2, Harmless
  <2>3. CASE net[t][s].what = "set"
    BY <1>1, <2>1, <2>3 DEF Setting, Got, Requests
  <2> QED  BY <2>2, <2>3 DEF ServeSet
<1>3. \A u \in Tabs, x \in Slots : u # t \/ x # s => net'[u][x] = Outdated(net[u][x])
  BY DEF ServeSet
<1>4. \A u \in Tabs, x \in Slots :
        Setting(net'[u][x]) \/ Got(net'[u][x]) => net'[u][x].stale
  BY <1>1, <1>2, <1>3, OutdatedFields DEF Setting, Got
<1>5. UNCHANGED <<settings, edited>>
  BY DEF ServeSet
<1>6. \A u \in Tabs : stale'[u] = IF u = t /\ net[t][s].what = "set"
                                 THEN stale[t] \/ net[t][s].stale ELSE settings[u] # Blank
  BY DEF ServeSet
<1>7. SaveOfForm'
  <2> SUFFICES ASSUME NEW u \in Tabs, NEW x \in Slots,
                      Setting(net'[u][x]), net'[u][x].what = "set"
               PROVE  net'[u][x].edited \subseteq edited'[u] /\ (net'[u][x].stale => stale'[u])
    BY DEF SaveOfForm, Setting
  <2>1. u # t \/ x # s
    BY <1>2
  <2>2. Setting(net[u][x]) /\ net[u][x].what = "set" /\ net'[u][x].edited = net[u][x].edited
    BY <1>1, <1>3, <2>1, OutdatedFields DEF Setting
  <2>3. settings[u] # Blank /\ net[u][x].edited \subseteq edited[u]
    BY <2>2 DEF LiveInv, FreshInv, SaveOfForm
  <2>4. ~(u = t /\ net[t][s].what = "set")
    BY <2>1, <2>2 DEF LiveInv, Live
  <2> QED  BY <1>5, <1>6, <2>2, <2>3, <2>4
<1>8. SaveFresh' /\ AnswerFresh'
  BY <1>4 DEF SaveFresh, AnswerFresh, Setting, Got
<1>9. FormFresh'
  <2> SUFFICES ASSUME NEW u \in Tabs, settings'[u] # Blank, ~stale'[u],
                      NEW f \in Fields, f \notin edited'[u]
               PROVE  settings'[u][f] = handle_settings_get'[f]
    BY DEF FormFresh
  <2>1. u = t /\ net[t][s].what = "set" /\ ~stale[t] /\ ~net[t][s].stale
    BY <1>5, <1>6
  <2>2. net[t][s].edited \subseteq edited[t]
    BY <2>1 DEF ServeSet, Setting, FreshInv, SaveOfForm
  <2>3. handle_settings_get'[f] = handle_settings_get[f]
    BY <1>5, <2>1, <2>2, SetKeeps
  <2>4. settings[t][f] = handle_settings_get[f]
    BY <1>5, <2>1 DEF FreshInv, FormFresh
  <2> QED  BY <1>5, <2>1, <2>3, <2>4
<1> QED  BY <1>7, <1>8, <1>9 DEF FreshInv

(* A request of t changes, the pages do not.                               *)
LEMMA FreshPut ==
  ASSUME TypeOK, FreshInv, UNCHANGED <<s_settings, settings, edited, stale>>,
         NEW t \in Tabs, NEW s \in Slots, NEW r, Put(t, s, r), ~Setting(r), ~Got(r)
  PROVE  FreshInv'
<1>1. \A u \in Tabs, x \in Slots :
        net'[u][x] = net[u][x] \/ (~Setting(net'[u][x]) /\ ~Got(net'[u][x]))
  <2> TAKE u \in Tabs, x \in Slots
  <2>1. net'[u][x] = r \/ net'[u][x] = net[u][x]
    BY PutLookup
  <2> QED  BY <2>1
<1> QED  BY <1>1, FreshQuiet

(* Steps that neither save nor read settings.                              *)
LEMMA FreshOther ==
  ASSUME TypeOK, FreshInv, NEW t \in Tabs, NEW s \in Slots,
         \/ \E basic \in Users \cup {Wrong} : Submit(t, s, basic)
         \/ Logout(t, s) \/ OpenSettings(t, s) \/ ServeRefused(t, s)
         \/ LoginAnswered(t, s) \/ LoginRefused(t, s) \/ SetAnswered(t, s)
         \/ Rejected(t, s)
  PROVE  FreshInv'
<1>1. UNCHANGED <<s_settings, settings, edited, stale>>
  BY DEF Submit, Logout, OpenSettings, ServeRefused, LoginAnswered, LoginRefused,
         SetAnswered, Rejected, pageVars
<1>2. \E r : Put(t, s, r) /\ ~Setting(r) /\ ~Got(r)
  <2>1. CASE \E basic \in Users \cup {Wrong} : Submit(t, s, basic)
    BY <2>1, Harmless DEF Submit
  <2>2. CASE Logout(t, s)
    BY <2>2, Harmless DEF Logout
  <2>3. CASE OpenSettings(t, s)
    BY <2>3, Harmless DEF OpenSettings
  <2>4. CASE ServeRefused(t, s)
    <3> DEFINE r == IF net[t][s].what = "left" THEN Nothing
                    ELSE [net[t][s] EXCEPT !.answered = TRUE]
    <3>1. Put(t, s, r)
      BY <2>4 DEF ServeRefused
    <3>2. ~Setting(r) /\ ~Got(r)
      <4>1. net[t][s] \in Requests /\ net[t][s].what \in {"set", "left"}
        BY <2>4, RequestType DEF ServeRefused
      <4>2. [net[t][s] EXCEPT !.answered = TRUE].what = net[t][s].what
            /\ [net[t][s] EXCEPT !.answered = TRUE].answered
        BY <4>1 DEF Requests
      <4> QED  BY <4>1, <4>2, Harmless DEF Setting, Got
    <3> QED  BY <3>1, <3>2
  <2>5. CASE LoginAnswered(t, s)
    <3> DEFINE g == [Fetch("get") EXCEPT !.cookie = user'[t]]
               r == IF ~LoggedIn(t) /\ path[t] = "settings" THEN g ELSE Nothing
    <3>1. ~Setting(g) /\ ~Got(g)
      BY DEF Setting, Got, Fetch, Nothing
    <3>2. Put(t, s, r)
      BY <2>5 DEF LoginAnswered
    <3> QED  BY <3>1, <3>2, Harmless
  <2>6. CASE LoginRefused(t, s)
    BY <2>6, Harmless DEF LoginRefused
  <2>7. CASE SetAnswered(t, s)
    BY <2>7, Harmless DEF SetAnswered
  <2>8. CASE Rejected(t, s)
    BY <2>8, Harmless DEF Rejected
  <2> QED  BY <2>1, <2>2, <2>3, <2>4, <2>5, <2>6, <2>7, <2>8
<1> QED  BY <1>1, <1>2, FreshPut

(* A save takes over what is known of the form.                            *)
LEMMA FreshSave ==
  ASSUME TypeOK, FreshInv, NEW t \in Tabs, NEW s \in Slots, Save(t, s)
  PROVE  FreshInv'
<1> DEFINE r == [Fetch("set") EXCEPT !.body = settings[t], !.edited = edited[t],
                                     !.stale = stale[t]]
<1>1. /\ r.what = "set" /\ r.answered = FALSE /\ r.body = settings[t]
      /\ r.edited = edited[t] /\ r.stale = stale[t] /\ settings[t] # Blank
  BY DEF Fetch, Nothing, Save, Saves
<1>2. Put(t, s, r)
  BY DEF Save
<1>3. UNCHANGED <<s_settings, settings, edited, stale>>
  BY DEF Save
<1>4. handle_settings_get' = handle_settings_get
  BY <1>3 DEF handle_settings_get
<1>5. \A u \in Tabs, x \in Slots : net'[u][x] = net[u][x] \/ (u = t /\ net'[u][x] = r)
  BY <1>2, PutLookup
<1> HIDE DEF r
<1>6. SaveOfForm'
  BY <1>1, <1>3, <1>5 DEF FreshInv, SaveOfForm
<1>7. SaveFresh'
  <2> SUFFICES ASSUME NEW u \in Tabs, NEW x \in Slots,
                      Setting(net'[u][x]), ~net'[u][x].stale,
                      NEW f \in Fields, f \notin net'[u][x].edited
               PROVE  net'[u][x].body[f] = handle_settings_get[f]
    BY <1>4 DEF SaveFresh, Setting
  <2>1. CASE net'[u][x] = net[u][x]
    BY <2>1 DEF FreshInv, SaveFresh
  <2>2. CASE u = t /\ net'[u][x] = r
    <3>1. settings[t][f] = handle_settings_get[f]
      BY <1>1, <2>2 DEF FreshInv, FormFresh
    <3> QED  BY <1>1, <2>2, <3>1
  <2> QED  BY <1>5, <2>1, <2>2
<1>8. FormFresh'
  BY <1>3, <1>4 DEF FreshInv, FormFresh
<1>9. AnswerFresh'
  BY <1>1, <1>4, <1>5 DEF FreshInv, AnswerFresh, Got, Succeeds
<1> QED  BY <1>6, <1>7, <1>8, <1>9 DEF FreshInv

LEMMA FreshEdit ==
  ASSUME TypeOK, FreshInv, NEW t \in Tabs, NEW f \in Fields,
         NEW v \in Typed \cup {Null}, Edit(t, f, v)
  PROVE  FreshInv'
<1>1. UNCHANGED <<s_settings, stale, net>> /\ settings[t] # Blank
  BY DEF Edit
<1>2. handle_settings_get' = handle_settings_get
  BY <1>1 DEF handle_settings_get
<1>3. edited'[t] = edited[t] \cup {f} /\ \A u \in Tabs \ {t} : edited'[u] = edited[u]
  BY DEF Edit, TypeOK
<1>4. SaveOfForm'
  BY <1>1, <1>3 DEF FreshInv, SaveOfForm
<1>5. SaveFresh' /\ AnswerFresh'
  BY <1>1, <1>2 DEF FreshInv, SaveFresh, AnswerFresh, Succeeds
<1>6. FormFresh'
  BY <1>1, <1>2, <1>3, EditForm DEF FreshInv, FormFresh
<1> QED  BY <1>4, <1>5, <1>6 DEF FreshInv

LEMMA FreshServe ==
  ASSUME TypeOK, FreshInv, NEW t \in Tabs, NEW s \in Slots, Serve(t, s)
  PROVE  FreshInv'
<1> DEFINE b == IF net[t][s].what = "get" /\ Succeeds(net[t][s])
                THEN handle_settings_get ELSE Blank
           r == [net[t][s] EXCEPT !.answered = TRUE, !.body = b]
<1>1. net[t][s] \in Requests /\ net[t][s].what \in {"login", "logout", "get"}
  BY RequestType DEF Serve
<1>2. /\ r.what = net[t][s].what /\ r.body = b
      /\ r.basic = net[t][s].basic /\ r.cookie = net[t][s].cookie
  BY <1>1 DEF Requests
<1>3. ~Setting(r) /\ (Got(r) /\ Succeeds(r) => r.body = handle_settings_get)
  BY <1>1, <1>2 DEF Setting, Got, Succeeds
<1>4. Put(t, s, r)
  BY DEF Serve
<1>5. UNCHANGED <<s_settings, settings, edited, stale>>
  BY DEF Serve, pageVars
<1>6. handle_settings_get' = handle_settings_get
  BY <1>5 DEF handle_settings_get
<1> HIDE DEF r
<1>7. ASSUME NEW u \in Tabs, NEW x \in Slots
      PROVE  net'[u][x] = net[u][x] \/ (u = t /\ net'[u][x] = r)
  BY <1>4, PutLookup
<1>8. SaveOfForm'
  BY <1>3, <1>5, <1>7 DEF FreshInv, SaveOfForm
<1>9. SaveFresh'
  BY <1>3, <1>6, <1>7 DEF FreshInv, SaveFresh
<1>10. FormFresh'
  BY <1>5, <1>6 DEF FreshInv, FormFresh
<1>11. AnswerFresh'
  <2> SUFFICES ASSUME NEW u \in Tabs, NEW x \in Slots, Got(net'[u][x]),
                      Succeeds(net'[u][x]), ~net'[u][x].stale
               PROVE  net'[u][x].body = handle_settings_get
    BY <1>6 DEF AnswerFresh, Got, Succeeds
  <2>1. CASE net'[u][x] = net[u][x]
    BY <2>1 DEF FreshInv, AnswerFresh
  <2>2. CASE net'[u][x] = r
    BY <1>3, <2>2
  <2> QED  BY <1>7, <2>1, <2>2
<1> QED  BY <1>8, <1>9, <1>10, <1>11 DEF FreshInv

(* The form is read, while no save is under way.                           *)
LEMMA FreshGet ==
  ASSUME TypeOK, LiveInv, FreshInv, NEW t \in Tabs, NEW s \in Slots, GetAnswered(t, s)
  PROVE  FreshInv'
<1>1. Got(net[t][s]) /\ Succeeds(net[t][s]) /\ Live(t, s)
  BY DEF GetAnswered, Answer, Got, Live
<1>2. UNCHANGED s_settings /\ handle_settings_get' = handle_settings_get
  BY DEF GetAnswered, handle_settings_get
<1>3. ASSUME NEW u \in Tabs, NEW x \in Slots
      PROVE  net'[u][x] = IF u = t /\ x = s THEN Nothing ELSE net[u][x]
  BY PutLookup DEF GetAnswered
<1>4. /\ settings'[t] = net[t][s].body /\ stale'[t] = net[t][s].stale
      /\ \A u \in Tabs \ {t} : /\ settings'[u] = settings[u] /\ stale'[u] = stale[u]
                              /\ edited'[u] = edited[u]
  BY DEF GetAnswered, TypeOK
<1>5. SaveOfForm'
  <2> SUFFICES ASSUME NEW u \in Tabs, NEW x \in Slots,
                      Setting(net'[u][x]), net'[u][x].what = "set"
               PROVE  net'[u][x].edited \subseteq edited'[u] /\ (net'[u][x].stale => stale'[u])
    BY DEF SaveOfForm, Setting
  <2>1. net'[u][x] = net[u][x] /\ ~(u = t /\ x = s)
    BY <1>3, Harmless
  <2>2. u # t
    BY <1>1, <2>1 DEF LiveInv, Live
  <2> QED  BY <1>4, <2>1, <2>2 DEF FreshInv, SaveOfForm
<1>6. SaveFresh'
  <2> SUFFICES ASSUME NEW u \in Tabs, NEW x \in Slots,
                      Setting(net'[u][x]), ~net'[u][x].stale,
                      NEW f \in Fields, f \notin net'[u][x].edited
               PROVE  net'[u][x].body[f] = handle_settings_get[f]
    BY <1>2 DEF SaveFresh, Setting
  <2>1. net'[u][x] = net[u][x]
    BY <1>3, Harmless
  <2> QED  BY <2>1 DEF FreshInv, SaveFresh
<1>7. FormFresh'
  <2> SUFFICES ASSUME NEW u \in Tabs, settings'[u] # Blank, ~stale'[u],
                      NEW f \in Fields, f \notin edited'[u]
               PROVE  settings'[u][f] = handle_settings_get[f]
    BY <1>2 DEF FormFresh
  <2>1. CASE u = t
    BY <1>1, <1>4, <2>1 DEF FreshInv, AnswerFresh
  <2>2. CASE u # t
    BY <1>4, <2>2 DEF FreshInv, FormFresh
  <2> QED  BY <2>1, <2>2
<1>8. AnswerFresh'
  <2> SUFFICES ASSUME NEW u \in Tabs, NEW x \in Slots, Got(net'[u][x]),
                      Succeeds(net'[u][x]), ~net'[u][x].stale
               PROVE  net'[u][x].body = handle_settings_get
    BY <1>2 DEF AnswerFresh, Got, Succeeds
  <2>1. net'[u][x] = net[u][x]
    BY <1>3, Harmless
  <2> QED  BY <2>1 DEF FreshInv, AnswerFresh
<1> QED  BY <1>5, <1>6, <1>7, <1>8 DEF FreshInv

WebInv == TypeOK /\ HasBody /\ LiveInv /\ FreshInv

LEMMA FreshStep == WebInv /\ [Next]_vars => FreshInv'
<1> SUFFICES ASSUME WebInv, [Next]_vars
             PROVE  FreshInv'
  OBVIOUS
<1>1. TypeOK /\ HasBody /\ LiveInv /\ FreshInv
  BY DEF WebInv
<1>2. ASSUME NEW t \in Tabs, NEW s \in Slots, Settles(t, s)
      PROVE  FreshInv'
  BY <1>1, <1>2, FreshServe, FreshSet, FreshGet, FreshOther, FreshLeave
     DEF Settles, NotJson, Lost
<1>3. CASE UNCHANGED vars
  <2>1. \A u \in Tabs, x \in Slots : net'[u][x] = net[u][x]
    BY <1>3 DEF vars
  <2> QED  BY <1>1, <1>3, <2>1, FreshQuiet DEF vars, pageVars
<1>4. ASSUME NEW t \in Tabs, LeaveSettings(t)
      PROVE  FreshInv'
  <2>1. 1 \in Slots
    BY DashboardAssumption DEF Slots
  <2> QED  BY <1>1, <1>4, <2>1, FreshLeave
<1>5. ASSUME NEW t \in Tabs, NEW s \in Slots,
             NEW basic \in Users \cup {Wrong}, Submit(t, s, basic)
      PROVE  FreshInv'
  BY <1>1, <1>5, FreshOther
<1>6. CASE CookieExpires
  <2>1. \A u \in Tabs, x \in Slots : net'[u][x] = net[u][x]
    BY <1>6 DEF CookieExpires
  <2> QED  BY <1>1, <1>6, <2>1, FreshQuiet DEF CookieExpires, pageVars
<1> QED  BY <1>1, <1>2, <1>3, <1>4, <1>5, <1>6, FreshOther, FreshSave, FreshEdit,
            FreshLeave, FreshOutdate DEF Next, OtherSets, Restart

LEMMA WebInvariant == Spec => []WebInv
<1>1. Init => WebInv
  BY TypeInit, LiveInit, FreshInit DEF WebInv
<1>2. WebInv /\ [Next]_vars => WebInv'
  BY TypeStep, LiveStep, FreshStep DEF WebInv
<1> QED  BY <1>1, <1>2, PTL DEF Spec

(* A save changes what its user edited, unless the settings were changed   *)
(* by somebody else since the form was read.                               *)
THEOREM OnlyEditsAreSaved == Spec => SavesOnlyEdits
<1>1. WebInv => \A t \in Tabs, s \in Slots :
        ServeSet(t, s) /\ ~net[t][s].stale =>
          \A f \in Fields : handle_settings_get'[f] # handle_settings_get[f]
                              => f \in net[t][s].edited
  BY SetKeeps DEF WebInv
<1> QED  BY <1>1, WebInvariant, PTL DEF SavesOnlyEdits

(* A session ends on the page with a logout or a reload.                   *)
THEOREM SessionsEndWithLogout == Spec => OnlyLogoutLogsOut
<1>1. TypeOK /\ [Next]_vars => \A t \in Tabs : LoggedIn(t) /\ ~LoggedIn(t)' =>
        loading'[t] \/ \E s \in Slots : Answer(t, s, "logout")
  <2> SUFFICES ASSUME TypeOK, [Next]_vars, NEW t \in Tabs, LoggedIn(t), ~LoggedIn(t)',
                      ~loading'[t], \A s \in Slots : ~Answer(t, s, "logout")
               PROVE  FALSE
    OBVIOUS
  <2>1. user'[t] = NULL /\ user[t] # NULL
    BY DEF LoggedIn
  <2>2. ASSUME NEW u \in Tabs, NEW s \in Slots, Settles(u, s)
        PROVE  FALSE
    <3>1. CASE LoginAnswered(u, s)
      <4>1. user'[u] # NULL /\ \A v \in Tabs \ {u} : user'[v] = user[v]
        BY <3>1 DEF LoginAnswered, Succeeds, TypeOK
      <4> QED  BY <2>1, <4>1
    <3>2. CASE LogoutAnswered(u, s)
      <4>1. u # t /\ \A v \in Tabs \ {u} : user'[v] = user[v]
        BY <3>2 DEF LogoutAnswered, TypeOK
      <4> QED  BY <2>1, <4>1
    <3>3. CASE ~LoginAnswered(u, s) /\ ~LogoutAnswered(u, s)
      <4>1. UNCHANGED user
        BY <2>2, <3>3 DEF Settles, Serve, ServeRefused, ServeSet, LoginRefused,
           GetAnswered, SetAnswered, NotJson, Lost, Rejected, pageVars
      <4> QED  BY <2>1, <4>1
    <3> QED  BY <3>1, <3>2, <3>3
  <2>3. ASSUME NEW u \in Tabs, NEW s \in Slots, Reload(u, s)
        PROVE  FALSE
    BY <2>1, <2>3 DEF Reload, TypeOK
  <2>4. CASE UNCHANGED user
    BY <2>1, <2>4
  <2>5. ASSUME NEW u \in Tabs, NEW s \in Slots,
               \/ Logout(u, s) \/ OpenSettings(u, s) \/ Save(u, s)
               \/ \E basic \in Users \cup {Wrong} : Submit(u, s, basic)
        PROVE  UNCHANGED user
    BY <2>5 DEF Logout, OpenSettings, Save, Submit, pageVars
  <2>6. ASSUME NEW u \in Tabs,
               \/ LeaveSettings(u)
               \/ \E f \in Fields, v \in Typed \cup {Null} : Edit(u, f, v)
        PROVE  UNCHANGED user
    BY <2>6 DEF LeaveSettings, Edit
  <2>7. CASE UNCHANGED vars
    BY <2>4, <2>7 DEF vars, pageVars
  <2>8. CASE Restart \/ \E D \in SUBSET Fields : \E body \in [D -> Typed] : OtherSets(body)
    BY <2>4, <2>8 DEF Restart, OtherSets, Outdate
  <2>9. CASE CookieExpires
    BY <2>4, <2>9 DEF CookieExpires, pageVars
  <2> QED  BY <2>2, <2>3, <2>4, <2>5, <2>6, <2>7, <2>8, <2>9 DEF Next
<1>2. WebInv => TypeOK
  BY DEF WebInv
<1> QED  BY <1>1, <1>2, WebInvariant, PTL DEF Spec, OnlyLogoutLogsOut

-----------------------------------------------------------------------------
(* A disabled button waits for a request: the safety part of NoDeadButton. *)

(* How far the chain of a save or of a page that loads has still to go.    *)
Stage(r) ==
  IF r.what = "set" THEN (IF r.answered THEN 3 ELSE 4)
  ELSE IF r.what = "get" THEN (IF r.answered THEN 1 ELSE 2)
  ELSE 0

BusyInv == \A t \in Tabs : spin[t] => \E s \in Slots : Live(t, s)

(* The request is still there and nothing of the chain has moved.          *)
Kept(t, s) ==
  net'[t][s].what = net[t][s].what /\ net'[t][s].answered = net[t][s].answered

(* The request has come to an end, or its chain is further than before.    *)
Moved(t, s) == ~spin'[t] \/ (Live(t, s)' /\ Stage(net'[t][s]) < Stage(net[t][s]))

LEMMA SettlesMoves ==
  ASSUME TypeOK, NEW t \in Tabs, NEW s \in Slots, Live(t, s), Settles(t, s)
  PROVE  Moved(t, s)
<1>1. PICK r \in Requests : r = net[t][s]
  BY RequestType, Zenon
<1>2. r.what \in {"get", "set"}
  BY <1>1 DEF Live
<1>3. CASE Serve(t, s) \/ ServeRefused(t, s) \/ ServeSet(t, s)
  <2>1. ~r.answered
    BY <1>1, <1>3 DEF Serve, ServeRefused, ServeSet
  <2>2. net'[t][s].what = r.what /\ net'[t][s].answered = TRUE
    <3>1. CASE Serve(t, s)
      <4> DEFINE q == [r EXCEPT !.answered = TRUE,
                   !.body = IF r.what = "get" /\ Succeeds(r)
                            THEN handle_settings_get ELSE Blank]
      <4>1. q.what = r.what /\ q.answered = TRUE
        BY DEF Requests
      <4>2. Put(t, s, q)
        BY <1>1, <3>1 DEF Serve
      <4> HIDE DEF q
      <4>3. net'[t][s] = q
        BY <4>2, PutLookup
      <4> QED  BY <4>1, <4>3
    <3>2. CASE ServeRefused(t, s)
      <4> DEFINE q == [r EXCEPT !.answered = TRUE]
      <4>1. q.what = r.what /\ q.answered = TRUE
        BY DEF Requests
      <4>2. Put(t, s, q)
        BY <1>1, <1>2, <3>2 DEF ServeRefused
      <4> HIDE DEF q
      <4>3. net'[t][s] = q
        BY <4>2, PutLookup
      <4> QED  BY <4>1, <4>3
    <3>3. CASE ServeSet(t, s)
      <4> DEFINE q == [r EXCEPT !.answered = TRUE]
      <4>1. q.what = r.what /\ q.answered = TRUE
        BY DEF Requests
      <4>2. net'[t][s] = q
        BY <1>1, <1>2, <3>3 DEF ServeSet
      <4> QED  BY <4>1, <4>2
    <3> QED  BY <1>3, <3>1, <3>2, <3>3
  <2> QED  BY <1>1, <1>2, <2>1, <2>2 DEF Moved, Live, Stage
<1>4. CASE SetAnswered(t, s)
  <2>1. net'[t][s] = Fetch("get") /\ r.what = "set"
    BY <1>1, <1>4, PutLookup DEF SetAnswered, Answer
  <2>2. net'[t][s].what = "get" /\ net'[t][s].answered = FALSE
    BY <2>1, FetchFields
  <2> QED  BY <1>1, <2>1, <2>2 DEF Moved, Live, Stage
<1>5. CASE GetAnswered(t, s) \/ Rejected(t, s)
  <2>1. spin' = [spin EXCEPT ![t] = FALSE]
    BY <1>1, <1>2, <1>5 DEF GetAnswered, Rejected
  <2> QED  BY <2>1 DEF Moved, TypeOK
<1>6. ~LoginAnswered(t, s) /\ ~LoginRefused(t, s) /\ ~LogoutAnswered(t, s)
  BY <1>1, <1>2 DEF LoginAnswered, LoginRefused, LogoutAnswered, Answer
<1> QED  BY <1>3, <1>4, <1>5, <1>6 DEF Settles, NotJson, Lost

LEMMA OutdatedKeeps ==
  ASSUME TypeOK, NEW t \in Tabs, NEW s \in Slots, net'[t][s] = Outdated(net[t][s])
  PROVE  Kept(t, s)
<1>1. PICK r \in Requests : r = net[t][s]
  BY RequestType, Zenon
<1> QED  BY <1>1, OutdatedFields DEF Kept

(* A request in another place leaves this one alone.                       *)
LEMMA ElsewhereKeeps ==
  ASSUME TypeOK, NEW t \in Tabs, NEW s \in Slots, NEW u \in Tabs, NEW x \in Slots,
         ~(u = t /\ x = s), Settles(u, x)
  PROVE  ~spin'[t] \/ Kept(t, s)
<1>1. ASSUME NEW r, Put(u, x, r)
      PROVE  Kept(t, s)
  BY <1>1, PutLookup DEF Kept
<1>2. CASE ServeSet(u, x)
  <2>1. net'[t][s] = Outdated(net[t][s])
    BY <1>2 DEF ServeSet
  <2> QED  BY <2>1, OutdatedKeeps
<1>3. CASE LogoutAnswered(u, x)
  <2>1. CASE u = t
    BY <1>3, <2>1 DEF LogoutAnswered, NoForm, TypeOK
  <2>2. CASE u # t
    <3>1. net'[t] = net[t]
      BY <1>3, <2>2 DEF LogoutAnswered, TypeOK
    <3> QED  BY <3>1 DEF Kept
  <2> QED  BY <2>1, <2>2
<1> QED  BY <1>1, <1>2, <1>3 DEF Settles, Serve, ServeRefused, LoginAnswered,
         LoginRefused, GetAnswered, SetAnswered, NotJson, Lost, Rejected

(* What the user, other clients and the unit do to a live request.         *)
LEMMA UserKeeps ==
  ASSUME TypeOK, NEW t \in Tabs, NEW s \in Slots, spin[t], Live(t, s), [Next]_vars,
         \A u \in Tabs, x \in Slots : ~Settles(u, x)
  PROVE  ~spin'[t] \/ Kept(t, s)
<1>1. net[t][s] # Nothing
  BY NothingFields DEF Live
<1>2. ASSUME NEW u \in Tabs, NEW x \in Slots, Reload(u, x)
      PROVE  ~spin'[t] \/ Kept(t, s)
  <2>1. CASE u = t
    BY <1>2, <2>1 DEF Reload, NoForm, TypeOK
  <2>2. CASE u # t
    <3>1. net'[t] = net[t]
      BY <1>2, <2>2 DEF Reload, TypeOK
    <3> QED  BY <3>1 DEF Kept
  <2> QED  BY <2>1, <2>2
<1>3. ASSUME NEW u \in Tabs, LeaveSettings(u)
      PROVE  ~spin'[t] \/ Kept(t, s)
  <2>1. CASE u = t
    BY <1>3, <2>1 DEF LeaveSettings, NoForm, TypeOK
  <2>2. CASE u # t
    <3>1. net'[t] = net[t]
      BY <1>3, <2>2 DEF LeaveSettings, TypeOK
    <3> QED  BY <3>1 DEF Kept
  <2> QED  BY <2>1, <2>2
<1>4. ASSUME NEW u \in Tabs, NEW x \in Slots,
             \/ \E basic \in Users \cup {Wrong} : Submit(u, x, basic)
             \/ Logout(u, x) \/ OpenSettings(u, x) \/ Save(u, x)
      PROVE  Kept(t, s)
  <2>1. Free(u, x) /\ \E r : Put(u, x, r)
    BY <1>4 DEF Submit, Logout, OpenSettings, Save
  <2>2. ~(u = t /\ x = s)
    BY <1>1, <2>1 DEF Free
  <2> QED  BY <2>1, <2>2, PutLookup DEF Kept
<1>5. ASSUME NEW u \in Tabs, NEW f \in Fields, NEW v \in Typed \cup {Null}, Edit(u, f, v)
      PROVE  Kept(t, s)
  BY <1>5 DEF Edit, Kept
<1>6. CASE Outdate
  BY <1>6, OutdatedKeeps DEF Outdate
<1>7. CASE CookieExpires \/ UNCHANGED vars
  BY <1>7 DEF CookieExpires, vars, Kept
<1> QED  BY <1>2, <1>3, <1>4, <1>5, <1>6, <1>7 DEF Next, OtherSets, Restart

LEMMA ChainStep ==
  ASSUME TypeOK, NEW t \in Tabs, NEW s \in Slots, spin[t], Live(t, s), [Next]_vars
  PROVE  \/ Moved(t, s)
         \/ Kept(t, s) /\ ~Settles(t, s)
<1>1. CASE Settles(t, s)
  BY <1>1, SettlesMoves
<1>2. ASSUME NEW u \in Tabs, NEW x \in Slots, ~(u = t /\ x = s), Settles(u, x),
             ~Settles(t, s)
      PROVE  Moved(t, s) \/ Kept(t, s)
  BY <1>2, ElsewhereKeeps DEF Moved
<1>3. CASE \A u \in Tabs, x \in Slots : ~Settles(u, x)
  BY <1>3, UserKeeps DEF Moved
<1> QED  BY <1>1, <1>2, <1>3

LEMMA BusyStep == TypeOK /\ BusyInv /\ [Next]_vars => BusyInv'
<1> SUFFICES ASSUME TypeOK, BusyInv, [Next]_vars, NEW t \in Tabs, spin'[t]
             PROVE  \E s \in Slots : Live(t, s)'
  BY DEF BusyInv
<1>1. CASE spin[t]
  <2>1. PICK s \in Slots : Live(t, s)
    BY <1>1 DEF BusyInv
  <2>2. Moved(t, s) \/ Kept(t, s)
    BY <1>1, <2>1, ChainStep
  <2>3. Live(t, s)'
    BY <2>1, <2>2 DEF Moved, Kept, Live
  <2> QED  BY <2>3
<1>2. CASE ~spin[t]
  <2>1. ASSUME NEW u \in Tabs, NEW s \in Slots, Save(u, s)
        PROVE  \E x \in Slots : Live(t, x)'
    <3>1. u = t
      BY <1>2, <2>1 DEF Save, TypeOK
    <3> DEFINE r == [Fetch("set") EXCEPT !.body = settings[u], !.edited = edited[u],
                                         !.stale = stale[u]]
    <3>2. r.what = "set"
      BY DEF Fetch, Nothing
    <3>3. Put(u, s, r)
      BY <2>1 DEF Save
    <3> HIDE DEF r
    <3>4. net'[u][s] = r
      BY <3>3, PutLookup
    <3> QED  BY <3>1, <3>2, <3>4 DEF Live
  <2>2. ASSUME NEW u \in Tabs, NEW s \in Slots, Settles(u, s)
        PROVE  spin'[t] = spin[t]
    BY <1>2, <2>2 DEF Settles, Serve, ServeRefused, ServeSet, LoginAnswered, LoginRefused,
       LogoutAnswered, NoForm, GetAnswered, SetAnswered, NotJson, Lost, Rejected,
       pageVars, TypeOK
  <2>3. ASSUME NEW u \in Tabs, NEW s \in Slots,
               \/ Reload(u, s) \/ Logout(u, s) \/ OpenSettings(u, s) \/ LeaveSettings(u)
               \/ \E basic \in Users \cup {Wrong} : Submit(u, s, basic)
        PROVE  spin'[t] = spin[t]
    BY <1>2, <2>3 DEF Reload, Logout, OpenSettings, LeaveSettings, Submit, NoForm,
       pageVars, TypeOK
  <2>4. ASSUME NEW u \in Tabs, NEW f \in Fields, NEW v \in Typed \cup {Null}, Edit(u, f, v)
        PROVE  spin'[t] = spin[t]
    BY <2>4 DEF Edit
  <2>5. CASE Outdate \/ CookieExpires \/ UNCHANGED vars
    BY <1>2, <2>5 DEF Outdate, CookieExpires, vars, pageVars
  <2>6. ASSUME NEW u \in Tabs, LeaveSettings(u)
        PROVE  spin'[t] = spin[t]
    <3>1. 1 \in Slots
      BY DashboardAssumption DEF Slots
    <3> QED  BY <2>3, <2>6, <3>1
  <2> QED  BY <1>2, <2>1, <2>2, <2>3, <2>4, <2>5, <2>6 DEF Next, OtherSets, Restart
<1> QED  BY <1>1, <1>2

LEMMA KeptStage ==
  ASSUME NEW t \in Tabs, NEW s \in Slots, Live(t, s), Kept(t, s)
  PROVE  Live(t, s)' /\ Stage(net'[t][s]) = Stage(net[t][s])
  BY DEF Kept, Live, Stage

LEMMA LiveStage ==
  ASSUME NEW t \in Tabs, NEW s \in Slots, Live(t, s)
  PROVE  Stage(net[t][s]) \in 1 .. 4
  BY DEF Live, Stage

(* While the button is disabled, the request it waits for stays in its     *)
(* place, never goes back, and whatever befalls it brings it further.      *)
SaveMovesOn ==
  [][\A t \in Tabs, s \in Slots : spin[t] /\ Live(t, s) =>
       \/ ~spin'[t]
       \/ /\ Live(t, s)' /\ Stage(net'[t][s]) <= Stage(net[t][s])
          /\ Settles(t, s) => Stage(net'[t][s]) < Stage(net[t][s])]_vars

(* A disabled Save button always waits for a request of its own page that  *)
(* is under way, and at most four steps of that request, the loss of it or *)
(* of its answer among them, enable the button, whatever other tabs, other *)
(* clients and restarts of the unit do in between.  What NoDeadButton adds *)
(* is that a request does come to an end.                                  *)
THEOREM ButtonWaitsForRequest == Spec => []BusyInv /\ SaveMovesOn
<1>1. TypeOK /\ [Next]_vars => \A t \in Tabs, s \in Slots : spin[t] /\ Live(t, s) =>
        \/ ~spin'[t]
        \/ /\ Live(t, s)' /\ Stage(net'[t][s]) <= Stage(net[t][s])
           /\ Settles(t, s) => Stage(net'[t][s]) < Stage(net[t][s])
  <2> SUFFICES ASSUME TypeOK, [Next]_vars, NEW t \in Tabs, NEW s \in Slots,
                      spin[t], Live(t, s), spin'[t]
               PROVE  /\ Live(t, s)' /\ Stage(net'[t][s]) <= Stage(net[t][s])
                      /\ Settles(t, s) => Stage(net'[t][s]) < Stage(net[t][s])
    OBVIOUS
  <2>1. CASE Kept(t, s) /\ ~Settles(t, s)
    <3>1. Stage(net[t][s]) \in 1 .. 4
      BY LiveStage
    <3> QED  BY <2>1, <3>1, KeptStage
  <2>2. CASE Moved(t, s)
    <3>1. Live(t, s)' /\ Stage(net'[t][s]) < Stage(net[t][s])
      BY <2>2 DEF Moved
    <3>2. Stage(net[t][s]) \in 0 .. 4 /\ Stage(net'[t][s]) \in 0 .. 4
      BY DEF Stage
    <3> QED  BY <3>1, <3>2
  <2> QED  BY <2>1, <2>2, ChainStep
<1>2. Init => BusyInv
  BY DEF Init, BusyInv
<1>3. Spec => [](TypeOK /\ BusyInv)
  <2>1. Init => TypeOK /\ HasBody
    BY TypeInit
  <2> QED  BY <1>2, <2>1, TypeStep, BusyStep, PTL DEF Spec
<1>4. Spec => [][\A t \in Tabs, s \in Slots : spin[t] /\ Live(t, s) =>
        \/ ~spin'[t]
        \/ /\ Live(t, s)' /\ Stage(net'[t][s]) <= Stage(net[t][s])
           /\ Settles(t, s) => Stage(net'[t][s]) < Stage(net[t][s])]_vars
  BY <1>1, <1>3, PTL DEF Spec
<1> QED  BY <1>3, <1>4, PTL DEF SaveMovesOn
=============================================================================
