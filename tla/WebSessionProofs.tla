--------------------------- MODULE WebSessionProofs --------------------------
(***************************************************************************)
(* Why no replaced password is good for a request, and why a write is for  *)
(* the user whom the tab showed: for every set of users and every bound.   *)
(*                                                                         *)
(* Both follow from what a request carries while it is under way.  The     *)
(* version that a session was issued with is the one its password had, and *)
(* an account's version never goes back.  The token in the tab and the     *)
(* cookie of the browser name the same session only if the tab shows its   *)
(* owner, because a cookie that was given up never comes back.             *)
(***************************************************************************)
EXTENDS WebSession, TLAPS

SessionRows == [user : Users, version : Nat, live : BOOLEAN, password : Nat]
SessionNumbers == 0 .. Len(sessions)

(* The rows: a session's version is that of its login's password.          *)
RowsMatch ==
  /\ accounts \in [Users -> [active : BOOLEAN, version : Nat]]
  /\ sessions \in Seq(SessionRows)
  /\ \A s \in 1 .. Len(sessions) :
       /\ sessions[s].password = sessions[s].version
       /\ sessions[s].version <= accounts[sessions[s].user].version

(* What a call of kind k that is c carries.                                *)
Numbered(c) == {c.cookie, c.csrf, c.session} \subseteq SessionNumbers

CodeIsLast(c) == c.code # "none" => c.step = "answered"

Behind(k, c) ==
  k # "login" /\ c.step = "session" =>
    /\ c.cookie # 0
    /\ c.user = sessions[c.cookie].user
    /\ c.version = sessions[c.cookie].version
    /\ c.dead => c.version < accounts[c.user].version

Refused(k, c) == k # "login" /\ c.dead => c.code \notin {"ok", "csrf"}

Presents(k, c) ==
  /\ k = "login" /\ c.step \in {"sent", "session"} => c.user \in Users
  /\ k = "login" /\ c.step = "session" =>
       c.version = c.password /\ c.version <= accounts[c.user].version

Believes(k, c) ==
  k = "write" /\ c.step \in {"sent", "session"} /\ c.csrf # 0 /\ c.csrf = c.cookie =>
    c.believed = sessions[c.cookie].user \/ c.stray

Carries(k, c) ==
  /\ c \in Requests
  /\ Numbered(c) /\ CodeIsLast(c)
  /\ Behind(k, c) /\ Refused(k, c) /\ Presents(k, c) /\ Believes(k, c)

CallsCarry ==
  /\ calls \in [Kinds -> Requests]
  /\ \A k \in Kinds : Carries(k, calls[k])

(* The session that a call is of.                                          *)
Bearing(c) == IF c.code = "ok" THEN c.session ELSE c.cookie

(* The tab and the cookie.                                                 *)
TabRows ==
  [page : {"loading", "shell", "login"}, csrf : Nat, signaled : BOOLEAN,
   me : Users \union {Nobody}, stray : BOOLEAN, loggingOut : BOOLEAN]

TabTypes ==
  /\ tab \in TabRows
  /\ tab.csrf \in SessionNumbers /\ cookie \in SessionNumbers

TabShowsOwner ==
  tab.page = "shell" /\ tab.csrf # 0 /\ tab.csrf = cookie =>
    tab.me = sessions[cookie].user \/ tab.stray

CancelledIsPast ==
  LET c == calls["me"]
  IN  tab.page = "shell" /\ ~c.kept /\ ~c.stray /\ Bearing(c) # 0 => Bearing(c) # cookie

IssuedIsNew ==
  LET c == calls["login"]
  IN  c.code = "ok" =>
        c.session # 0 /\ c.session # cookie /\ Bearing(calls["me"]) # c.session

WebInv ==
  /\ RowsMatch /\ CallsCarry
  /\ TabTypes /\ TabShowsOwner /\ CancelledIsPast /\ IssuedIsNew
  /\ WritesAsBelieved

------------------------------------------------------------------------------
(* What a step leaves of the rows.                                         *)
Grows ==
  /\ Len(sessions) <= Len(sessions')
  /\ \A s \in 1 .. Len(sessions) :
       /\ sessions'[s].user = sessions[s].user
       /\ sessions'[s].version = sessions[s].version
  /\ \A u \in Users : accounts[u].version <= accounts'[u].version

LEMMA RowTypes ==
  ASSUME RowsMatch
  PROVE  /\ Len(sessions) \in Nat
         /\ \A s \in 1 .. Len(sessions) :
              sessions[s] \in SessionRows /\ sessions[s].user \in Users
              /\ sessions[s].version \in Nat /\ sessions[s].password \in Nat
         /\ \A u \in Users : accounts[u].version \in Nat
<1>1. Len(sessions) \in Nat /\ \A s \in 1 .. Len(sessions) : sessions[s] \in SessionRows
  BY DEF RowsMatch
<1>2. \A u \in Users : accounts[u].version \in Nat
  BY DEF RowsMatch
<1> QED  BY <1>1, <1>2 DEF SessionRows

(* Nothing of the rows changes.                                            *)
LEMMA SameRows ==
  ASSUME RowsMatch, UNCHANGED <<accounts, sessions>>
  PROVE  RowsMatch' /\ Grows
<1>1. RowsMatch'
  BY DEF RowsMatch
<1>2. Grows
  BY RowTypes DEF Grows
<1> QED  BY <1>1, <1>2

(* A login inserts a session with the version of its password.             *)
LEMMA AppendedRow ==
  ASSUME RowsMatch, NEW row \in SessionRows,
         row.password = row.version, row.version <= accounts[row.user].version,
         sessions' = Append(sessions, row), UNCHANGED accounts
  PROVE  /\ RowsMatch' /\ Grows
         /\ Len(sessions') = Len(sessions) + 1
         /\ sessions'[Len(sessions) + 1] = row
<1>1. sessions \in Seq(SessionRows) /\ Len(sessions) \in Nat
  BY RowTypes DEF RowsMatch
<1>2. /\ sessions' \in Seq(SessionRows)
      /\ Len(sessions') = Len(sessions) + 1
      /\ sessions'[Len(sessions) + 1] = row
      /\ \A s \in 1 .. Len(sessions) : sessions'[s] = sessions[s]
  BY <1>1
<1>3. \A s \in 1 .. Len(sessions') :
        /\ sessions'[s].password = sessions'[s].version
        /\ sessions'[s].version <= accounts'[sessions'[s].user].version
  BY <1>1, <1>2 DEF RowsMatch
<1> QED  BY <1>1, <1>2, <1>3, RowTypes DEF RowsMatch, Grows

(* A session is revoked or expires.                                        *)
LEMMA EndedRow ==
  ASSUME RowsMatch, NEW n \in 1 .. Len(sessions),
         sessions' = [sessions EXCEPT ![n].live = FALSE], UNCHANGED accounts
  PROVE  RowsMatch' /\ Grows /\ Len(sessions') = Len(sessions)
<1>1. sessions \in Seq(SessionRows) /\ Len(sessions) \in Nat
  BY RowTypes DEF RowsMatch
<1> PICK old \in SessionRows : old = sessions[n]
  BY <1>1
<1> DEFINE row == [old EXCEPT !.live = FALSE]
<1>2. /\ row \in SessionRows /\ row.user = sessions[n].user
      /\ row.version = sessions[n].version /\ row.password = sessions[n].password
  BY <1>1 DEF SessionRows
<1>3. sessions' = [sessions EXCEPT ![n] = row]
  OBVIOUS
<1> HIDE DEF row
<1>4. /\ sessions' \in Seq(SessionRows) /\ Len(sessions') = Len(sessions)
      /\ \A s \in 1 .. Len(sessions) : sessions'[s] = IF s = n THEN row ELSE sessions[s]
  <2> DEFINE new == [sessions EXCEPT ![n] = row]
  <2>1. /\ new \in Seq(SessionRows) /\ Len(new) = Len(sessions)
        /\ \A s \in 1 .. Len(sessions) : new[s] = IF s = n THEN row ELSE sessions[s]
    <3>1. row \in SessionRows /\ sessions \in Seq(SessionRows)
      BY <1>1, <1>2
    <3>2. new \in Seq(SessionRows)
      BY <3>1
    <3>3. Len(new) = Len(sessions)
      BY <3>1
    <3>4. \A s \in 1 .. Len(sessions) : new[s] = IF s = n THEN row ELSE sessions[s]
      BY <3>1
    <3> QED  BY <3>2, <3>3, <3>4
  <2> HIDE DEF new
  <2>2. sessions' = new
    BY <1>3 DEF new
  <2> QED  BY <2>1, <2>2
<1>5. \A s \in 1 .. Len(sessions) :
        /\ sessions'[s].user = sessions[s].user
        /\ sessions'[s].version = sessions[s].version
        /\ sessions'[s].password = sessions[s].password
  BY <1>2, <1>4
<1> QED  BY <1>1, <1>4, <1>5, RowTypes DEF RowsMatch, Grows

(* seed-users changes an account.                                          *)
LEMMA ChangedAccount ==
  ASSUME RowsMatch, NEW u \in Users, UNCHANGED sessions,
         \/ accounts' = [accounts EXCEPT ![u].version = @ + 1]
         \/ accounts' = [accounts EXCEPT ![u].active = ~@]
  PROVE  RowsMatch' /\ Grows
<1> DEFINE Rows == [active : BOOLEAN, version : Nat]
<1>1. accounts \in [Users -> Rows]
  BY DEF RowsMatch
<1> PICK old \in Rows : old = accounts[u]
  BY <1>1
<1>2. PICK a \in Rows : /\ accounts' = [accounts EXCEPT ![u] = a]
                       /\ accounts[u].version <= a.version
  <2>1. CASE accounts' = [accounts EXCEPT ![u].version = @ + 1]
    <3> DEFINE a == [old EXCEPT !.version = @ + 1]
    <3>1. a \in Rows /\ accounts[u].version <= a.version
      OBVIOUS
    <3>2. accounts' = [accounts EXCEPT ![u] = a]
      BY <2>1
    <3> QED  BY <3>1, <3>2
  <2>2. CASE accounts' = [accounts EXCEPT ![u].active = ~@]
    <3> DEFINE a == [old EXCEPT !.active = ~@]
    <3>1. a \in Rows
      OBVIOUS
    <3>2. a.version = old.version /\ old.version \in Nat
      OBVIOUS
    <3>3. accounts' = [accounts EXCEPT ![u] = a]
      BY <2>2
    <3>4. accounts[u].version <= a.version
      BY <3>2
    <3> QED  BY <3>1, <3>3, <3>4, Zenon
  <2> QED  BY <2>1, <2>2
<1>3. accounts' \in [Users -> Rows] /\ \A v \in Users : accounts[v].version <= accounts'[v].version
  BY <1>1, <1>2
<1> QED  BY <1>1, <1>3, RowTypes DEF RowsMatch, Grows

(* What a call carries stays true of the rows to come.                     *)
LEMMA StaysCarried ==
  ASSUME RowsMatch, RowsMatch', Grows, NEW k \in Kinds, NEW c \in Requests, Carries(k, c)
  PROVE  Carries(k, c)'
<1>1. /\ Len(sessions) \in Nat /\ Len(sessions') \in Nat /\ Len(sessions) <= Len(sessions')
      /\ {c.cookie, c.csrf, c.session} \subseteq 0 .. Len(sessions)
  BY RowTypes DEF RowsMatch, Carries, Numbered, SessionNumbers, Grows
<1>2. Numbered(c)' /\ CodeIsLast(c)' /\ Refused(k, c)'
  BY <1>1 DEF Numbered, SessionNumbers, CodeIsLast, Refused, Carries
<1>3. \A u \in Users : accounts[u].version \in Nat /\ accounts'[u].version \in Nat
                        /\ accounts[u].version <= accounts'[u].version
  BY DEF RowsMatch, Grows
<1>4. c.version \in Nat
  BY DEF Requests
<1>5. Behind(k, c)'
  <2> SUFFICES ASSUME k # "login", c.step = "session"
               PROVE  Behind(k, c)'
    BY DEF Behind
  <2>1. /\ c.cookie \in 1 .. Len(sessions) /\ c.user = sessions[c.cookie].user
        /\ c.version = sessions[c.cookie].version
        /\ c.dead => c.version < accounts[c.user].version
    BY <1>1 DEF Carries, Behind
  <2>2. c.user \in Users
    BY <2>1, RowTypes
  <2> QED  BY <1>3, <1>4, <2>1, <2>2 DEF Behind, Grows
<1>6. Presents(k, c)'
  BY <1>3, <1>4 DEF Presents, Carries
<1>7. Believes(k, c)'
  BY <1>1 DEF Believes, Carries, Grows
<1> QED  BY <1>2, <1>5, <1>6, <1>7 DEF Carries

(* A step that gives one call another value.                               *)
LEMMA OneCall ==
  ASSUME RowsMatch, RowsMatch', Grows, CallsCarry,
         NEW k \in Kinds, NEW d \in Requests, Carries(k, d)',
         calls' = [calls EXCEPT ![k] = d]
  PROVE  CallsCarry'
<1>1. calls' \in [Kinds -> Requests]
  BY DEF CallsCarry
<1>2. ASSUME NEW j \in Kinds PROVE Carries(j, calls[j])'
  <2>1. CASE j = k
    BY <2>1 DEF CallsCarry, Carries, Numbered, CodeIsLast, Behind, Refused, Presents, Believes, SessionNumbers
  <2>2. CASE j # k
    <3>1. PICK c \in Requests : c = calls[j]
      BY DEF CallsCarry
    <3>2. Carries(j, c)
      BY <3>1 DEF CallsCarry
    <3>3. Carries(j, c)'
      BY <3>2, StaysCarried
    <3>4. calls'[j] = c
      BY <2>2, <3>1 DEF CallsCarry
    <3> QED  BY <3>3, <3>4 DEF Carries, Numbered, CodeIsLast, Behind, Refused, Presents, Believes, SessionNumbers
  <2> QED  BY <2>1, <2>2
<1> QED  BY <1>1, <1>2 DEF CallsCarry

------------------------------------------------------------------------------
(* The records of the calls.                                               *)
Answered(k, code, n) ==
  [NoRequest EXCEPT !.step = "answered", !.code = code, !.session = n,
                    !.tries = IF code = "lost" THEN calls[k].tries ELSE 0,
                    !.kept = calls[k].kept, !.dead = calls[k].dead,
                    !.stray = calls[k].stray]

LEMMA AnsweredRecord ==
  ASSUME CallsCarry, NEW k \in Kinds, NEW code \in Codes, NEW n \in Nat
  PROVE  /\ Answered(k, code, n) \in Requests
         /\ Answered(k, code, n).step = "answered"
         /\ Answered(k, code, n).code = code
         /\ Answered(k, code, n).session = n
         /\ Answered(k, code, n).cookie = 0
         /\ Answered(k, code, n).csrf = 0
         /\ Answered(k, code, n).kept = calls[k].kept
         /\ Answered(k, code, n).dead = calls[k].dead
         /\ Answered(k, code, n).stray = calls[k].stray
<1>1. PICK c \in Requests : c = calls[k]
  BY DEF CallsCarry
<1>2. PICK kept \in BOOLEAN, dead \in BOOLEAN, stray \in BOOLEAN :
        c.kept = kept /\ c.dead = dead /\ c.stray = stray
  BY DEF Requests
<1>3. PICK tries \in 0 .. ReadAttempts :
        tries = IF code = "lost" THEN calls[k].tries ELSE 0
  BY <1>1, WebAssumption DEF Requests
<1> DEFINE d == [NoRequest EXCEPT !.step = "answered", !.code = code, !.session = n,
                   !.tries = tries, !.kept = kept, !.dead = dead, !.stray = stray]
<1>4. d \in Requests
  BY DEF NoRequest, Requests
<1>5. /\ d.step = "answered" /\ d.code = code /\ d.session = n
      /\ d.cookie = 0 /\ d.csrf = 0
      /\ d.kept = kept /\ d.dead = dead /\ d.stray = stray
  BY DEF NoRequest
<1>6. Answered(k, code, n) = d
  BY <1>1, <1>2, <1>3 DEF Answered
<1> HIDE DEF d
<1> QED  BY <1>1, <1>2, <1>4, <1>5, <1>6

(* A request whose session row has been read, or a login's user row.       *)
Looked(c, u, v, dead) ==
  [c EXCEPT !.step = "session", !.user = u, !.version = v, !.dead = dead]

LEMMA LookedRecord ==
  ASSUME NEW c \in Requests, NEW u \in Users, NEW v \in Nat, NEW dead \in BOOLEAN,
         NEW d, d = Looked(c, u, v, dead)
  PROVE  /\ d \in Requests
         /\ d.step = "session" /\ d.user = u /\ d.version = v /\ d.dead = dead
         /\ d.cookie = c.cookie /\ d.csrf = c.csrf /\ d.session = c.session
         /\ d.code = c.code /\ d.kept = c.kept /\ d.stray = c.stray
         /\ d.believed = c.believed /\ d.password = c.password
<1>1. d \in Requests
  BY DEF Requests, Looked
<1> QED  BY <1>1 DEF Requests, Looked

LEMMA NoRequestRecord ==
  /\ NoRequest \in Requests
  /\ NoRequest.step = "none" /\ NoRequest.code = "none" /\ NoRequest.kept
  /\ NoRequest.cookie = 0 /\ NoRequest.csrf = 0 /\ NoRequest.session = 0
BY WebAssumption DEF NoRequest, Requests, Codes

LEMMA SentRecord ==
  ASSUME WebInv, NEW k \in Kinds
  PROVE  /\ Sent(k) \in Requests
         /\ Sent(k).step = "sent" /\ Sent(k).code = "none" /\ Sent(k).kept
         /\ Sent(k).session = 0
         /\ Sent(k).cookie = cookie
         /\ Sent(k).csrf = IF k \in Reads THEN 0 ELSE tab.csrf
         /\ k = "write" => Sent(k).believed = tab.me /\ Sent(k).stray = tab.stray
<1>1. /\ cookie \in Nat /\ tab.csrf \in Nat /\ tab.me \in Users \union {Nobody}
      /\ tab.stray \in BOOLEAN
  BY RowTypes DEF WebInv, TabTypes, TabRows, SessionNumbers
<1>2. 1 \in 0 .. ReadAttempts
  BY WebAssumption
<1>3. PICK csrf \in Nat : csrf = IF k \in Reads THEN 0 ELSE tab.csrf
  BY <1>1
<1>4. PICK believed \in Users \union {Nobody} :
        believed = IF k = "write" THEN tab.me ELSE Nobody
  BY <1>1
<1>5. PICK stray \in BOOLEAN : stray = (k = "write" /\ tab.stray)
  OBVIOUS
<1>6. PICK cookie0 \in Nat : cookie0 = cookie
  BY <1>1
<1> DEFINE d == [NoRequest EXCEPT !.step = "sent", !.cookie = cookie0, !.tries = 1,
                   !.csrf = csrf, !.stray = stray, !.believed = believed]
<1>7. d \in Requests
  BY <1>2 DEF NoRequest, Requests, Codes
<1>8. /\ d.step = "sent" /\ d.code = "none" /\ d.kept /\ d.session = 0
      /\ d.cookie = cookie0 /\ d.csrf = csrf /\ d.believed = believed /\ d.stray = stray
  BY DEF NoRequest
<1>9. Sent(k) = d
  BY <1>3, <1>4, <1>5, <1>6 DEF Sent
<1> HIDE DEF d
<1> QED  BY <1>1, <1>3, <1>4, <1>5, <1>6, <1>7, <1>8, <1>9

(* A call that is over, or answered, has only its answer to account for.   *)
LEMMA AnswerCarries ==
  ASSUME NEW k \in Kinds, NEW d \in Requests,
         d.step \in {"none", "answered"}, d.code # "none" => d.step = "answered",
         Numbered(d)', k # "login" /\ d.dead => d.code \notin {"ok", "csrf"}
  PROVE  Carries(k, d)'
BY DEF Carries, CodeIsLast, Behind, Refused, Presents, Believes

------------------------------------------------------------------------------
(* A step that changes one call, and nothing else but rows and what the    *)
(* tab shows less of.                                                      *)
TabGains ==
  tab'.page = "shell" =>
    /\ tab.page = "shell" /\ tab'.csrf = tab.csrf
    /\ tab'.me = tab.me /\ tab'.stray = tab.stray

LEMMA CallStep ==
  ASSUME WebInv, RowsMatch', Grows, NEW k \in Kinds, NEW d \in Requests, Carries(k, d)',
         calls' = [calls EXCEPT ![k] = d], cookie' = cookie,
         TabTypes', TabGains, WritesAsBelieved',
         k = "me" => \/ Bearing(d) = 0
                     \/ Bearing(d) = cookie /\ (d.kept \/ d.stray)
                     \/ /\ Bearing(d) = Bearing(calls["me"])
                        /\ d.kept = calls["me"].kept /\ d.stray = calls["me"].stray,
         k = "login" /\ d.code = "ok" =>
           d.session # 0 /\ d.session # cookie /\ Bearing(calls["me"]) # d.session
  PROVE  WebInv'
<1>1. CallsCarry'
  BY OneCall DEF WebInv
<1>2. TabShowsOwner'
  <2> SUFFICES ASSUME tab'.page = "shell", tab'.csrf # 0, tab'.csrf = cookie'
               PROVE  tab'.me = sessions'[cookie'].user \/ tab'.stray
    BY DEF TabShowsOwner
  <2>1. tab.me = sessions[cookie].user \/ tab.stray
    BY DEF WebInv, TabShowsOwner, TabGains
  <2>2. cookie \in 1 .. Len(sessions)
    BY RowTypes DEF WebInv, TabTypes, SessionNumbers, TabGains
  <2> QED  BY <2>1, <2>2 DEF TabGains, Grows
<1>3. /\ k # "me" => calls'["me"] = calls["me"]
      /\ k = "me" => calls'["me"] = d
      /\ k # "login" => calls'["login"] = calls["login"]
      /\ k = "login" => calls'["login"] = d
  BY DEF WebInv, CallsCarry, Kinds
<1>4. CancelledIsPast'
  <2>1. CASE k = "me"
    BY <1>3, <2>1 DEF WebInv, CancelledIsPast, TabGains, Bearing
  <2>2. CASE k # "me"
    BY <1>3, <2>2 DEF WebInv, CancelledIsPast, TabGains, Bearing
  <2> QED  BY <2>1, <2>2
<1>5. IssuedIsNew'
  <2>1. CASE k = "me"
    BY <1>3, <2>1 DEF WebInv, IssuedIsNew, Bearing
  <2>2. CASE k # "me"
    BY <1>3, <2>2 DEF WebInv, IssuedIsNew, Bearing
  <2> QED  BY <2>1, <2>2
<1> QED  BY <1>1, <1>2, <1>4, <1>5 DEF WebInv

LEMMA SameTab ==
  ASSUME WebInv, RowsMatch', Grows, UNCHANGED <<tab, cookie>>
  PROVE  TabTypes' /\ TabGains
<1>1. Len(sessions) \in Nat /\ Len(sessions') \in Nat /\ Len(sessions) <= Len(sessions')
  BY RowTypes DEF WebInv, RowsMatch, Grows
<1> QED  BY <1>1 DEF WebInv, TabTypes, TabGains, SessionNumbers

LEMMA SameHistory ==
  ASSUME WebInv, UNCHANGED accepted
  PROVE  WritesAsBelieved'
BY DEF WebInv, WritesAsBelieved

(* What is known of the call that a step is about.                         *)
LEMMA CallTypes ==
  ASSUME WebInv, NEW k \in Kinds
  PROVE  /\ calls[k] \in Requests /\ Carries(k, calls[k])
         /\ calls[k].cookie \in 0 .. Len(sessions) /\ calls[k].csrf \in 0 .. Len(sessions)
         /\ calls[k].session \in 0 .. Len(sessions)
         /\ calls[k].step # "answered" => calls[k].code = "none"
         /\ Len(sessions) \in Nat
BY RowTypes DEF WebInv, CallsCarry, Carries, Numbered, CodeIsLast, SessionNumbers

(* An answer without a session: a refusal, or one that is lost.            *)
LEMMA BareAnswerStep ==
  ASSUME WebInv, NEW k \in Kinds, NEW code \in Codes \ {"ok", "csrf"},
         Answers(k, code, 0), UNCHANGED <<accounts, sessions, cookie, tab, accepted>>
  PROVE  WebInv'
<1> PICK d \in Requests : d = Answered(k, code, 0)
  BY AnsweredRecord DEF WebInv
<1>1. /\ d.step = "answered" /\ d.code = code /\ d.session = 0
      /\ d.cookie = 0 /\ d.csrf = 0
  BY AnsweredRecord DEF WebInv
<1>2. calls' = [calls EXCEPT ![k] = d]
  BY DEF Answers, Answered
<1>3. RowsMatch' /\ Grows
  BY SameRows DEF WebInv
<1>4. Numbered(d)'
  BY <1>1, <1>3, RowTypes DEF Numbered, SessionNumbers, RowsMatch
<1>5. Carries(k, d)'
  BY <1>1, <1>4, AnswerCarries
<1>6. Bearing(d) = 0
  BY <1>1 DEF Bearing
<1>7. TabTypes' /\ TabGains /\ WritesAsBelieved'
  BY <1>3, SameTab, SameHistory
<1> QED  BY <1>1, <1>2, <1>3, <1>5, <1>6, <1>7, CallStep

LEMMA ReadSessionStep ==
  ASSUME WebInv, NEW k \in Kinds, ReadSession(k)
  PROVE  WebInv'
<1> PICK c \in Requests : c = calls[k]
  BY CallTypes
<1>1. /\ c.step = "sent" /\ k # "login" /\ c.code = "none" /\ Carries(k, c)
      /\ c.cookie \in 0 .. Len(sessions) /\ Len(sessions) \in Nat
      /\ UNCHANGED <<accounts, sessions, cookie, tab, accepted>>
  BY CallTypes DEF ReadSession
<1>2. CASE Unknown(c)
  <2>1. Answers(k, "denied", 0)
    BY <1>2 DEF ReadSession
  <2> QED  BY <1>1, <2>1, BareAnswerStep DEF Codes
<1>3. CASE ~Unknown(c)
  <2>1. c.cookie \in 1 .. Len(sessions)
    BY <1>1, <1>3 DEF Unknown
  <2> PICK s \in SessionRows : s = sessions[c.cookie]
    BY <2>1, RowTypes DEF WebInv
  <2>2. /\ s.user \in Users /\ s.version \in Nat
        /\ s.password = s.version /\ s.version <= accounts[s.user].version
        /\ accounts[s.user].version \in Nat
    BY <2>1, RowTypes DEF WebInv, RowsMatch
  <2> PICK u \in Users, v \in Nat : u = s.user /\ v = s.version
    BY <2>2
  <2> DEFINE dead == s.password # accounts[s.user].version
             d == Looked(c, u, v, dead)
  <2>3. calls' = [calls EXCEPT ![k] = d]
    BY <1>3 DEF ReadSession, Looked
  <2>4. dead \in BOOLEAN /\ (dead => s.password # accounts[s.user].version)
    OBVIOUS
  <2> HIDE DEF dead
  <2>5. /\ d \in Requests
        /\ d.step = "session" /\ d.user = u /\ d.version = v /\ d.dead = dead
        /\ d.cookie = c.cookie /\ d.csrf = c.csrf /\ d.session = c.session
        /\ d.code = "none" /\ d.kept = c.kept /\ d.stray = c.stray /\ d.believed = c.believed
    BY <1>1, <2>4, LookedRecord
  <2> HIDE DEF d
  <2> PICK e \in Requests : e = d
    BY <2>5
  <2>6. RowsMatch' /\ Grows
    BY <1>1, SameRows DEF WebInv
  <2>7. Carries(k, e)
    <3>1. Numbered(e) /\ CodeIsLast(e) /\ Refused(k, e) /\ Presents(k, e)
      BY <1>1, <2>5 DEF Carries, Numbered, CodeIsLast, Refused, Presents
    <3>2. Behind(k, e)
      <4>1. d.cookie # 0 /\ d.user = sessions[d.cookie].user
            /\ d.version = sessions[d.cookie].version
        BY <2>1, <2>5
      <4>2. d.dead => d.version < accounts[d.user].version
        BY <2>2, <2>4, <2>5
      <4> QED  BY <4>1, <4>2 DEF Behind
    <3>3. Believes(k, e)
      BY <1>1, <2>5 DEF Carries, Believes
    <3> QED  BY <2>5, <3>1, <3>2, <3>3 DEF Carries
  <2>8. Carries(k, e)'
    BY <2>5, <2>6, <2>7, StaysCarried DEF WebInv
  <2>9. Bearing(e) = Bearing(c)
    BY <1>1, <2>5 DEF Bearing
  <2>10. TabTypes' /\ TabGains /\ WritesAsBelieved'
    BY <1>1, <2>6, SameTab, SameHistory
  <2> QED  BY <1>1, <2>3, <2>5, <2>6, <2>8, <2>9, <2>10, CallStep
<1> QED  BY <1>2, <1>3

(* An admitted request is not of a replaced password, and a write that     *)
(* passes the check of the token is for the user it was sent for.          *)
LEMMA HandleStep ==
  ASSUME WebInv, NEW k \in Kinds, k # "login", Handle(k)
  PROVE  WebInv'
<1> PICK c \in Requests : c = calls[k]
  BY CallTypes
<1>1. /\ c.step = "session" /\ c.code = "none" /\ Carries(k, c)
      /\ c.cookie \in 0 .. Len(sessions) /\ Len(sessions) \in Nat
      /\ UNCHANGED <<accounts, cookie, tab>>
  BY CallTypes DEF Handle
<1>2. /\ c.cookie \in 1 .. Len(sessions)
      /\ c.user = sessions[c.cookie].user /\ c.user \in Users
      /\ c.version \in Nat /\ accounts[c.user].version \in Nat
      /\ Admits(c) => ~c.dead
  <2>1. /\ c.cookie \in 1 .. Len(sessions)
        /\ c.user = sessions[c.cookie].user /\ c.version \in Nat
        /\ c.dead => c.version < accounts[c.user].version
    BY <1>1 DEF Carries, Behind, Requests
  <2>2. c.user \in Users
    BY <2>1, RowTypes DEF WebInv
  <2>3. accounts[c.user].version \in Nat
    BY <2>2, RowTypes DEF WebInv
  <2>4. Admits(c) => ~c.dead
    BY <2>1, <2>2, <2>3 DEF Admits
  <2> QED  BY <2>1, <2>2, <2>3, <2>4
<1>3. CASE Answers(k, "denied", 0) /\ UNCHANGED <<sessions, accepted>>
  BY <1>1, <1>3, BareAnswerStep DEF Codes
<1>4. ASSUME NEW code \in {"csrf", "ok"}, NEW n \in {0, c.cookie}, ~c.dead,
             Answers(k, code, n), RowsMatch', Grows, WritesAsBelieved',
             code = "ok" => n = c.cookie
      PROVE  WebInv'
  <2> PICK d \in Requests : d = Answered(k, code, n)
    BY <1>1, <1>4, AnsweredRecord DEF WebInv, Codes
  <2>1. /\ d.step = "answered" /\ d.code = code /\ d.session = n /\ d.cookie = 0 /\ d.csrf = 0
        /\ d.kept = c.kept /\ d.dead = c.dead /\ d.stray = c.stray
    BY <1>1, <1>4, AnsweredRecord DEF WebInv, Codes
  <2>2. calls' = [calls EXCEPT ![k] = d]
    BY <1>4 DEF Answers, Answered
  <2>3. Numbered(d)'
    BY <1>1, <1>4, <2>1, RowTypes DEF Numbered, SessionNumbers, RowsMatch, Grows
  <2>4. Carries(k, d)'
    BY <1>4, <2>1, <2>3, AnswerCarries
  <2>5. Bearing(d) \in {0, Bearing(c)}
    BY <1>1, <1>4, <2>1 DEF Bearing
  <2>6. TabTypes' /\ TabGains
    BY <1>1, <1>4, SameTab
  <2> QED  BY <1>1, <1>4, <2>1, <2>2, <2>4, <2>5, <2>6, CallStep
<1>5. CASE Admits(c) /\ Answers(k, "csrf", 0) /\ UNCHANGED <<sessions, accepted>>
  <2>1. RowsMatch' /\ Grows /\ WritesAsBelieved'
    BY <1>1, <1>5, SameRows, SameHistory DEF WebInv
  <2> QED  BY <1>2, <1>4, <1>5, <2>1
<1>6. CASE /\ Admits(c) /\ CsrfMatches(k, c) /\ Answers(k, "ok", c.cookie)
           /\ sessions' = IF k = "logout" THEN [sessions EXCEPT ![c.cookie].live = FALSE]
                                          ELSE sessions
           /\ accepted' = IF k = "write"
                          THEN accepted \union
                               {[believed |-> c.believed, user |-> c.user, stray |-> c.stray]}
                          ELSE accepted
  <2>1. RowsMatch' /\ Grows
    <3>1. CASE k = "logout"
      BY <1>1, <1>2, <1>6, <3>1, EndedRow DEF WebInv
    <3>2. CASE k # "logout"
      BY <1>1, <1>6, <3>2, SameRows DEF WebInv
    <3> QED  BY <3>1, <3>2
  <2>2. WritesAsBelieved'
    <3>1. CASE k = "write"
      <4>1. c.csrf = c.cookie
        BY <1>6, <3>1 DEF CsrfMatches, Reads
      <4>2. c.believed = c.user \/ c.stray
        BY <1>1, <1>2, <3>1, <4>1 DEF Carries, Believes
      <4>3. accepted' = accepted \union
                         {[believed |-> c.believed, user |-> c.user, stray |-> c.stray]}
        BY <1>6, <3>1
      <4> QED  BY <4>2, <4>3 DEF WebInv, WritesAsBelieved
    <3>2. CASE k # "write"
      BY <1>6, <3>2, SameHistory
    <3> QED  BY <3>1, <3>2
  <2> QED  BY <1>2, <1>4, <1>6, <2>1, <2>2
<1> QED
  <2>1. \/ Answers(k, "denied", 0) /\ UNCHANGED <<sessions, accepted>>
        \/ Admits(c) /\ Answers(k, "csrf", 0) /\ UNCHANGED <<sessions, accepted>>
        \/ /\ Admits(c) /\ CsrfMatches(k, c) /\ Answers(k, "ok", c.cookie)
           /\ sessions' = IF k = "logout" THEN [sessions EXCEPT ![c.cookie].live = FALSE]
                                          ELSE sessions
           /\ accepted' = IF k = "write"
                          THEN accepted \union
                               {[believed |-> c.believed, user |-> c.user, stray |-> c.stray]}
                          ELSE accepted
    BY DEF Handle
  <2> QED  BY <1>3, <1>5, <1>6, <2>1

LEMMA ReadUserStep ==
  ASSUME WebInv, ReadUser
  PROVE  WebInv'
<1> PICK c \in Requests : c = calls["login"]
  BY CallTypes DEF Kinds
<1>1. /\ c.step = "sent" /\ c.code = "none" /\ Carries("login", c)
      /\ UNCHANGED <<accounts, sessions, cookie, tab, accepted>>
  BY CallTypes DEF ReadUser, Kinds
<1>2. CASE \E code \in {"refused", "denied"} : Answers("login", code, 0)
  BY <1>1, <1>2, BareAnswerStep DEF Codes, Kinds
<1>3. CASE /\ c.password = accounts[c.user].version
           /\ calls' = [calls EXCEPT !["login"] =
                [c EXCEPT !.step = "session", !.version = accounts[c.user].version]]
  <2>1. c.user \in Users /\ accounts[c.user].version \in Nat
    BY <1>1, RowTypes DEF Carries, Presents, WebInv
  <2> PICK v \in Nat : v = accounts[c.user].version
    BY <2>1
  <2> DEFINE e == [c EXCEPT !.step = "session", !.version = v]
  <2>2. e \in Requests
    BY DEF Requests
  <2>3. /\ e.step = "session" /\ e.version = v
        /\ e.cookie = c.cookie /\ e.csrf = c.csrf /\ e.session = c.session
        /\ e.code = "none" /\ e.user = c.user /\ e.password = c.password
    BY <1>1 DEF Requests
  <2>4. calls' = [calls EXCEPT !["login"] = e]
    BY <1>3
  <2> HIDE DEF e
  <2> PICK d \in Requests : d = e
    BY <2>2
  <2>5. Carries("login", d)
    <3>1. Numbered(d) /\ CodeIsLast(d)
      BY <1>1, <2>3 DEF Carries, Numbered, CodeIsLast
    <3>2. Presents("login", d)
      BY <1>3, <2>1, <2>3 DEF Presents
    <3> QED  BY <3>1, <3>2 DEF Carries, Behind, Refused, Believes
  <2>6. RowsMatch' /\ Grows /\ TabTypes' /\ TabGains /\ WritesAsBelieved'
    BY <1>1, SameRows, SameTab, SameHistory DEF WebInv
  <2>7. Carries("login", d)'
    BY <2>5, <2>6, StaysCarried DEF WebInv, Kinds
  <2> QED  BY <1>1, <2>3, <2>4, <2>6, <2>7, CallStep DEF Kinds
<1> QED  BY <1>2, <1>3 DEF ReadUser

(* The session of a login is new, so no cookie or token has named it.      *)
LEMMA IssueSessionStep ==
  ASSUME WebInv, IssueSession
  PROVE  WebInv'
<1> PICK c \in Requests : c = calls["login"]
  BY CallTypes DEF Kinds
<1> DEFINE n == Len(sessions) + 1
           row == [user |-> c.user, version |-> c.version, live |-> TRUE,
                   password |-> c.password]
<1>1. /\ c.step = "session" /\ Carries("login", c)
      /\ sessions' = Append(sessions, row) /\ Answers("login", "ok", n)
      /\ UNCHANGED <<accounts, cookie, tab, accepted>> /\ Len(sessions) \in Nat
  BY CallTypes DEF IssueSession, VersionIssued, Kinds
<1>2. /\ c.user \in Users /\ c.version \in Nat /\ c.password \in Nat
      /\ c.version = c.password /\ c.version <= accounts[c.user].version
  BY <1>1 DEF Carries, Presents, Requests
<1>3. row \in SessionRows
  BY <1>2 DEF SessionRows
<1>4. row.password = row.version /\ row.version <= accounts[row.user].version
  BY <1>2
<1>5. RowsMatch' /\ Grows /\ Len(sessions') = n
  BY <1>1, <1>3, <1>4, AppendedRow DEF WebInv
<1> PICK d \in Requests : d = Answered("login", "ok", n)
  BY <1>1, AnsweredRecord DEF WebInv, Codes, Kinds
<1>6. /\ d.step = "answered" /\ d.code = "ok" /\ d.session = n /\ d.cookie = 0 /\ d.csrf = 0
  BY <1>1, AnsweredRecord DEF WebInv, Codes, Kinds
<1>7. calls' = [calls EXCEPT !["login"] = d]
  BY <1>1 DEF Answers, Answered
<1>8. Numbered(d)'
  BY <1>1, <1>5, <1>6 DEF Numbered, SessionNumbers
<1>9. Carries("login", d)'
  BY <1>6, <1>8, AnswerCarries DEF Kinds
<1>10. Bearing(calls["me"]) # n /\ cookie # n /\ n # 0
  <2>1. /\ calls["me"].cookie \in 0 .. Len(sessions)
        /\ calls["me"].session \in 0 .. Len(sessions)
    BY CallTypes DEF Kinds
  <2>2. cookie \in 0 .. Len(sessions)
    BY DEF WebInv, TabTypes, SessionNumbers
  <2> QED  BY <1>1, <2>1, <2>2 DEF Bearing
<1>11. TabTypes' /\ TabGains /\ WritesAsBelieved'
  BY <1>1, <1>5, SameTab, SameHistory
<1> HIDE DEF row, n
<1> QED  BY <1>1, <1>5, <1>6, <1>7, <1>9, <1>10, <1>11, CallStep DEF Kinds

LEMMA LoseCallStep ==
  ASSUME WebInv, NEW k \in Kinds, LoseCall(k)
  PROVE  WebInv'
BY BareAnswerStep DEF LoseCall, Codes

(* A request that is sent: its token and its cookie are those of the       *)
(* moment, at which the tab shows the owner of the session of both.        *)
LEMMA SentCarries ==
  ASSUME WebInv, NEW k \in Kinds, NEW d \in Requests,
         d.step = "sent", d.code = "none", d.cookie = cookie, d.session = 0,
         d.csrf = IF k \in Reads THEN 0 ELSE tab.csrf,
         k = "write" => /\ tab.page = "shell"
                        /\ d.believed = tab.me /\ d.stray = tab.stray,
         k = "login" => d.user \in Users
  PROVE  Carries(k, d)
<1>1. /\ cookie \in 0 .. Len(sessions) /\ tab.csrf \in 0 .. Len(sessions)
      /\ Len(sessions) \in Nat
  BY RowTypes DEF WebInv, TabTypes, SessionNumbers
<1>2. Numbered(d)
  BY <1>1 DEF Numbered, SessionNumbers
<1>3. Believes(k, d)
  BY DEF Believes, WebInv, TabShowsOwner, Reads
<1> QED  BY <1>2, <1>3 DEF Carries, CodeIsLast, Behind, Refused, Presents

LEMMA SendStep ==
  ASSUME WebInv, NEW k \in Kinds, NEW d \in Requests, Carries(k, d),
         d.code = "none", d.cookie = cookie, k = "me" => d.kept \/ d.stray,
         calls' = [calls EXCEPT ![k] = d],
         UNCHANGED <<accounts, sessions, cookie, accepted>>, TabTypes', TabGains
  PROVE  WebInv'
<1>1. RowsMatch' /\ Grows /\ WritesAsBelieved'
  BY SameRows, SameHistory DEF WebInv
<1>2. Carries(k, d)'
  BY <1>1, StaysCarried DEF WebInv
<1>3. Bearing(d) = cookie
  BY DEF Bearing
<1> QED  BY <1>1, <1>2, <1>3, CallStep

LEMMA RetryStep ==
  ASSUME WebInv, NEW k \in Kinds, Retry(k)
  PROVE  WebInv'
<1> PICK c \in Requests : c = calls[k]
  BY CallTypes
<1>1. /\ k \in Reads /\ c.tries < ReadAttempts
      /\ calls' = [calls EXCEPT ![k] =
           [Sent(k) EXCEPT !.tries = c.tries + 1, !.kept = c.kept, !.stray = ~c.kept]]
      /\ UNCHANGED <<accounts, sessions, cookie, tab, accepted>>
  BY DEF Retry, MayRetry
<1> PICK tries \in 0 .. ReadAttempts : tries = c.tries + 1
  BY <1>1, WebAssumption DEF Requests
<1> PICK sent \in Requests : sent = Sent(k)
  BY SentRecord
<1>2. /\ sent.step = "sent" /\ sent.code = "none" /\ sent.session = 0
      /\ sent.cookie = cookie /\ sent.csrf = IF k \in Reads THEN 0 ELSE tab.csrf
  BY SentRecord
<1>3. ASSUME NEW kept \in BOOLEAN, NEW stray \in BOOLEAN, kept \/ stray,
             NEW e, e = [sent EXCEPT !.tries = tries, !.kept = kept, !.stray = stray],
             calls' = [calls EXCEPT ![k] = e]
      PROVE  WebInv'
  <2>1. e \in Requests
    BY <1>3 DEF Requests
  <2>2. /\ e.step = "sent" /\ e.code = "none" /\ e.session = 0 /\ e.cookie = cookie
        /\ e.csrf = (IF k \in Reads THEN 0 ELSE tab.csrf) /\ (e.kept \/ e.stray)
    BY <1>2, <1>3 DEF Requests
  <2>3. Carries(k, e)
    BY <1>1, <2>1, <2>2, SentCarries DEF Reads
  <2>4. TabTypes' /\ TabGains
    BY <1>1, SameRows, SameTab DEF WebInv
  <2> QED  BY <1>1, <1>3, <2>1, <2>2, <2>3, <2>4, SendStep
<1>4. CASE c.kept = TRUE
  <2> DEFINE e == [sent EXCEPT !.tries = tries, !.kept = TRUE, !.stray = FALSE]
  <2>1. calls' = [calls EXCEPT ![k] = e]
    BY <1>1, <1>4
  <2> QED  BY <1>3, <2>1
<1>5. CASE c.kept = FALSE
  <2> DEFINE e == [sent EXCEPT !.tries = tries, !.kept = FALSE, !.stray = TRUE]
  <2>1. calls' = [calls EXCEPT ![k] = e]
    BY <1>1, <1>5
  <2> QED  BY <1>3, <2>1
<1> QED  BY <1>4, <1>5 DEF Requests

LEMMA FetchStep ==
  ASSUME WebInv, NEW k \in Kinds, Fetch(k)
  PROVE  WebInv'
<1> PICK d \in Requests : d = Sent(k)
  BY SentRecord
<1>1. /\ d.step = "sent" /\ d.code = "none" /\ d.kept /\ d.session = 0 /\ d.cookie = cookie
      /\ d.csrf = IF k \in Reads THEN 0 ELSE tab.csrf
      /\ k = "write" => d.believed = tab.me /\ d.stray = tab.stray
  BY SentRecord
<1>2. /\ tab.page = "shell" /\ k # "login" /\ calls' = [calls EXCEPT ![k] = d]
      /\ UNCHANGED <<accounts, sessions, cookie, tab, accepted>>
  BY DEF Fetch, Asks
<1>3. Carries(k, d)
  BY <1>1, <1>2, SentCarries
<1>4. TabTypes' /\ TabGains
  BY <1>2, SameRows, SameTab DEF WebInv
<1> QED  BY <1>1, <1>2, <1>3, <1>4, SendStep

LEMMA LogoutStep ==
  ASSUME WebInv, Logout
  PROVE  WebInv'
<1> PICK d \in Requests : d = Sent("logout")
  BY SentRecord DEF Kinds
<1>1. /\ d.step = "sent" /\ d.code = "none" /\ d.session = 0 /\ d.cookie = cookie
      /\ d.csrf = IF "logout" \in Reads THEN 0 ELSE tab.csrf
  BY SentRecord DEF Kinds
<1>2. /\ calls' = [calls EXCEPT !["logout"] = d]
      /\ tab' = [tab EXCEPT !.loggingOut = TRUE]
      /\ UNCHANGED <<accounts, sessions, cookie, accepted>>
  BY DEF Logout, Asks
<1>3. Carries("logout", d)
  BY <1>1, SentCarries DEF Kinds
<1>4. TabTypes' /\ TabGains
  BY <1>2 DEF WebInv, TabTypes, TabRows, TabGains, SessionNumbers
<1> QED  BY <1>1, <1>2, <1>3, <1>4, SendStep DEF Kinds

LEMMA SubmitStep ==
  ASSUME WebInv, NEW u \in Users, NEW p \in Nat, Submit(u, p)
  PROVE  WebInv'
<1> PICK sent \in Requests : sent = Sent("login")
  BY SentRecord DEF Kinds
<1>1. /\ sent.step = "sent" /\ sent.code = "none" /\ sent.session = 0 /\ sent.cookie = cookie
      /\ sent.csrf = IF "login" \in Reads THEN 0 ELSE tab.csrf
  BY SentRecord DEF Kinds
<1> DEFINE e == [sent EXCEPT !.user = u, !.password = p]
<1>2. e \in Requests
  BY DEF Requests
<1>3. /\ e.step = "sent" /\ e.code = "none" /\ e.session = 0 /\ e.cookie = cookie
      /\ e.csrf = (IF "login" \in Reads THEN 0 ELSE tab.csrf) /\ e.user = u
  BY <1>1 DEF Requests
<1>4. /\ calls' = [calls EXCEPT !["login"] = e]
      /\ UNCHANGED <<accounts, sessions, cookie, tab, accepted>>
  BY DEF Submit
<1> HIDE DEF e
<1> PICK d \in Requests : d = e
  BY <1>2
<1>5. Carries("login", d)
  BY <1>3, SentCarries DEF Kinds
<1>6. TabTypes' /\ TabGains
  BY <1>4, SameRows, SameTab DEF WebInv
<1> QED  BY <1>3, <1>4, <1>5, <1>6, SendStep DEF Kinds

LEMMA SameCalls ==
  ASSUME WebInv, RowsMatch', Grows, UNCHANGED calls
  PROVE  CallsCarry'
<1> PICK d \in Requests : d = calls["me"]
  BY CallTypes DEF Kinds
<1>1. Carries("me", d)'
  BY CallTypes, StaysCarried DEF WebInv, Kinds
<1>2. calls' = [calls EXCEPT !["me"] = d]
  BY DEF WebInv, CallsCarry, Kinds
<1> QED  BY <1>1, <1>2, OneCall DEF WebInv, Kinds

LEMMA RowsStep ==
  ASSUME WebInv, RowsMatch', Grows, UNCHANGED <<cookie, tab, calls, accepted>>
  PROVE  WebInv'
<1>1. CallsCarry' /\ TabTypes' /\ WritesAsBelieved'
  BY SameCalls, SameTab, SameHistory
<1>2. TabShowsOwner'
  BY RowTypes DEF WebInv, TabShowsOwner, TabTypes, SessionNumbers, Grows
<1>3. CancelledIsPast' /\ IssuedIsNew'
  BY DEF WebInv, CancelledIsPast, IssuedIsNew, Bearing
<1> QED  BY <1>1, <1>2, <1>3 DEF WebInv

LEMMA AdminStep ==
  ASSUME WebInv,
         \/ \E u \in Users : RotateCredentials(u) \/ SetStatus(u)
         \/ \E s \in DOMAIN sessions : Expire(s)
  PROVE  WebInv'
<1>1. CASE \E u \in Users : RotateCredentials(u) \/ SetStatus(u)
  <2>1. RowsMatch' /\ Grows
    BY <1>1, ChangedAccount DEF WebInv, RotateCredentials, SetStatus
  <2>2. UNCHANGED <<cookie, tab, calls, accepted>>
    BY <1>1 DEF RotateCredentials, SetStatus
  <2> QED  BY <2>1, <2>2, RowsStep
<1>2. CASE \E s \in DOMAIN sessions : Expire(s)
  <2>1. PICK n \in 1 .. Len(sessions) : Expire(n)
    BY <1>2 DEF WebInv, RowsMatch
  <2>2. RowsMatch' /\ Grows
    BY <2>1, EndedRow DEF WebInv, Expire
  <2>3. UNCHANGED <<cookie, tab, calls, accepted>>
    BY <2>1 DEF Expire
  <2> QED  BY <2>2, <2>3, RowsStep
<1> QED  BY <1>1, <1>2

(* The cookie of another tab's login is one that this tab has not seen.    *)
LEMMA SignInElsewhereStep ==
  ASSUME WebInv, NEW u \in Users, SignInElsewhere(u)
  PROVE  WebInv'
<1> PICK v \in Nat : v = accounts[u].version
  BY RowTypes DEF WebInv
<1> DEFINE row == [user |-> u, version |-> v, live |-> TRUE, password |-> v]
<1>1. /\ sessions' = Append(sessions, row) /\ cookie' = Len(sessions) + 1
      /\ UNCHANGED <<accounts, tab, calls, accepted>>
  BY DEF SignInElsewhere
<1>2. row \in SessionRows /\ row.password = row.version /\ row.version <= accounts[row.user].version
  BY DEF SessionRows
<1>3. RowsMatch' /\ Grows /\ Len(sessions') = Len(sessions) + 1
  BY <1>1, <1>2, AppendedRow DEF WebInv
<1>4. /\ tab \in TabRows /\ tab.csrf \in 0 .. Len(sessions) /\ Len(sessions) \in Nat
      /\ calls["me"].cookie \in 0 .. Len(sessions) /\ calls["me"].session \in 0 .. Len(sessions)
      /\ calls["login"].session \in 0 .. Len(sessions)
  BY CallTypes DEF Kinds, WebInv, TabTypes, SessionNumbers
<1>5. CallsCarry' /\ WritesAsBelieved'
  BY <1>1, <1>3, SameCalls, SameHistory
<1>6. TabTypes'
  BY <1>1, <1>3, <1>4 DEF TabTypes, SessionNumbers
<1>7. TabShowsOwner'
  BY <1>1, <1>4 DEF TabShowsOwner
<1>8. CancelledIsPast' /\ IssuedIsNew'
  BY <1>1, <1>4 DEF WebInv, CancelledIsPast, IssuedIsNew, Bearing
<1> QED  BY <1>3, <1>5, <1>6, <1>7, <1>8 DEF WebInv

LEMMA SignOutElsewhereStep ==
  ASSUME WebInv, SignOutElsewhere
  PROVE  WebInv'
<1>1. /\ cookie \in 1 .. Len(sessions) /\ cookie' = 0
      /\ sessions' = [sessions EXCEPT ![cookie].live = FALSE]
      /\ UNCHANGED <<accounts, tab, calls, accepted>>
  BY RowTypes DEF SignOutElsewhere, WebInv, TabTypes, SessionNumbers
<1>2. RowsMatch' /\ Grows /\ Len(sessions') = Len(sessions) /\ Len(sessions) \in Nat
  BY <1>1, EndedRow, RowTypes DEF WebInv
<1>3. CallsCarry' /\ WritesAsBelieved'
  BY <1>1, <1>2, SameCalls, SameHistory
<1>4. TabTypes' /\ TabShowsOwner' /\ CancelledIsPast' /\ IssuedIsNew'
  BY <1>1, <1>2 DEF WebInv, TabTypes, SessionNumbers, TabShowsOwner, CancelledIsPast,
                    IssuedIsNew, Bearing
<1> QED  BY <1>2, <1>3, <1>4 DEF WebInv

------------------------------------------------------------------------------
(* The tab takes an answer.  A call that it cancels stays what it was, but *)
(* for its being kept, and the tab that cancels is at the login page.      *)
Dropped(c) == [c EXCEPT !.kept = FALSE]

LEMMA DroppedRecord ==
  ASSUME NEW k \in Kinds, NEW c \in Requests, Carries(k, c), NEW d, d = Dropped(c)
  PROVE  d \in Requests /\ Carries(k, d) /\ Bearing(d) = Bearing(c) /\ d.code = c.code
         /\ d.session = c.session
<1>1. d \in Requests
  BY DEF Requests, Dropped
<1>2. /\ d.step = c.step /\ d.cookie = c.cookie /\ d.csrf = c.csrf /\ d.user = c.user
      /\ d.password = c.password /\ d.version = c.version /\ d.believed = c.believed
      /\ d.dead = c.dead /\ d.stray = c.stray /\ d.code = c.code /\ d.session = c.session
  BY DEF Requests, Dropped
<1>3. Carries(k, d)
  BY <1>1, <1>2 DEF Carries, Numbered, CodeIsLast, Behind, Refused, Presents, Believes
<1> QED  BY <1>1, <1>2, <1>3 DEF Bearing

Cancels(k) == k = "logout" \/ (Expired(k) /\ Signals(tab) /\ Wired(tab))

LEMMA CallsOfContinue ==
  ASSUME WebInv, NEW k \in Kinds, Continue(k)
  PROVE  /\ CallsCarry' /\ RowsMatch' /\ Grows
         /\ calls'[k] = NoRequest
         /\ \A j \in Kinds \ {k} :
              \/ calls'[j] = calls[j]
              \/ Cancels(k) /\ calls'[j] = Dropped(calls[j])
<1>1. RowsMatch' /\ Grows /\ UNCHANGED <<accounts, sessions>>
  BY SameRows DEF Continue, WebInv
<1>2. calls \in [Kinds -> Requests] /\ NoRequest.step = "none" /\ NoRequest \in Requests
  BY NoRequestRecord DEF WebInv, CallsCarry
<1>3. \/ calls' = Done(k)
      \/ Cancels(k) /\ calls' = Cancelled(Done(k))
  BY DEF Continue, CallsAfter, Cancels
<1>4. /\ calls'[k] = NoRequest /\ DOMAIN calls' = Kinds
      /\ \A j \in Kinds \ {k} :
           \/ calls'[j] = calls[j]
           \/ Cancels(k) /\ calls'[j] = Dropped(calls[j])
      /\ calls' = [j \in Kinds |-> calls'[j]]
  <2>1. CASE calls' = Done(k)
    BY <1>2, <2>1 DEF Done
  <2>2. CASE Cancels(k) /\ calls' = Cancelled(Done(k))
    <3>1. Done(k) \in [Kinds -> Requests] /\ Done(k)[k] = NoRequest
          /\ \A j \in Kinds \ {k} : Done(k)[j] = calls[j]
      BY <1>2 DEF Done
    <3> QED  BY <1>2, <2>2, <3>1 DEF Cancelled, Dropped
  <2> QED  BY <1>3, <2>1, <2>2
<1>5. ASSUME NEW j \in Kinds PROVE calls'[j] \in Requests /\ Carries(j, calls'[j])
  <2>1. CASE j = k
    <3>1. Carries(k, NoRequest)
      BY NoRequestRecord, CallTypes DEF Carries, Numbered, CodeIsLast, Behind, Refused, Presents,
                                        Believes, SessionNumbers
    <3> QED  BY <1>2, <1>4, <2>1, <3>1
  <2>2. CASE j # k
    BY <1>4, <2>2, CallTypes, DroppedRecord
  <2> QED  BY <2>1, <2>2
<1>6. ASSUME NEW j \in Kinds PROVE Carries(j, calls[j])'
  <2> PICK c \in Requests : c = calls'[j]
    BY <1>5
  <2>1. Carries(j, c)'
    BY <1>1, <1>5, StaysCarried DEF WebInv
  <2> QED  BY <2>1 DEF Carries, Numbered, CodeIsLast, Behind, Refused, Presents, Believes,
                       SessionNumbers
<1>7. calls' \in [Kinds -> Requests]
  BY <1>4, <1>5
<1> QED  BY <1>1, <1>4, <1>6, <1>7 DEF CallsCarry

(* signalUnauthorized changes neither token nor cookie.                    *)
LEMMA SignalledTab ==
  ASSUME NEW m \in TabRows
  PROVE  /\ Signalled(m) \in TabRows
         /\ Signalled(m).csrf = m.csrf /\ Signalled(m).stray = m.stray
         /\ Signalled(m).page = "shell" => m.page = "shell" /\ Signalled(m).me = m.me
         /\ Signals(m) /\ Wired(m) => Signalled(m).page = "login"
<1> DEFINE a == [m EXCEPT !.signaled = TRUE]
           b == [a EXCEPT !.page = "login", !.loggingOut = FALSE]
           c == [b EXCEPT !.me = Nobody]
<1>1. /\ a \in TabRows /\ a.csrf = m.csrf /\ a.stray = m.stray /\ a.page = m.page
      /\ a.me = m.me
  BY DEF TabRows
<1>2. b \in TabRows /\ b.csrf = a.csrf /\ b.stray = a.stray /\ b.page = "login"
  BY <1>1 DEF TabRows
<1>3. c \in TabRows /\ c.csrf = b.csrf /\ c.stray = b.stray /\ c.page = b.page
  BY <1>2 DEF TabRows
<1>4. Signalled(m) = IF Signals(m) /\ Wired(m) THEN c ELSE a
  BY DEF Signalled, Cleared, AtLogin
<1> HIDE DEF a, b, c
<1> QED  BY <1>1, <1>2, <1>3, <1>4

LEMMA SeenTab ==
  ASSUME WebInv, NEW k \in Kinds
  PROVE  LET m == AfterRequest(k)
         IN  /\ m \in TabRows /\ m.csrf = tab.csrf /\ m.stray = tab.stray
             /\ m.page = "shell" => tab.page = "shell" /\ m.me = tab.me
             /\ calls[k].code = "ok" => m = tab
             /\ Cancels(k) /\ k # "logout" => m.page = "login"
BY SignalledTab DEF AfterRequest, WebInv, TabTypes, Cancels, Expired

(* After an answer that brought nothing to the tab.                        *)
LEMMA BareContinue ==
  ASSUME WebInv, NEW k \in Kinds, Continue(k), TabTypes', TabGains,
         cookie' \in {cookie, 0},
         tab'.page = "shell" => cookie' = cookie /\ ~Cancels(k)
  PROVE  WebInv'
<1>1. /\ CallsCarry' /\ RowsMatch' /\ Grows /\ calls'[k] = NoRequest
      /\ UNCHANGED <<sessions, accepted>>
      /\ \A j \in Kinds \ {k} :
           \/ calls'[j] = calls[j]
           \/ Cancels(k) /\ calls'[j] = Dropped(calls[j])
  BY CallsOfContinue DEF Continue
<1>2. WritesAsBelieved'
  BY <1>1, SameHistory
<1>3. TabShowsOwner'
  BY <1>1 DEF WebInv, TabShowsOwner, TabGains
<1>4. NoRequest.code = "none" /\ NoRequest.kept /\ Bearing(NoRequest) = 0
  BY NoRequestRecord DEF Bearing
<1>5. \A j \in Kinds : \/ calls'[j] = NoRequest
                      \/ calls'[j] = calls[j]
                      \/ /\ Bearing(calls'[j]) = Bearing(calls[j])
                         /\ calls'[j].code = calls[j].code
                         /\ calls'[j].session = calls[j].session
  BY <1>1, CallTypes, DroppedRecord
<1>6. CancelledIsPast'
  BY <1>1, <1>4 DEF WebInv, CancelledIsPast, TabGains, Kinds, Bearing
<1>7. IssuedIsNew'
  <2> SUFFICES ASSUME calls'["login"].code = "ok"
               PROVE  /\ calls'["login"].session # 0 /\ calls'["login"].session # cookie'
                      /\ Bearing(calls'["me"]) # calls'["login"].session
    BY DEF IssuedIsNew, Bearing
  <2>1. /\ calls["login"].code = "ok" /\ calls'["login"].session = calls["login"].session
    BY <1>4, <1>5 DEF Kinds
  <2>2. Bearing(calls'["me"]) \in {0, Bearing(calls["me"])}
    BY <1>4, <1>5 DEF Kinds
  <2> QED  BY <2>1, <2>2 DEF WebInv, IssuedIsNew
<1> QED  BY <1>1, <1>2, <1>3, <1>6, <1>7 DEF WebInv

LEMMA OwnerType ==
  ASSUME WebInv, NEW n \in 0 .. Len(sessions)
  PROVE  /\ Owner(n) \in Users \union {Nobody}
         /\ n # 0 => Owner(n) = sessions[n].user
BY RowTypes DEF WebInv, Owner

(* The probe's answer hands its token to the tab, and its user unless it   *)
(* was cancelled: then its session is past, or it is stray.                *)
LEMMA MeContinue ==
  ASSUME WebInv, Continue("me"), calls["me"].code = "ok"
  PROVE  WebInv'
<1> PICK c \in Requests : c = calls["me"]
  BY CallTypes DEF Kinds
<1>1. /\ c.code = "ok" /\ c.session \in 0 .. Len(sessions) /\ Len(sessions) \in Nat
      /\ c.stray \in BOOLEAN
  BY CallTypes DEF Kinds, Requests
<1> PICK m \in TabRows : m = tab
  BY DEF WebInv, TabTypes
<1> PICK owner \in Users \union {Nobody} : owner = Owner(c.session)
  BY <1>1, OwnerType
<1> PICK n \in Nat : n = c.session
  BY <1>1
<1> PICK stray \in BOOLEAN : stray = c.stray
  BY <1>1
<1> DEFINE a == [m EXCEPT !.csrf = n, !.stray = stray, !.signaled = FALSE]
           b == [a EXCEPT !.me = owner, !.page = IF @ = "loading" THEN "shell" ELSE @]
<1>2. /\ a \in TabRows /\ a.csrf = n /\ a.stray = stray /\ a.page = m.page /\ a.me = m.me
  BY DEF TabRows
<1>3. /\ b \in TabRows /\ b.csrf = n /\ b.stray = stray /\ b.me = owner
  <2> HIDE DEF a
  <2> PICK z \in TabRows : z = a
    BY <1>2
  <2> PICK page \in {"loading", "shell", "login"} :
           page = IF z.page = "loading" THEN "shell" ELSE z.page
    BY DEF TabRows
  <2> DEFINE y == [z EXCEPT !.me = owner, !.page = page]
  <2>1. y \in TabRows /\ y.csrf = z.csrf /\ y.stray = z.stray /\ y.me = owner
    BY DEF TabRows
  <2>2. b = y
    OBVIOUS
  <2> HIDE DEF b, y
  <2> QED  BY <1>2, <2>1, <2>2
<1>4. tab' = IF c.kept THEN b ELSE a
  BY <1>1, SeenTab DEF Continue, TabAfter, MeAnswered, Kinds
<1> HIDE DEF a, b
<1>5. cookie' = cookie /\ UNCHANGED <<sessions, accounts, accepted>>
  BY DEF Continue, CookieAfter
<1>6. ~Cancels("me")
  BY <1>1 DEF Cancels, Expired
<1>7. /\ CallsCarry' /\ RowsMatch' /\ Grows /\ calls'["me"] = NoRequest
      /\ calls'["login"] = calls["login"]
  BY <1>6, CallsOfContinue DEF Kinds
<1>8. tab' \in TabRows /\ tab'.csrf = n /\ tab'.stray = stray
  BY <1>2, <1>3, <1>4
<1>9. TabTypes'
  BY <1>1, <1>5, <1>8 DEF TabTypes, SessionNumbers, WebInv
<1>10. TabShowsOwner'
  <2> SUFFICES ASSUME tab'.page = "shell", n # 0, n = cookie
               PROVE  tab'.me = sessions[cookie].user \/ stray
    BY <1>5, <1>8 DEF TabShowsOwner
  <2>1. CASE c.kept
    <3>1. owner = sessions[n].user
      BY <1>1, OwnerType
    <3> QED  BY <1>3, <1>4, <2>1, <3>1
  <2>2. CASE ~c.kept
    <3>1. tab.page = "shell"
      BY <1>2, <1>4, <2>2
    <3> QED  BY <1>1, <2>2, <3>1 DEF WebInv, CancelledIsPast, Bearing
  <2> QED  BY <2>1, <2>2
<1>11. NoRequest.code = "none" /\ NoRequest.kept /\ Bearing(NoRequest) = 0
  BY NoRequestRecord DEF Bearing
<1>12. CancelledIsPast' /\ IssuedIsNew'
  BY <1>5, <1>7, <1>11 DEF WebInv, CancelledIsPast, IssuedIsNew, Bearing
<1> QED  BY <1>5, <1>7, <1>9, <1>10, <1>12, SameHistory DEF WebInv

(* A login's answer brings cookie, token and user of one session.          *)
LEMMA LoginContinue ==
  ASSUME WebInv, Continue("login"), calls["login"].code = "ok"
  PROVE  WebInv'
<1> PICK c \in Requests : c = calls["login"]
  BY CallTypes DEF Kinds
<1>1. /\ c.code = "ok" /\ c.session \in 0 .. Len(sessions) /\ Len(sessions) \in Nat
      /\ c.session # 0 /\ Bearing(calls["me"]) # c.session
  BY CallTypes DEF Kinds, WebInv, IssuedIsNew
<1> PICK m \in TabRows : m = tab
  BY DEF WebInv, TabTypes
<1> PICK owner \in Users \union {Nobody} : owner = Owner(c.session)
  BY <1>1, OwnerType
<1> PICK n \in Nat : n = c.session
  BY <1>1
<1> DEFINE a == [m EXCEPT !.csrf = n, !.stray = FALSE, !.signaled = FALSE,
                          !.me = owner, !.page = "shell"]
<1>2. /\ a \in TabRows /\ a.csrf = n /\ a.me = owner
  BY DEF TabRows
<1>3. tab' = a
  BY <1>1, SeenTab DEF Continue, TabAfter, LoginAnswered, Kinds
<1> HIDE DEF a
<1>4. cookie' = n /\ UNCHANGED <<sessions, accounts, accepted>>
  BY <1>1 DEF Continue, CookieAfter
<1>5. ~Cancels("login")
  BY <1>1 DEF Cancels, Expired
<1>6. /\ CallsCarry' /\ RowsMatch' /\ Grows /\ calls'["login"] = NoRequest
      /\ calls'["me"] = calls["me"]
  BY <1>5, CallsOfContinue DEF Kinds
<1>7. TabTypes'
  BY <1>1, <1>2, <1>3, <1>4 DEF TabTypes, SessionNumbers
<1>8. TabShowsOwner'
  BY <1>1, <1>2, <1>3, <1>4, OwnerType DEF TabShowsOwner
<1>9. NoRequest.code = "none"
  BY NoRequestRecord
<1>10. CancelledIsPast' /\ IssuedIsNew'
  BY <1>1, <1>4, <1>6, <1>9 DEF CancelledIsPast, IssuedIsNew, Bearing
<1> QED  BY <1>4, <1>6, <1>7, <1>8, <1>10, SameHistory DEF WebInv

LEMMA ContinueStep ==
  ASSUME WebInv, NEW k \in Kinds, Continue(k)
  PROVE  WebInv'
<1> PICK m \in TabRows : m = AfterRequest(k)
  BY SeenTab
<1>1. /\ m.csrf = tab.csrf /\ m.stray = tab.stray
      /\ m.page = "shell" => tab.page = "shell" /\ m.me = tab.me
      /\ Cancels(k) /\ k # "logout" => m.page = "login"
  BY SeenTab
<1>2. UNCHANGED sessions /\ tab' = TabAfter(k) /\ cookie' = CookieAfter(k, calls[k])
  BY DEF Continue
<1>3. tab.csrf \in SessionNumbers /\ cookie \in SessionNumbers /\ 0 \in SessionNumbers
  BY RowTypes DEF WebInv, TabTypes, SessionNumbers
<1>4. CASE k \in {"read", "write"}
  <2>1. tab' = m /\ cookie' = cookie
    BY <1>2, <1>4 DEF TabAfter, CookieAfter
  <2>2. TabTypes' /\ TabGains
    BY <1>1, <1>2, <1>3, <2>1 DEF TabTypes, TabGains, SessionNumbers
  <2> QED  BY <1>1, <1>4, <2>1, <2>2, BareContinue
<1>5. CASE k = "logout"
  <2> DEFINE a == [m EXCEPT !.csrf = 0]
             b == [a EXCEPT !.page = "login", !.loggingOut = FALSE]
             c == [b EXCEPT !.me = Nobody]
  <2>1. a \in TabRows /\ a.csrf = 0
    BY DEF TabRows
  <2>2. b \in TabRows /\ b.csrf = a.csrf /\ b.page = "login"
    BY <2>1 DEF TabRows
  <2>3. c \in TabRows /\ c.csrf = b.csrf /\ c.page = b.page
    BY <2>2 DEF TabRows
  <2>4. tab' = c
    BY <1>2, <1>5 DEF TabAfter, LogoutAnswered, Leaves, Cleared, AtLogin
  <2> HIDE DEF a, b, c
  <2>5. cookie' \in {cookie, 0}
    BY <1>2, <1>5 DEF CookieAfter
  <2>6. TabTypes' /\ TabGains /\ tab'.page = "login"
    BY <1>2, <1>3, <2>1, <2>2, <2>3, <2>4, <2>5 DEF TabTypes, TabGains, SessionNumbers
  <2> QED  BY <2>5, <2>6, BareContinue
<1>6. CASE k = "login" /\ calls[k].code # "ok"
  <2>1. tab' = m /\ cookie' = cookie
    BY <1>2, <1>6 DEF TabAfter, LoginAnswered, CookieAfter
  <2>2. TabTypes' /\ TabGains
    BY <1>1, <1>2, <1>3, <2>1 DEF TabTypes, TabGains, SessionNumbers
  <2> QED  BY <1>1, <1>6, <2>1, <2>2, BareContinue
<1>7. CASE k = "me" /\ calls[k].code # "ok"
  <2> DEFINE a == [m EXCEPT !.page = "login", !.loggingOut = FALSE]
  <2>1. a \in TabRows /\ a.csrf = m.csrf /\ a.page = "login"
    BY DEF TabRows
  <2>2. tab' \in {a, m} /\ cookie' = cookie
    BY <1>2, <1>7 DEF TabAfter, MeAnswered, CookieAfter, AtLogin
  <2> HIDE DEF a
  <2>3. TabTypes' /\ TabGains /\ (tab'.page = "shell" => ~Cancels(k))
    BY <1>1, <1>2, <1>3, <1>7, <2>1, <2>2 DEF TabTypes, TabGains, SessionNumbers
  <2> QED  BY <2>2, <2>3, BareContinue
<1> QED  BY <1>4, <1>5, <1>6, <1>7, MeContinue, LoginContinue DEF Kinds

------------------------------------------------------------------------------
LEMMA WebInitially ==
  ASSUME WebInit
  PROVE  WebInv
<1>1. RowsMatch /\ cookie = Len(sessions) /\ Len(sessions) \in Nat
  <2>1. accounts \in [Users -> [active : BOOLEAN, version : Nat]]
        /\ \A u \in Users : accounts[u].version = 1
    BY DEF WebInit
  <2>2. CASE sessions = <<>>
    BY <2>1, <2>2 DEF WebInit, RowsMatch
  <2>3. CASE \E u \in Returning :
               sessions = <<[user |-> u, version |-> 1, live |-> TRUE, password |-> 1]>>
    <3> PICK u \in Users :
           sessions = <<[user |-> u, version |-> 1, live |-> TRUE, password |-> 1]>>
      BY <2>3, WebAssumption
    <3> DEFINE row == [user |-> u, version |-> 1, live |-> TRUE, password |-> 1]
    <3>1. row \in SessionRows /\ row.user = u /\ row.version = 1 /\ row.password = 1
      BY DEF SessionRows
    <3> HIDE DEF row
    <3>2. sessions = <<row>>
      BY DEF row
    <3>3. sessions \in Seq(SessionRows) /\ Len(sessions) = 1 /\ sessions[1] = row
      <4>1. <<row>> \in Seq(SessionRows)
        BY <3>1
      <4>2. Len(<<row>>) = 1 /\ <<row>>[1] = row
        OBVIOUS
      <4> QED  BY <3>2, <4>1, <4>2
    <3> QED  BY <2>1, <3>1, <3>3 DEF WebInit, RowsMatch
  <2> QED  BY <2>2, <2>3 DEF WebInit
<1> PICK n \in Nat : n = cookie
  BY <1>1
<1> DEFINE d == [NoRequest EXCEPT !.step = "sent", !.cookie = n, !.tries = 1]
<1>2. 1 \in 0 .. ReadAttempts
  BY WebAssumption
<1>3. d \in Requests
  BY <1>2, NoRequestRecord DEF NoRequest, Requests, Codes
<1>4. /\ d.step = "sent" /\ d.cookie = n /\ d.csrf = 0 /\ d.session = 0 /\ d.code = "none"
      /\ d.kept
  BY DEF NoRequest
<1>5. \A k \in Kinds : calls[k] = IF k = "me" THEN d ELSE NoRequest
  BY DEF WebInit
<1>6. DOMAIN calls = Kinds /\ calls = [k \in Kinds |-> calls[k]]
  BY DEF WebInit
<1> HIDE DEF d
<1>7. Carries("me", d)
  BY <1>1, <1>3, <1>4 DEF Carries, Numbered, CodeIsLast, Behind, Refused, Presents, Believes,
                          SessionNumbers
<1>8. \A k \in Kinds : Carries(k, NoRequest)
  BY <1>1, NoRequestRecord DEF Carries, Numbered, CodeIsLast, Behind, Refused, Presents,
                               Believes, SessionNumbers
<1>9. CallsCarry
  BY <1>3, <1>5, <1>6, <1>7, <1>8, NoRequestRecord DEF CallsCarry
<1>10. tab \in TabRows /\ tab.csrf = 0 /\ tab.page = "loading"
  BY DEF WebInit, Fresh, TabRows
<1>11. TabTypes /\ TabShowsOwner /\ CancelledIsPast
  BY <1>1, <1>10 DEF TabTypes, TabShowsOwner, CancelledIsPast, SessionNumbers
<1>12. IssuedIsNew
  BY <1>5, NoRequestRecord DEF IssuedIsNew, Kinds
<1>13. WritesAsBelieved
  BY DEF WebInit, WritesAsBelieved
<1> QED  BY <1>1, <1>9, <1>11, <1>12, <1>13 DEF WebInv

LEMMA WebSteps ==
  ASSUME WebInv, [WebNext]_webVars
  PROVE  WebInv'
<1>1. CASE UNCHANGED webVars
  <2>1. RowsMatch' /\ Grows
    BY <1>1, SameRows DEF WebInv, webVars
  <2> QED  BY <1>1, <2>1, RowsStep DEF webVars
<1>2. ASSUME NEW k \in Kinds, Serves(k)
      PROVE  WebInv'
  BY <1>2, ReadSessionStep, HandleStep, ReadUserStep, IssueSessionStep DEF Serves
<1>3. ASSUME NEW k \in Kinds, LoseCall(k) \/ Retry(k) \/ Continue(k) \/ Fetch(k)
      PROVE  WebInv'
  BY <1>3, LoseCallStep, RetryStep, ContinueStep, FetchStep
<1>4. CASE Logout \/ SignOutElsewhere
  BY <1>4, LogoutStep, SignOutElsewhereStep
<1>5. CASE \E u \in Users, p \in 1..(MaxAdminChanges + 1) : Submit(u, p)
  BY <1>5, SubmitStep, WebAssumption
<1>6. CASE \E u \in Users : RotateCredentials(u) \/ SetStatus(u) \/ SignInElsewhere(u)
  BY <1>6, AdminStep, SignInElsewhereStep
<1>7. CASE \E s \in DOMAIN sessions : Expire(s)
  BY <1>7, AdminStep
<1> QED  BY <1>1, <1>2, <1>3, <1>4, <1>5, <1>6, <1>7 DEF WebNext

LEMMA WebInvariant == WebSpec => []WebInv
<1> QED  BY WebInitially, WebSteps, PTL DEF WebSpec

(* No request is admitted with a session whose login presented a password  *)
(* that had been replaced when the request came in, wherever the rotation  *)
(* fell in the login (auth/session.ts:44-93, users.ts:94-108).             *)
THEOREM ReplacedPasswordIsOut == WebSpec => []OldPasswordIsOut
<1>1. WebInv => OldPasswordIsOut
  BY DEF WebInv, CallsCarry, Carries, Refused, OldPasswordIsOut
<1> QED  BY <1>1, WebInvariant, PTL

(* A write is admitted only for the user the tab showed when it was sent,  *)
(* or with a stray token: whatever other tabs, late answers and lost calls *)
(* do to the cookie and to the token (csrf.ts:70-79, api-client.ts:613).   *)
THEOREM WritesAreAsBelieved == WebSpec => []WritesAsBelieved
<1>1. WebInv => WritesAsBelieved
  BY DEF WebInv
<1> QED  BY <1>1, WebInvariant, PTL
==============================================================================
