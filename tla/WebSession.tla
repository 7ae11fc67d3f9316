----------------------------- MODULE WebSession -----------------------------
(***************************************************************************)
(* Who is signed in: the worker's auth sessions (apps/worker auth and      *)
(* middleware) and a tab of the browser (api-client.ts, query-cache.ts,    *)
(* the router, AppShell and LoginPage), which shares its cookie with other *)
(* tabs: of these one sees that the cookie changes.                        *)
(*                                                                         *)
(* A request carries the cookie and the CSRF token of the moment it is     *)
(* sent.  The worker reads the session row, then the user row, then acts;  *)
(* the seed-users tool rotates credentials and other requests run between. *)
(* Requests and answers may be lost; a read is then sent again.            *)
(*                                                                         *)
(* A CSRF token is derived from its session, so it is named by it; a       *)
(* password is named by its generation, which rotates with the version.    *)
(* A read that a sign-out cancelled is sent again by the API client all    *)
(* the same, under whatever cookie there is by then: such a read, and the  *)
(* token that it hands to the tab, is called stray.                        *)
(***************************************************************************)
EXTENDS Naturals, Sequences, FiniteSets

CONSTANTS
  Users, Nobody,
  Returning,                                          \* users with a session
  ReadAttempts,                                       \* attempts of a read
  MaxAuthSessions, MaxAdminChanges, MaxCallsLost,     \* bounds, and at most
  MaxOutstanding                                      \* so many calls at once

ASSUME WebAssumption ==
  /\ Nobody \notin Users /\ Returning \subseteq Users
  /\ ReadAttempts \in Nat \ {0}
  /\ {MaxAuthSessions, MaxAdminChanges, MaxCallsLost, MaxOutstanding} \subseteq Nat

VARIABLES
  accounts,   \* app_user: status and session_version
  sessions,   \* auth_session, and the password its login presented
  cookie,     \* the session the browser's cookie holds, 0 without one
  tab,        \* what the tab keeps in memory
  calls,      \* the outstanding request of each kind of the tab
  accepted,   \* history: [believed, user, stray] of the writes admitted
  changes, gone

webVars == <<accounts, sessions, cookie, tab, calls, accepted, changes, gone>>

Kinds == {"me", "read", "write", "logout", "login"}
Reads == {"me", "read"}
Codes == {"none", "ok", "denied", "csrf", "refused", "lost"}

NoRequest ==
  [step |-> "none", cookie |-> 0, csrf |-> 0, user |-> Nobody, password |-> 0,
   version |-> 0, believed |-> Nobody, tries |-> 0, dead |-> FALSE, kept |-> TRUE,
   stray |-> FALSE, code |-> "none", session |-> 0]

Fresh == [page |-> "loading", csrf |-> 0, signaled |-> FALSE, me |-> Nobody,
          stray |-> FALSE, loggingOut |-> FALSE]

(* buildHeaders: the token rides on writes; the browser adds the cookie.   *)
Sent(kind) ==
  [NoRequest EXCEPT !.step = "sent", !.cookie = cookie, !.tries = 1,
     !.csrf = IF kind \in Reads THEN 0 ELSE tab.csrf,
     !.stray = kind = "write" /\ tab.stray,
     !.believed = IF kind = "write" THEN tab.me ELSE Nobody]

(* A visitor without a session, or one that comes back with a cookie.      *)
WebInit ==
  /\ accounts = [u \in Users |-> [active |-> TRUE, version |-> 1]]
  /\ sessions \in {<<>>} \union
       {<<[user |-> u, version |-> 1, live |-> TRUE, password |-> 1]>> : u \in Returning}
  /\ cookie = Len(sessions)
  /\ tab = Fresh
  /\ calls = [k \in Kinds |->
       IF k = "me" THEN [NoRequest EXCEPT !.step = "sent", !.cookie = cookie, !.tries = 1]
       ELSE NoRequest]
  /\ accepted = {}
  /\ changes = 0 /\ gone = 0

------------------------------------------------------------------------------
(* The worker.                                                             *)

Answers(k, code, s) ==
  calls' = [calls EXCEPT ![k] =
    [NoRequest EXCEPT !.step = "answered", !.code = code, !.session = s,
                      !.tries = IF code = "lost" THEN calls[k].tries ELSE 0,
                      !.kept = calls[k].kept, !.dead = calls[k].dead,
                      !.stray = calls[k].stray]]

Unknown(c) == c.cookie = 0 \/ ~sessions[c.cookie].live

(* resolveSession, up to the session row: unknown, revoked or expired.     *)
ReadSession(k) ==
  LET c == calls[k] IN
  /\ c.step = "sent" /\ k # "login"
  /\ IF Unknown(c)
     THEN Answers(k, "denied", 0)
     ELSE LET s == sessions[c.cookie]
          IN  calls' = [calls EXCEPT ![k] =
               [c EXCEPT !.step = "session", !.user = s.user, !.version = s.version,
                         !.dead = (s.password # accounts[s.user].version)]]
  /\ UNCHANGED <<accounts, sessions, cookie, tab, accepted, changes, gone>>

Admits(c) == accounts[c.user].active /\ accounts[c.user].version = c.version

(* Fault: any signed-in caller may write.                                  *)
CsrfUnchecked(k, c) == k \in Reads \/ c.csrf # 0

CsrfMatches(k, c) == k \in Reads \/ c.csrf = c.cookie

(* The user row, the CSRF token of a write, and the handler.  The touch of *)
(* last_used_at changes nothing that is read.                              *)
Handle(k) ==
  LET c == calls[k] IN
  /\ c.step = "session"
  /\ \/ ~Admits(c) /\ Answers(k, "denied", 0) /\ UNCHANGED <<sessions, accepted>>
     \/ /\ Admits(c) /\ ~CsrfMatches(k, c)
        /\ Answers(k, "csrf", 0) /\ UNCHANGED <<sessions, accepted>>
     \/ /\ Admits(c) /\ CsrfMatches(k, c)
        /\ Answers(k, "ok", c.cookie)
        /\ sessions' = IF k = "logout" THEN [sessions EXCEPT ![c.cookie].live = FALSE]
                                       ELSE sessions
        /\ accepted' = IF k = "write"
                       THEN accepted \union
                            {[believed |-> c.believed, user |-> c.user, stray |-> c.stray]}
                       ELSE accepted
  /\ UNCHANGED <<accounts, cookie, tab, changes, gone>>

(* Login: the rate limit, the user row, the password and the status.       *)
ReadUser ==
  LET c == calls["login"] IN
  /\ c.step = "sent"
  /\ \/ Answers("login", "refused", 0)                        \* RATE_LIMITED
     \/ /\ c.password # accounts[c.user].version
        /\ Answers("login", "denied", 0)                      \* invalid credentials
     \/ /\ c.password = accounts[c.user].version /\ ~accounts[c.user].active
        /\ Answers("login", "refused", 0)                     \* AUTH_ACCOUNT_DISABLED
     \/ /\ c.password = accounts[c.user].version /\ accounts[c.user].active
        /\ calls' = [calls EXCEPT !["login"] =
             [c EXCEPT !.step = "session", !.version = accounts[c.user].version]]
  /\ UNCHANGED <<accounts, sessions, cookie, tab, accepted, changes, gone>>

(* Fault: the version is read again when the session is issued.            *)
CurrentVersion(c) == accounts[c.user].version

VersionIssued(c) == c.version

IssueSession ==
  LET c == calls["login"] IN
  /\ c.step = "session"
  /\ sessions' = Append(sessions, [user |-> c.user, version |-> VersionIssued(c),
                                   live |-> TRUE, password |-> c.password])
  /\ Answers("login", "ok", Len(sessions) + 1)
  /\ UNCHANGED <<accounts, cookie, tab, accepted, changes, gone>>

Serves(k) ==
  \/ ReadSession(k)
  \/ k # "login" /\ Handle(k)
  \/ k = "login" /\ (ReadUser \/ IssueSession)

Expire(s) ==
  /\ sessions[s].live /\ changes < MaxAdminChanges
  /\ sessions' = [sessions EXCEPT ![s].live = FALSE]
  /\ changes' = changes + 1
  /\ UNCHANGED <<accounts, cookie, tab, calls, accepted, gone>>

(* seed-users gives an account a new password.                             *)
RotateCredentials(u) ==
  /\ changes < MaxAdminChanges
  /\ accounts' = [accounts EXCEPT ![u].version = @ + 1]
  /\ changes' = changes + 1
  /\ UNCHANGED <<sessions, cookie, tab, calls, accepted, gone>>

SetStatus(u) ==
  /\ changes < MaxAdminChanges
  /\ accounts' = [accounts EXCEPT ![u].active = ~@]
  /\ changes' = changes + 1
  /\ UNCHANGED <<sessions, cookie, tab, calls, accepted, gone>>

(* The request or its answer is lost; what the worker did stays done.      *)
LoseCall(k) ==
  /\ calls[k].step # "none" /\ calls[k].code # "lost" /\ gone < MaxCallsLost
  /\ Answers(k, "lost", 0)
  /\ gone' = gone + 1
  /\ UNCHANGED <<accounts, sessions, cookie, tab, accepted, changes>>

------------------------------------------------------------------------------
(* The tab.  clearPersonalState cancels the reads under way, but the API  *)
(* client still sees their answers.                                        *)

Cleared(m) == [m EXCEPT !.me = Nobody]
AtLogin(m) == [m EXCEPT !.page = "login", !.loggingOut = FALSE]

Cancelled(own) == [k \in Kinds |-> IF k \in Reads /\ own[k].step # "none"
                                   THEN [own[k] EXCEPT !.kept = FALSE] ELSE own[k]]

Wired(m) == m.page = "shell"

Signals(m) == ~m.signaled

(* signalUnauthorized with the handler of the mounted shell.               *)
Signalled(m) ==
  IF Signals(m) /\ Wired(m) THEN Cleared(AtLogin([m EXCEPT !.signaled = TRUE]))
                            ELSE [m EXCEPT !.signaled = TRUE]

Done(k) == [calls EXCEPT ![k] = NoRequest]
Owner(s) == IF s = 0 THEN Nobody ELSE sessions[s].user

MayRetry(k, c) == k \in Reads /\ c.code = "lost" /\ c.tries < ReadAttempts

Retry(k) ==
  LET c == calls[k] IN
  /\ c.step = "answered" /\ MayRetry(k, c)
  /\ calls' = [calls EXCEPT ![k] =
                 [Sent(k) EXCEPT !.tries = c.tries + 1, !.kept = c.kept,
                                 !.stray = ~c.kept]]
  /\ UNCHANGED <<accounts, sessions, cookie, tab, accepted, changes, gone>>

Expired(k) == calls[k].code \in {"denied", "csrf"}

(* What request() does with the answer, before its caller sees it.         *)
AfterRequest(k) == IF Expired(k) THEN Signalled(tab) ELSE tab
CallsAfter(k) ==
  IF Expired(k) /\ Signals(tab) /\ Wired(tab)
  THEN Cancelled(Done(k)) ELSE Done(k)

(* A failed read of the session probe redirects, whatever the error.       *)
MeAnswered ==
  LET c == calls["me"]
      seen == AfterRequest("me")
  IN  IF c.code = "ok"
      THEN LET known == [seen EXCEPT !.csrf = c.session, !.stray = c.stray,
                                     !.signaled = FALSE]
           IN  IF c.kept
               THEN [known EXCEPT !.me = Owner(c.session),
                       !.page = IF @ = "loading" THEN "shell" ELSE @]
               ELSE known
      ELSE IF c.kept /\ seen.page # "login" THEN AtLogin(seen) ELSE seen

LoginAnswered ==
  LET c == calls["login"]
      seen == AfterRequest("login")
  IN  IF c.code = "ok"
      THEN [seen EXCEPT !.csrf = c.session, !.stray = FALSE, !.signaled = FALSE,
                        !.me = Owner(c.session), !.page = "shell"]
      ELSE seen

(* Fault: a logout that fails leaves the page waiting.                     *)
IfServed(m) == IF calls["logout"].code = "ok" THEN Cleared(AtLogin(m)) ELSE m

Leaves(m) == Cleared(AtLogin(m))

(* handleLogout: success or not, the state is cleared and login is shown.  *)
LogoutAnswered == Leaves([AfterRequest("logout") EXCEPT !.csrf = 0])

TabAfter(k) ==
  CASE k = "me" -> MeAnswered
    [] k \in {"read", "write"} -> AfterRequest(k)
    [] k = "login" -> LoginAnswered
    [] k = "logout" -> LogoutAnswered

(* Another tab logs in or out.                                             *)
SignInElsewhere(u) ==
  /\ changes < MaxAdminChanges /\ Len(sessions) < MaxAuthSessions
  /\ accounts[u].active
  /\ sessions' = Append(sessions, [user |-> u, version |-> accounts[u].version,
                                   live |-> TRUE, password |-> accounts[u].version])
  /\ cookie' = Len(sessions) + 1
  /\ changes' = changes + 1
  /\ UNCHANGED <<accounts, tab, calls, accepted, gone>>

SignOutElsewhere ==
  /\ changes < MaxAdminChanges /\ cookie # 0
  /\ sessions' = [sessions EXCEPT ![cookie].live = FALSE]
  /\ cookie' = 0
  /\ changes' = changes + 1
  /\ UNCHANGED <<accounts, tab, calls, accepted, gone>>

(* Set-Cookie of a login, the deleted cookie of a logout.                  *)
CookieAfter(k, c) ==
  IF c.code # "ok" THEN cookie
  ELSE IF k = "login" THEN c.session ELSE IF k = "logout" THEN 0 ELSE cookie

Continue(k) ==
  LET c == calls[k] IN
  /\ c.step = "answered" /\ ~MayRetry(k, c)
  /\ tab' = TabAfter(k)
  /\ calls' = IF k = "logout" THEN Cancelled(Done(k)) ELSE CallsAfter(k)
  /\ cookie' = CookieAfter(k, c)
  /\ UNCHANGED <<accounts, sessions, accepted, changes, gone>>

Outstanding == {k \in Kinds : calls[k] # NoRequest}

Asks(k) ==
  /\ calls[k] = NoRequest /\ Cardinality(Outstanding) < MaxOutstanding
  /\ calls' = [calls EXCEPT ![k] = Sent(k)]

(* A page mounts or the network comes back: stale queries are read again.  *)
Fetch(k) ==
  /\ tab.page = "shell" /\ k \in {"me", "read", "write"}
  /\ Asks(k)
  /\ UNCHANGED <<accounts, sessions, cookie, tab, accepted, changes, gone>>

Logout ==
  /\ tab.page = "shell" /\ ~tab.loggingOut
  /\ Asks("logout")
  /\ tab' = [tab EXCEPT !.loggingOut = TRUE]
  /\ UNCHANGED <<accounts, sessions, cookie, accepted, changes, gone>>

(* The right password of the moment, or one from before a rotation.        *)
Submit(u, p) ==
  /\ tab.page = "login" /\ p <= accounts[u].version
  /\ calls["login"] = NoRequest /\ Cardinality(Outstanding) < MaxOutstanding
  /\ Len(sessions) < MaxAuthSessions
  /\ calls' = [calls EXCEPT !["login"] =
                 [Sent("login") EXCEPT !.user = u, !.password = p]]
  /\ UNCHANGED <<accounts, sessions, cookie, tab, accepted, changes, gone>>

WebNext ==
  \/ \E k \in Kinds :
       Serves(k) \/ LoseCall(k) \/ Retry(k) \/ Continue(k) \/ Fetch(k)
  \/ Logout \/ SignOutElsewhere
  \/ \E u \in Users, p \in 1..(MaxAdminChanges + 1) : Submit(u, p)
  \/ \E u \in Users : RotateCredentials(u) \/ SetStatus(u) \/ SignInElsewhere(u)
  \/ \E s \in DOMAIN sessions : Expire(s)

Advances(k) == Serves(k) \/ Retry(k) \/ Continue(k)

(* The worker serves, the browser delivers and retries.                    *)
WebFairness == \A k \in Kinds : WF_webVars(Advances(k))

WebSpec == WebInit /\ [][WebNext]_webVars /\ WebFairness

------------------------------------------------------------------------------
Requests ==
  [step : {"none", "sent", "session", "answered"}, cookie : Nat, csrf : Nat,
   user : Users \union {Nobody}, password : Nat, version : Nat,
   believed : Users \union {Nobody}, tries : 0..ReadAttempts, dead : BOOLEAN,
   kept : BOOLEAN, stray : BOOLEAN, code : Codes, session : Nat]

(* No request is admitted with a session whose login presented a password  *)
(* that had been replaced when the request came in: also not when the      *)
(* rotation fell between the login's read of the user and the insert of    *)
(* its session (auth/session.ts:44-93, users.ts:94-108).                   *)
OldPasswordIsOut ==
  \A k \in Kinds \ {"login"} :
    calls[k].dead => calls[k].code \notin {"ok", "csrf"}

(* A write is admitted only for the user the tab showed when it was sent,  *)
(* although another tab may have changed the cookie and a late answer the  *)
(* token (csrf.ts:70-79, api-client.ts:613-639): but for a token from a    *)
(* read of before the last sign-in that was sent again after it.           *)
WritesAsBelieved == \A w \in accepted : w.believed = w.user \/ w.stray

(* A logout ends at the login page, and the probe of a loading tab ends,   *)
(* with the network or without it.                                         *)
SignOutEnds ==
  /\ tab.loggingOut ~> ~tab.loggingOut
  /\ tab.page = "loading" ~> tab.page # "loading"
==============================================================================
