----------------------------- MODULE OfflineCache ----------------------------
(***************************************************************************)
(* The service worker of the web application (apps/web/src/sw.ts): the     *)
(* shell cache of each build, the content caches of the releases, the      *)
(* audio cache, and the message by which a logout drops the last two.      *)
(* Handlers await the network and Cache Storage, so requests, the switch   *)
(* to another release, a logout and the activation of a new build run      *)
(* into each other; the release that a worker has seen is in its memory    *)
(* only.  A put follows its open at once: a cache deleted between them     *)
(* takes the response with it, as if the put had come before.              *)
(***************************************************************************)
EXTENDS Naturals, FiniteSets

CONSTANTS Releases, Slots,       \* requests under way at a time
          Unknown,               \* no release
          LastBuild,             \* bounds: builds of the frontend,
          MaxSessions,           \* logins,
          MaxSwitches            \* and activations of a release

ASSUME OfflineAssumption ==
  /\ Unknown \notin Releases
  /\ LastBuild \in Nat \ {0} /\ {MaxSessions, MaxSwitches} \subseteq Nat

VARIABLES
  workers,   \* of every build: how far it is, and activeReleaseId
  control,   \* the build whose worker controls the page, 0 without one
  caches,    \* the names in Cache Storage
  stored,    \* [cache, from, spans]: what is in them, from which session,
             \* and whether its request was under way at the end of it
  requests,  \* the request in every slot
  jobs,      \* deletions under way
  session,   \* the login of the page, 0 after a logout; logins so far
  served     \* the release that the server serves; switches so far

offlineVars == <<workers, control, caches, stored, requests, jobs, session, served>>

Shell(b) == [kind |-> "shell", of |-> b]
Content(r) == [kind |-> "content", of |-> r]
Audio == [kind |-> "audio", of |-> 0]

NoRequest == [step |-> "none", kind |-> "none", by |-> 0, from |-> 0, release |-> Unknown,
              cache |-> Audio, spans |-> FALSE]

OfflineInit ==
  /\ workers = [b \in 1 .. LastBuild |-> [state |-> "none", release |-> Unknown]]
  /\ control = 0 /\ caches = {} /\ stored = {} /\ jobs = {}
  /\ requests = [s \in Slots |-> NoRequest]
  /\ session = [now |-> 0, count |-> 0]
  /\ \E r \in Releases : served = [release |-> r, count |-> 0]

-------------------------------------------------------------------------------
(* Deletions: the names are listed, and then all of them deleted at once:  *)
(* a put between two of the deletions is one before or after them.  The    *)
(* activation then claims the page, also one without a worker.             *)

(* Fault: the audio cache is taken for a part of the shell.                *)
DropContent(names) == {n \in names : n.kind = "content"}

CachesToDeleteOnLogout(names) == {n \in names : n.kind = "content" \/ n = Audio}

PruneContentCacheNames(names, r) == {n \in names : n.kind = "content" /\ n # Content(r)}

StaleShellCacheNames(names, b) == {n \in names : n.kind = "shell" /\ n # Shell(b)}

Doomed(j) == CASE j.why = "logout" -> CachesToDeleteOnLogout(caches)
               [] j.why = "switch" -> PruneContentCacheNames(caches, j.release)
               [] j.why = "activate" -> StaleShellCacheNames(caches, j.by)

Job(why, b, r) == [why |-> why, by |-> b, release |-> r, step |-> "list", names |-> {}]

ListCaches(j) ==
  /\ j.step = "list"
  /\ jobs' = (jobs \ {j}) \cup {[j EXCEPT !.step = "delete", !.names = Doomed(j)]}
  /\ UNCHANGED <<workers, control, caches, stored, requests, session, served>>

DeleteCaches(j) ==
  /\ j.step = "delete"
  /\ caches' = caches \ j.names
  /\ stored' = {e \in stored : e.cache \notin j.names}
  /\ jobs' = jobs \ {j}
  /\ control' = IF j.why = "activate" THEN j.by ELSE control
  /\ UNCHANGED <<workers, requests, session, served>>

-------------------------------------------------------------------------------
(* The life of a worker.                                                   *)

(* install: the shell is fetched and kept, or the worker is not installed; *)
(* skipWaiting and activate follow.  The browser activates one worker at a *)
(* time, gives it the pages that the old one controls, and holds their     *)
(* requests until it has activated.                                        *)
Install(b) ==
  /\ workers[b].state = "none"
  /\ \A c \in 1 .. b - 1 : workers[c].state # "none"
  /\ \A j \in jobs : j.why # "activate"
  /\ caches' = caches \cup {Shell(b)}
  /\ stored' = stored \cup {[cache |-> Shell(b), from |-> 0, spans |-> FALSE]}
  /\ workers' = [c \in DOMAIN workers |->
       IF c = b THEN [workers[c] EXCEPT !.state = "active"]
       ELSE IF workers[c].state = "active" THEN [workers[c] EXCEPT !.state = "redundant"]
       ELSE workers[c]]
  /\ control' = IF control = 0 THEN 0 ELSE b
  /\ jobs' = jobs \cup {Job("activate", b, Unknown)}
  /\ UNCHANGED <<requests, session, served>>

(* An idle worker is stopped, and its memory with it.                      *)
StopWorker(b) ==
  /\ workers[b].release # Unknown
  /\ \A s \in Slots : requests[s].by # b
  /\ \A j \in jobs : j.by # b
  /\ workers' = [workers EXCEPT ![b].release = Unknown]
  /\ UNCHANGED <<control, caches, stored, requests, jobs, session, served>>

-------------------------------------------------------------------------------
(* The fetch handler.                                                      *)

(* classifyRequest: of what the page asks for, content and audio are of    *)
(* the logged-in; the personal API never comes here.                       *)
ClassifyRequest == {"bootstrap", "content", "audio", "static"}

Request(s, kind) ==
  /\ requests[s] = NoRequest /\ control # 0
  /\ \A j \in jobs : j.why # "activate"
  /\ kind \in ClassifyRequest
  /\ kind = "static" \/ session.now # 0
  /\ ~\E e \in stored : kind = "audio" /\ e.cache = Audio       \* answered from the cache
  /\ requests' = [requests EXCEPT ![s] =
       [NoRequest EXCEPT !.step = "asked", !.kind = kind, !.by = control, !.from = session.now]]
  /\ UNCHANGED <<workers, control, caches, stored, jobs, session, served>>

(* A request is over when it is written and observed.                      *)
Ended(q) == IF q.step = "written" /\ q.release = Unknown THEN NoRequest ELSE q

(* The response is written through to the cache of its kind; content to    *)
(* the release known at this moment, if any.  A bootstrap is also observed.*)
Respond(s) ==
  LET q == requests[s]
      known == workers[q.by].release
      target == CASE q.kind = "static" -> Shell(q.by)
                  [] q.kind = "audio" -> Audio
                  [] OTHER -> Content(known)
  IN
  /\ q.step = "asked"
  /\ requests' = [requests EXCEPT ![s] =
       Ended([q EXCEPT !.step = IF target = Content(Unknown) THEN "written" ELSE "write",
                       !.release = IF q.kind = "bootstrap" THEN served.release ELSE Unknown,
                       !.cache = target])]
  /\ UNCHANGED <<workers, control, caches, stored, jobs, session, served>>

(* The network or the server fails, or the worker is stopped before the    *)
(* write: there is no fallback for anything but a navigation.              *)
Fail(s) ==
  /\ requests[s].step \in {"asked", "write"}
  /\ requests' = [requests EXCEPT ![s] = NoRequest]
  /\ UNCHANGED <<workers, control, caches, stored, jobs, session, served>>

WriteThrough(s) ==
  LET q == requests[s] IN
  /\ q.step = "write"
  /\ caches' = caches \cup {q.cache}
  /\ stored' = stored \cup {[cache |-> q.cache, from |-> q.from, spans |-> q.spans]}
  /\ requests' = [requests EXCEPT ![s] = Ended([q EXCEPT !.step = "written"])]
  /\ UNCHANGED <<workers, control, jobs, session, served>>

(* activateRelease: a release that is not the known one becomes it, and    *)
(* the caches of others are pruned.                                        *)
Observe(s) ==
  LET q == requests[s] IN
  /\ q.step \in {"write", "written"} /\ q.release # Unknown
  /\ workers' = [workers EXCEPT ![q.by].release = q.release]
  /\ jobs' = IF workers[q.by].release = q.release THEN jobs
             ELSE jobs \cup {Job("switch", q.by, q.release)}
  /\ requests' = [requests EXCEPT ![s] = Ended([q EXCEPT !.release = Unknown])]
  /\ UNCHANGED <<control, caches, stored, session, served>>

-------------------------------------------------------------------------------
(* The page and the server.                                                *)

Login ==
  /\ session.now = 0 /\ session.count < MaxSessions
  /\ session' = [now |-> session.count + 1, count |-> session.count + 1]
  /\ UNCHANGED <<workers, control, caches, stored, requests, jobs, served>>

(* clearPersonalState posts the message to the worker in control, which    *)
(* forgets the release and drops the caches.                               *)
ClearPersonalState ==
  /\ session.now # 0
  /\ session' = [session EXCEPT !.now = 0]
  /\ requests' = [s \in Slots |-> [requests[s] EXCEPT !.spans = requests[s] # NoRequest]]
  /\ workers' = [b \in DOMAIN workers |->
       IF b = control THEN [workers[b] EXCEPT !.release = Unknown] ELSE workers[b]]
  /\ jobs' = IF control = 0 THEN jobs ELSE jobs \cup {Job("logout", control, Unknown)}
  /\ UNCHANGED <<control, caches, stored, served>>

SwitchRelease(r) ==
  /\ r # served.release /\ served.count < MaxSwitches
  /\ served' = [release |-> r, count |-> served.count + 1]
  /\ UNCHANGED <<workers, control, caches, stored, requests, jobs, session>>

OfflineNext ==
  \/ \E j \in jobs : ListCaches(j) \/ DeleteCaches(j)
  \/ \E b \in DOMAIN workers : Install(b) \/ StopWorker(b)
  \/ \E s \in Slots :
       \/ \E kind \in ClassifyRequest : Request(s, kind)
       \/ Respond(s) \/ Fail(s) \/ WriteThrough(s) \/ Observe(s)
  \/ Login \/ ClearPersonalState
  \/ \E r \in Releases : SwitchRelease(r)

OfflineSpec == OfflineInit /\ [][OfflineNext]_offlineVars

-------------------------------------------------------------------------------
(* "The logout message ... deletes every content and audio cache; the      *)
(* static shell precache survives" (sw.ts:27-29): once no deletion is      *)
(* under way, content and audio are of the session that is on, or of a     *)
(* request that was under way when its session ended; and the worker in   *)
(* control has its shell.                                                  *)
ClearedAtLogout ==
  jobs = {} =>
    /\ \A e \in stored : e.cache.kind # "shell" => e.from = session.now \/ e.spans
    /\ control # 0 => \E e \in stored : e.cache = Shell(control)
==============================================================================
