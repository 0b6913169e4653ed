---------------------------- MODULE SessionAuth ----------------------------
(***************************************************************************)
(* Sessions and session login: the session manager and its memory store    *)
(* (framework/session), the guard (framework/auth) and the session and     *)
(* auth middlewares, for one browser.  A handler runs under the session    *)
(* middleware and, on protected routes, under Auth as well, which starts   *)
(* the session a second time.  who is the reference: the user of the last  *)
(* login or logout a handler completed, nobody after the store evicts the  *)
(* session.                                                                *)
(***************************************************************************)
EXTENDS Naturals, FiniteSets

CONSTANTS
  User,        \* account ids, positive numbers
  PageRequest, \* requests of the browser, numbers in the order they are made
  Overlap,     \* how many of them may run at once
  MaxID        \* bound on the session ids that are drawn

ASSUME SessionAssumption ==
  User \subseteq Nat \ {0} /\ Overlap \in Nat /\ MaxID \in Nat

Nobody == 0
NoID == 0

VARIABLES
  savesFirst, \* handlers call Manager.Save before they write the response
  store,   \* MemoryStore: id -> data (the user it carries, and whether it has other data)
  rotated, \* ids that Regenerate drew; the others come from create
  nextID,  \* the next id generateID draws
  cookie,  \* the browser's cookie
  page,    \* where each request is
  mixed,   \* two requests have run at the same time
  who

sessVars == <<savesFirst, store, rotated, nextID, cookie, page, mixed, who>>

Empty == [user |-> Nobody, note |-> FALSE]
NoSession == [id |-> NoID, data |-> Empty, dirty |-> FALSE]
NoEntry == [id |-> NoID]
Idle == [pc |-> "idle", sess |-> NoSession, outer |-> NoSession, under |-> FALSE,
         taken |-> NoEntry, as |-> Nobody, setCookie |-> NoID, committed |-> FALSE]

Stored == DOMAIN store
Put(id, data) == [i \in Stored \union {id} |-> IF i = id THEN data ELSE store[i]]
Drop(id) == [i \in Stored \ {id} |-> store[i]]

SessTypeOK ==
  /\ savesFirst \in BOOLEAN
  /\ Stored \subseteq 1..MaxID /\ \A i \in Stored : store[i] \in [user : User \union {Nobody}, note : BOOLEAN]
  /\ rotated \subseteq 1..MaxID /\ nextID \in 1..MaxID+1
  /\ mixed \in BOOLEAN /\ cookie \in 0..MaxID /\ who \in User \union {Nobody}
  /\ \A r \in PageRequest : page[r].pc \in {"idle", "handler", "rotating", "answered", "saved", "done"}

SessInit ==
  /\ savesFirst \in BOOLEAN
  /\ store = <<>> /\ rotated = {} /\ nextID = 1 /\ cookie = NoID
  /\ page = [r \in PageRequest |-> Idle] /\ mixed = FALSE /\ who = Nobody

Running == {r \in PageRequest : page[r].pc \notin {"idle", "done"}}

\* Manager.Start: the stored session (a copy of its data), or a new one whose
\* cookie is set at once and which is only stored by Save.
Start(fresh) ==
  IF cookie \in Stored
  THEN [id |-> cookie, data |-> store[cookie], dirty |-> FALSE]
  ELSE [id |-> fresh, data |-> Empty, dirty |-> TRUE]

\* The session middleware, alone or with Auth after it, which starts the
\* session again: CurrentSession is the session of the innermost one, and so is
\* the last cookie set.  Auth answers a request that carries no user.
Begin(r, protected) ==
  /\ page[r].pc = "idle" /\ nextID < MaxID
  /\ \A q \in PageRequest : q < r => page[q].pc # "idle"
  /\ Cardinality(Running) < Overlap
  /\ LET first == Start(nextID)
         second == IF protected THEN Start(nextID + 1) ELSE first
         denied == protected /\ second.data.user = Nobody
     IN /\ page' = [page EXCEPT ![r] =
             [Idle EXCEPT !.pc = IF denied THEN "answered" ELSE "handler",
                !.sess = second, !.outer = first, !.under = protected,
                !.setCookie = IF second.dirty THEN second.id ELSE NoID, !.committed = denied]]
        /\ nextID' = IF first.dirty THEN second.id + 1 ELSE nextID
  /\ mixed' = (mixed \/ Running # {})
  /\ UNCHANGED <<savesFirst, store, rotated, cookie, who>>

\* Both sessions of an unprotected request are the same object.
SetSession(r, s) ==
  page' = [page EXCEPT ![r].sess = s, ![r].outer = IF page[r].under THEN @ ELSE s]

\* Session.Set, Delete, Flash: a handler changes other data.
Remember(r) ==
  /\ page[r].pc = "handler" /\ ~page[r].sess.data.note
  /\ SetSession(r, [page[r].sess EXCEPT !.data.note = TRUE, !.dirty = TRUE])
  /\ UNCHANGED <<savesFirst, store, rotated, nextID, cookie, mixed, who>>

\* Guard.Attempt with the right password.  MemoryStore.Regenerate takes the old
\* entry out under the lock, draws an id and stores the entry under it in a
\* second step; then the session gets the new id and the user.
Attempt(r, u) ==
  /\ page[r].pc = "handler"
  /\ store' = Drop(page[r].sess.id)
  /\ page' = [page EXCEPT ![r].pc = "rotating", ![r].as = u,
       ![r].taken = IF page[r].sess.id \in Stored THEN store[page[r].sess.id] ELSE NoEntry]
  /\ UNCHANGED <<savesFirst, rotated, nextID, cookie, mixed, who>>

\* Mutant of Rotate: the session keeps its id.
NoRotation(r) ==
  /\ page[r].pc = "rotating"
  /\ LET new == [page[r].sess EXCEPT !.data.user = page[r].as, !.dirty = TRUE] IN
     page' = [page EXCEPT ![r].pc = "handler", ![r].taken = NoEntry, ![r].as = Nobody,
                        ![r].sess = new, ![r].outer = IF page[r].under THEN @ ELSE new]
  /\ who' = page[r].as
  /\ UNCHANGED <<savesFirst, store, rotated, nextID, cookie, mixed>>

Rotate(r) ==
  /\ page[r].pc = "rotating" /\ nextID <= MaxID
  /\ LET new == [page[r].sess EXCEPT !.id = nextID, !.data.user = page[r].as, !.dirty = TRUE] IN
     page' = [page EXCEPT ![r].pc = "handler", ![r].taken = NoEntry, ![r].as = Nobody,
                        ![r].sess = new, ![r].outer = IF page[r].under THEN @ ELSE new]
  /\ store' = IF page[r].taken = NoEntry THEN store ELSE Put(nextID, page[r].taken)
  /\ rotated' = rotated \union {nextID} /\ nextID' = nextID + 1
  /\ who' = page[r].as
  /\ UNCHANGED <<savesFirst, cookie, mixed>>

\* Guard.Logout
Logout(r) ==
  /\ page[r].pc = "handler" /\ page[r].sess.data.user # Nobody
  /\ SetSession(r, [page[r].sess EXCEPT !.data.user = Nobody, !.dirty = TRUE])
  /\ who' = Nobody
  /\ UNCHANGED <<savesFirst, store, rotated, nextID, cookie, mixed>>

\* Mutant of SaveCookie: Save does not set the cookie.
CookieLost(r, s) == page[r].setCookie

\* Manager.Save: nothing unless the session is dirty; the cookie reaches the
\* browser only if the headers of the response are not yet written.
SaveCookie(r, s) == IF s.dirty /\ ~page[r].committed THEN s.id ELSE page[r].setCookie
SaveStore(s) == IF s.dirty THEN Put(s.id, s.data) ELSE store

\* A handler that saves its session before it answers.
HandlerSave(r) ==
  /\ savesFirst /\ page[r].pc = "handler" /\ page[r].sess.dirty
  /\ store' = SaveStore(page[r].sess)
  /\ LET clean == [page[r].sess EXCEPT !.dirty = FALSE] IN
     page' = [page EXCEPT ![r].setCookie = SaveCookie(r, page[r].sess), ![r].sess = clean,
                        ![r].outer = IF page[r].under THEN @ ELSE clean]
  /\ UNCHANGED <<savesFirst, rotated, nextID, cookie, mixed, who>>

\* The handler returns, having written a response, which commits the headers,
\* or none.
Return(r, writes) ==
  /\ page[r].pc = "handler" /\ (savesFirst => ~page[r].sess.dirty)
  /\ page' = [page EXCEPT ![r].pc = "answered", ![r].committed = writes]
  /\ UNCHANGED <<savesFirst, store, rotated, nextID, cookie, mixed, who>>

\* The session middleware saves the session it started itself.
MiddlewareSave(r) ==
  /\ page[r].pc = "answered"
  /\ store' = SaveStore(page[r].outer)
  /\ page' = [page EXCEPT ![r].pc = "saved", ![r].setCookie = SaveCookie(r, page[r].outer)]
  /\ UNCHANGED <<savesFirst, rotated, nextID, cookie, mixed, who>>

Deliver(r) ==
  /\ page[r].pc = "saved"
  /\ cookie' = IF page[r].setCookie # NoID THEN page[r].setCookie ELSE cookie
  /\ page' = [page EXCEPT ![r] = [Idle EXCEPT !.pc = "done"]]
  /\ UNCHANGED <<savesFirst, store, rotated, nextID, mixed, who>>

\* An entry expires between two requests, on read or in evict.
Evict(i) ==
  /\ i \in Stored /\ Running = {}
  /\ store' = Drop(i)
  /\ who' = IF i = cookie THEN Nobody ELSE who
  /\ UNCHANGED <<savesFirst, rotated, nextID, cookie, mixed, page>>

SessNext ==
  \/ \E r \in PageRequest :
       \/ \E p \in BOOLEAN : Begin(r, p) \/ Return(r, p)
       \/ Remember(r) \/ Rotate(r) \/ Logout(r)
       \/ HandlerSave(r) \/ MiddlewareSave(r) \/ Deliver(r)
       \/ \E u \in User : Attempt(r, u)
  \/ \E i \in Stored : Evict(i)

SessSpec == SessInit /\ [][SessNext]_sessVars

---------------------------------------------------------------------------
\* Attempt rotates the id "to defeat session fixation" (guard.go 49): no id
\* that a client could have held before a login ever carries a user, however
\* the saves of overlapping requests fall.
NoFixation == \A i \in Stored : store[i].user # Nobody => i \in rotated

\* As long as no two requests overlap, the session behind the browser's cookie
\* carries the user of the last login or logout when no request is running,
\* also for handlers that leave the save to the session middleware (docs/auth.md
\* 154-155, middleware/auth.go 64-79).
LoginSticks ==
  ~mixed /\ Running = {} => who = (IF cookie \in Stored THEN store[cookie].user ELSE Nobody)

\* The same where it holds: handlers save the session themselves before they
\* answer, so that its cookie can still be set (session.go 107-131).
SessionFollows == savesFirst => LoginSticks
=============================================================================
