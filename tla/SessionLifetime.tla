--------------------------- MODULE SessionLifetime ---------------------------
(***************************************************************************)
(* The life of a session: it is created, resolved on every request,        *)
(* touched now and then, revoked, and it expires.  Resolve and Revoke read *)
(* the row, read the clock, read the account and write, each outside a     *)
(* transaction, so other requests act in between.                          *)
(*                                                                         *)
(* Create reads the account and inserts the row in two statements of the   *)
(* transaction of its caller.  On SQLite (Serializable) the insert fails   *)
(* if another commit came between the two; on PostgreSQL (ReadCommitted)   *)
(* it goes in as long as the account has a row, also when the account was  *)
(* disabled and its sessions were swept meanwhile.                         *)
(*                                                                         *)
(* Every other write is one statement and commits on its own, except that  *)
(* SetState and DeleteUsers change the account and its sessions in one     *)
(* commit, which is one step here; module Accounts has their statements.   *)
(* A session committed between the sweep of SetState and its commit is     *)
(* not swept either: here it is created right after the commit.            *)
(***************************************************************************)
EXTENDS Integers

CONSTANTS Procs,     \* the goroutines that serve requests
          Users,
          Sessions,  \* session IDs; an ID is never used twice
          None,      \* stands for no session
          Ttl,       \* how long a session is good
          Idle,      \* the idle timeout; 0 if there is none
          Touch,     \* how often last_seen_at is brought up to date
          MaxTime,   \* bounds the clock
          Isolations \* of "Serializable" (SQLite) and "ReadCommitted" (PostgreSQL)

ASSUME DurationsAreNatural ==
    Ttl \in Nat \ {0} /\ Idle \in Nat /\ Touch \in Nat \ {0} /\ MaxTime \in Nat
ASSUME NoneIsNoSession == None \notin Sessions
ASSUME IsolationsAreKnown == Isolations \subseteq {"Serializable", "ReadCommitted"}

VARIABLES isolation, \* that of the database in use; it never changes
          clock,
          users,     \* the state of each account
          sessions,  \* the table: session ID -> row
          req,       \* what each goroutine is doing
          stale,     \* the goroutines whose snapshot another commit has overtaken
          lastUse    \* history: when a request was last admitted, or the creation

vars == <<isolation, clock, users, sessions, req, stale, lastUse>>

UserStates == {"active", "disabled", "deleted"}
SessionRows == [state : {"unused", "live", "revoked", "deleted"}, user : Users,
                expires : Nat, seen : Nat]

\* user is the account that Create found active, row is the row that Resolve
\* read.  late is a history variable: the session had ended before the request
\* arrived.
Requests == [pc : {"idle", "insert", "get", "check", "user", "touch", "claims",
                   "find", "revoke"},
             user : Users \cup {None}, id : Sessions \cup {None},
             row : SessionRows \cup {None}, now : Nat, late : BOOLEAN]
Ready == [pc |-> "idle", user |-> None, id |-> None, row |-> None, now |-> 0,
          late |-> FALSE]

Init == /\ isolation \in Isolations
        /\ clock = 0
        /\ users = [u \in Users |-> "active"]
        /\ sessions \in [Sessions -> [state : {"unused"}, user : Users,
                                      expires : {0}, seen : {0}]]
        /\ req = [p \in Procs |-> Ready]
        /\ stale = {}
        /\ lastUse = [s \in Sessions |-> 0]

\* A session that is over, for good: revoked, gone or past its time.
Over(s) == \/ sessions[s].state \in {"revoked", "deleted"}
           \/ sessions[s].state = "live" /\ sessions[s].expires <= clock

\* A session that has ended.  Disabling the owner ends a session for good where
\* it revokes it, and nothing but SQLite's isolation makes that every session:
\* on PostgreSQL one whose creation was under way can escape.
Ended(s) == \/ Over(s)
            \/ isolation = "Serializable" /\ users[sessions[s].user] # "active"

-----------------------------------------------------------------------------
(* Requests.                                                               *)

At(p, step) == req[p].pc = step

\* A commit that changes the database overtakes the snapshots now in use.
Commit == stale' = IF UNCHANGED <<users, sessions>>
                   THEN stale ELSE {p \in Procs : At(p, "insert")}

Begin(p, step, s, now) ==
    /\ At(p, "idle")
    /\ req' = [req EXCEPT ![p] = [Ready EXCEPT !.pc = step, !.id = s, !.now = now,
                                               !.late = Ended(s)]]
    /\ UNCHANGED <<clock, users, sessions, stale, lastUse>>

Goto(p, step) == req' = [req EXCEPT ![p].pc = step]
Return(p) == req' = [req EXCEPT ![p] = Ready]

Row(s) == s \in Sessions /\ sessions[s].state \in {"live", "revoked"}

\* IssueSession, Login and RegisterAndLogin find the account active.  On SQLite
\* this is the first read of the transaction, which fixes the snapshot; on
\* PostgreSQL it is the last one before the insert.
Create(p) ==
    \E u \in Users :
        /\ At(p, "idle")
        /\ users[u] = "active"
        /\ req' = [req EXCEPT ![p] = [Ready EXCEPT !.pc = "insert", !.user = u,
                                                   !.now = clock]]
        /\ UNCHANGED <<clock, users, sessions, stale, lastUse>>

\* Otherwise SQLite finds its snapshot overtaken, or PostgreSQL no row that the
\* foreign key could refer to, and the creation fails.
MayInsert(p) == IF isolation = "Serializable" THEN p \notin stale
                ELSE users[req[p].user] # "deleted"

\* The clock was read between the two statements.  The owner of a row is drawn
\* in Init, as every row has one.
CreateSession(p) ==
    /\ At(p, "insert")
    /\ MayInsert(p)
    /\ \E s \in Sessions, now \in req[p].now..clock :
        /\ sessions[s].state = "unused" /\ sessions[s].user = req[p].user
        /\ sessions' = [sessions EXCEPT ![s].state = "live",
                                        ![s].expires = now + Ttl, ![s].seen = now]
        /\ lastUse' = [lastUse EXCEPT ![s] = now]
    /\ Return(p)
    /\ stale' = {q \in Procs : At(q, "insert")} \ {p}
    /\ UNCHANGED <<clock, users>>

Resolve(p) ==
    \E s \in Sessions : sessions[s].state # "unused" /\ Begin(p, "get", s, 0)

GetSessionByTokenHash(p) ==
    /\ At(p, "get")
    /\ IF Row(req[p].id)
       THEN req' = [req EXCEPT ![p].pc = "check", ![p].row = sessions[req[p].id]]
       ELSE Return(p)
    /\ UNCHANGED <<clock, users, sessions, stale, lastUse>>

\* Mutant: forgets that the row may be revoked.
GoodExpiry(row, now) ==
    /\ row.expires > now
    /\ Idle > 0 => now - row.seen < Idle
Good(row, now) ==
    /\ row.state = "live"
    /\ row.expires > now
    /\ Idle > 0 => now - row.seen < Idle

CheckSession(p) ==
    /\ At(p, "check")
    /\ IF Good(req[p].row, clock)
       THEN req' = [req EXCEPT ![p].pc = "user", ![p].now = clock]
       ELSE Return(p)
    /\ UNCHANGED <<clock, users, sessions, stale, lastUse>>

\* Mutant: off by one.
TouchIsOverdue(p) == req[p].now - req[p].row.seen > Touch
TouchIsDue(p) == req[p].now - req[p].row.seen >= Touch

UserByID(p) ==
    /\ At(p, "user")
    /\ IF users[req[p].row.user] = "active"
       THEN Goto(p, IF TouchIsDue(p) THEN "touch" ELSE "claims")
       ELSE Return(p)
    /\ UNCHANGED <<clock, users, sessions, stale, lastUse>>

\* The row may have been touched, revoked or deleted since it was read; if so
\* the statement finds nothing, which is no error.
\* Mutant: writes whatever the row holds by now.
TouchSessionAlways(p) ==
    /\ At(p, "touch")
    /\ sessions' = [sessions EXCEPT ![req[p].id].seen = req[p].now]
    /\ Goto(p, "claims")
    /\ UNCHANGED <<clock, users, lastUse>>
    /\ Commit
TouchSession(p) ==
    LET s == req[p].id IN
    /\ At(p, "touch")
    /\ sessions' = IF sessions[s].state = "live"
                      /\ sessions[s].seen <= req[p].now - Touch
                   THEN [sessions EXCEPT ![s].seen = req[p].now] ELSE sessions
    /\ Goto(p, "claims")
    /\ UNCHANGED <<clock, users, lastUse>>
    /\ Commit

\* The claims are read and the principal is returned.
Admit(p) ==
    /\ At(p, "claims")
    /\ lastUse' = IF lastUse[req[p].id] < req[p].now
                  THEN [lastUse EXCEPT ![req[p].id] = req[p].now] ELSE lastUse
    /\ Return(p)
    /\ UNCHANGED <<clock, users, sessions, stale>>

-----------------------------------------------------------------------------
(* Ending sessions.                                                        *)

\* Revoke finds the row by its token; RevokeByID has its ID and reads the clock.
Revoke(p) ==
    \E s \in Sessions : sessions[s].state # "unused" /\ Begin(p, "find", s, 0)
RevokeByID(p) ==
    \E s \in Sessions : sessions[s].state # "unused" /\ Begin(p, "revoke", s, clock)

FindToRevoke(p) ==
    /\ At(p, "find")
    /\ IF Row(req[p].id)
       THEN req' = [req EXCEPT ![p].pc = "revoke", ![p].now = clock]
       ELSE Return(p)
    /\ UNCHANGED <<clock, users, sessions, stale, lastUse>>

\* A row that is revoked already is revoked again, at another time.
RevokeSession(p) ==
    /\ At(p, "revoke")
    /\ sessions' = IF Row(req[p].id)
                   THEN [sessions EXCEPT ![req[p].id].state = "revoked",
                                         ![req[p].id].seen = req[p].now]
                   ELSE sessions
    /\ Return(p)
    /\ UNCHANGED <<clock, users, lastUse>>
    /\ Commit

\* Mutant: gives the rows a state that the table does not know.
MarkEnded(u, from, to) ==
    [s \in Sessions |->
        IF sessions[s].user = u /\ sessions[s].state \in from
        THEN [sessions[s] EXCEPT !.state = "ended"] ELSE sessions[s]]

\* The table after the rows of u whose state is in from were given the state to.
Mark(u, from, to) ==
    [s \in Sessions |->
        IF sessions[s].user = u /\ sessions[s].state \in from
        THEN [sessions[s] EXCEPT !.state = to] ELSE sessions[s]]

RevokeForUsers(u) ==
    /\ users[u] # "deleted"
    /\ sessions' = Mark(u, {"live"}, "revoked")
    /\ UNCHANGED <<clock, users, req, lastUse>>
    /\ Commit

\* Mutant: leaves the sessions for Resolve to refuse.
DisableOnly(u) ==
    /\ users[u] = "active"
    /\ users' = [users EXCEPT ![u] = "disabled"]
    /\ UNCHANGED <<clock, sessions, req, lastUse>>
    /\ Commit
Disable(u) ==
    /\ users[u] = "active"
    /\ users' = [users EXCEPT ![u] = "disabled"]
    /\ sessions' = Mark(u, {"live"}, "revoked")
    /\ UNCHANGED <<clock, req, lastUse>>
    /\ Commit

Enable(u) ==
    /\ users[u] = "disabled"
    /\ users' = [users EXCEPT ![u] = "active"]
    /\ UNCHANGED <<clock, sessions, req, lastUse>>
    /\ Commit

DeleteUser(u) ==
    /\ users[u] # "deleted"
    /\ users' = [users EXCEPT ![u] = "deleted"]
    /\ sessions' = Mark(u, {"live", "revoked"}, "deleted")
    /\ UNCHANGED <<clock, req, lastUse>>
    /\ Commit

\* The clock is read before the statement runs.
DeleteExpired ==
    \E before \in 0..clock :
        /\ sessions' = [s \in Sessions |->
              IF Row(s) /\ sessions[s].expires <= before
              THEN [sessions[s] EXCEPT !.state = "deleted"] ELSE sessions[s]]
        /\ UNCHANGED <<clock, users, req, lastUse>>
        /\ Commit

-----------------------------------------------------------------------------

\* A request fails: cancelled, no database, claims or binding refused, or the
\* creation of a session fails at its insert.
Fail(p) ==
    /\ ~At(p, "idle")
    /\ Return(p)
    /\ stale' = stale \ {p}
    /\ UNCHANGED <<clock, users, sessions, lastUse>>

Tick == /\ clock < MaxTime
        /\ clock' = clock + 1
        /\ UNCHANGED <<users, sessions, req, stale, lastUse>>

Serve(p) ==
    \/ Create(p) \/ CreateSession(p)
    \/ Resolve(p) \/ GetSessionByTokenHash(p) \/ CheckSession(p) \/ UserByID(p)
    \/ TouchSession(p) \/ Admit(p)
    \/ Revoke(p) \/ RevokeByID(p) \/ FindToRevoke(p) \/ RevokeSession(p)
    \/ Fail(p)

Administer(u) == RevokeForUsers(u) \/ Disable(u) \/ Enable(u) \/ DeleteUser(u)

Next ==
    /\ \/ \E p \in Procs : Serve(p)
       \/ \E u \in Users : Administer(u)
       \/ DeleteExpired
       \/ Tick
    /\ UNCHANGED isolation

Spec == Init /\ [][Next]_vars

-----------------------------------------------------------------------------
(* Properties.                                                             *)

\* Every variable ranges over what the schema and the code can put there.
TypeOK == /\ isolation \in Isolations
          /\ clock \in Nat
          /\ users \in [Users -> UserStates]
          /\ sessions \in [Sessions -> SessionRows]
          /\ req \in [Procs -> Requests]
          /\ stale \subseteq Procs
          /\ lastUse \in [Sessions -> Nat]

\* Once a session was revoked or deleted or has expired, no request that arrives
\* later gets as far as its claims, not while other requests touch the row, on
\* either database.  On SQLite the same holds once its owner was disabled, also
\* after the owner is enabled again; on PostgreSQL that does not hold of a session
\* whose creation read the account before it was disabled and inserted after.
EndedAdmitsNothing ==
    \A p \in Procs : req[p].pc \in {"touch", "claims"} => ~req[p].late

\* last_seen_at lags behind the last admitted request by less than Touch, so a
\* user who comes back within Idle - Touch is not locked out.
SeenLagsByTouch ==
    \A s \in Sessions : sessions[s].state = "live" =>
        lastUse[s] < sessions[s].seen + Touch

\* Requests that touch a session out of order do not take last_seen_at back.
SeenNeverGoesBack ==
    [][\A s \in Sessions :
         sessions[s].state = "live" /\ sessions'[s].state = "live" =>
             sessions'[s].seen >= sessions[s].seen]_vars
=============================================================================
