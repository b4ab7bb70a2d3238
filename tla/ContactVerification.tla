------------------------- MODULE ContactVerification -------------------------
(***************************************************************************)
(* Binding a phone number or an email address to an account: the user asks *)
(* for a code, the host's provider sends it, the user confirms it, and the *)
(* contact row is written.  The two contact kinds do not interact, so one  *)
(* of them is modelled.                                                    *)
(*                                                                         *)
(* The provider is called between statements, outside any transaction.     *)
(* Start and Confirm therefore act on rows they read some time ago, and    *)
(* the clock moves on in between.  The isolations are those of Accounts.   *)
(***************************************************************************)
EXTENDS Integers, FiniteSets

CONSTANTS Procs,          \* the goroutines that serve requests
          Users,
          Values,         \* normalised phone numbers or addresses
          Verifications,  \* verification IDs; an ID is never used twice
          None,           \* stands for no value
          Isolations,     \* of "Serializable" (SQLite) and "ReadCommitted" (PostgreSQL)
          Ttl, Resend,    \* how long a code is good, how soon it is sent again
          MaxAttempts,    \* wrong codes that close a verification
          MaxTime         \* bounds the clock

ASSUME IsolationsAreKnown == Isolations \subseteq {"Serializable", "ReadCommitted"}
ASSUME LimitsArePositive ==
    Ttl \in Nat \ {0} /\ Resend \in Nat \ {0} /\ MaxAttempts \in Nat \ {0}
ASSUME ClockIsBounded == MaxTime \in Nat
ASSUME NoneIsNoContact == None \notin Verifications /\ None # "gone"
ASSUME GoneIsNoContact == "gone" \notin Verifications
ASSUME FinitelyManyProcs == IsFiniteSet(Procs)

VARIABLES isolation, \* that of the database in use; it never changes
          clock,
          verifs,    \* committed: verification ID -> row
          contacts,  \* committed: user -> the verification that bound the contact
          req,       \* what each goroutine is doing
          draft,     \* the rows its open transaction wrote; None: not written
          stale,     \* goroutines whose transaction missed a later commit
          wrong,     \* history: how many wrong codes were answered as such, by ID
          proved     \* history: the IDs whose code the provider accepted

vars == <<isolation, clock, verifs, contacts, req, draft, stale, wrong, proved>>

Statuses == {"unborn", "pending", "consumed", "expired", "cancelled", "failed"}
VerifRows ==
    [status : Statuses, user : Users \cup {None}, value : Values \cup {None},
     attempts : 0..MaxAttempts, created : 0..MaxTime, expires : 0..(MaxTime + Ttl)]
Unborn == [status |-> "unborn", user |-> None, value |-> None, attempts |-> 0,
           created |-> 0, expires |-> 0]
ASSUME NoneIsNoRow == None \notin VerifRows

Kinds == {"idle", "start", "confirm", "unbind"}
Steps == {"idle", "taken", "latest", "expire", "send", "load", "check", "verify",
          "fail", "reread", "findContact", "delete", "bind", "consume",
          "findPending", "sweep", "insert", "commit"}

\* id is the verification a request creates or confirms, old the one it read as
\* seen; contact is the row a DELETE found.  What a request no longer needs is
\* reset.
Idle == [kind |-> "idle", pc |-> "idle", user |-> None, value |-> None,
         id |-> None, old |-> None, seen |-> Unborn, contact |-> None,
         now |-> 0, rows |-> {}]
Blank == [verifs |-> [i \in Verifications |-> None],
          contacts |-> [u \in Users |-> None]]

Init == /\ isolation \in Isolations
        /\ clock = 0
        /\ verifs = [i \in Verifications |-> Unborn]
        /\ contacts = [u \in Users |-> None]
        /\ req = [p \in Procs |-> Idle]
        /\ draft = [p \in Procs |-> Blank]
        /\ stale = {}
        /\ wrong = [i \in Verifications |-> 0]
        /\ proved = {}

-----------------------------------------------------------------------------
(* What a transaction reads, and the locks its statements meet.            *)

Sees(p, i) ==
    IF draft[p].verifs[i] = None THEN verifs[i] ELSE draft[p].verifs[i]
SeesContact(p, u) ==
    CASE draft[p].contacts[u] = None   -> contacts[u]
      [] draft[p].contacts[u] = "gone" -> None
      [] OTHER                         -> draft[p].contacts[u]

Holders(p, i) == {q \in Procs \ {p} : draft[q].verifs[i] # None}
ContactHolders(p, u) == {q \in Procs \ {p} : draft[q].contacts[u] # None}
Wrote(p) == draft[p] # Blank
Writers(p) == {q \in Procs \ {p} : Wrote(q)}

ValueOf(i) == verifs[i].value

\* Two unique indexes: one contact of a kind per user, one user per value.
Clashes(p, u, value) ==
    \/ SeesContact(p, u) # None
    \/ \E w \in Users \ {u} : /\ SeesContact(p, w) # None
                              /\ ValueOf(SeesContact(p, w)) = value

\* The rows of other transactions that an INSERT may yet clash with.
Contenders(p, u, value) ==
    ContactHolders(p, u) \cup
    {q \in Procs \ {p} : \E w \in Users :
        /\ draft[q].contacts[w] # None
        /\ value \in {ValueOf(i) : i \in {contacts[w], draft[q].contacts[w]}
                                          \ {None, "gone"}}}

WaitsFor(p) ==
    LET r == req[p] IN
    CASE r.pc \in {"expire", "fail"} -> Holders(p, r.old)
      [] r.pc = "delete"             -> ContactHolders(p, r.user)
      [] r.pc = "bind"               -> Contenders(p, r.user, r.seen.value)
      [] r.pc = "consume"            -> Holders(p, r.id)
      [] OTHER                       -> {}

\* SQLite has room for one writing transaction.
MayWrite(p) == isolation = "Serializable" => Writers(p) = {}

-----------------------------------------------------------------------------
(* Beginning, ending and continuing a request.                             *)

InTx == {"reread", "findContact", "delete", "bind", "consume", "findPending",
         "sweep", "insert", "commit"}

History == UNCHANGED <<wrong, proved>>
Tables == UNCHANGED <<clock, verifs, contacts>>

Open(p, request) ==
    /\ req[p].pc = "idle"
    /\ req' = [req EXCEPT ![p] = request]
    /\ UNCHANGED <<draft, stale>> /\ Tables /\ History

At(p, step) == req[p].pc = step /\ p \notin stale

Goto(p, step) == req' = [req EXCEPT ![p].pc = step]

Write(p, i, row) == draft' = [draft EXCEPT ![p].verifs[i] = row]

\* An error ends the request; in a transaction it undoes what it wrote.
Return(p) == /\ req' = [req EXCEPT ![p] = Idle]
             /\ draft' = [draft EXCEPT ![p] = Blank]

\* A write outside a transaction commits on its own.
Outdated(p) ==
    IF isolation = "Serializable"
    THEN stale \cup {q \in Procs \ {p} : req[q].pc \in InTx} ELSE stale

Commit(p) ==
    /\ At(p, "commit")
    /\ verifs' = [i \in Verifications |-> Sees(p, i)]
    /\ contacts' = [u \in Users |-> SeesContact(p, u)]
    /\ stale' = IF Wrote(p) THEN Outdated(p) ELSE stale
    /\ Return(p)
    /\ UNCHANGED clock /\ History

-----------------------------------------------------------------------------
(* StartVerification.                                                      *)

Start(p) ==
    \E u \in Users, v \in Values :
        Open(p, [Idle EXCEPT !.kind = "start", !.pc = "taken", !.user = u,
                             !.value = v])

\* Nobody may have the value, not even the user; then the clock is read.
GetUserByContact(p) ==
    /\ At(p, "taken")
    /\ IF \E u \in Users : contacts[u] # None /\ ValueOf(contacts[u]) = req[p].value
       THEN Return(p)
       ELSE /\ req' = [req EXCEPT ![p].pc = "latest", ![p].now = clock]
            /\ UNCHANGED draft
    /\ UNCHANGED stale /\ Tables /\ History

PendingOf(u) == {i \in Verifications : verifs[i].status = "pending"
                                       /\ verifs[i].user = u}
LatestPending(u) == {i \in PendingOf(u) : \A j \in PendingOf(u) :
                                             verifs[j].created <= verifs[i].created}

\* A code that is still good is not sent again too soon.
RateLimited(row, now) == row.expires > now /\ row.created + Resend > now

GetPendingContactVerification(p) ==
    LET now == req[p].now IN
    /\ At(p, "latest")
    /\ \/ PendingOf(req[p].user) = {} /\ Goto(p, "send") /\ UNCHANGED draft
       \/ \E i \in LatestPending(req[p].user) :
            CASE RateLimited(verifs[i], now)   -> Return(p)
              [] verifs[i].expires < now       ->
                   /\ req' = [req EXCEPT ![p].old = i, ![p].seen = verifs[i],
                                         ![p].pc = "expire"]
                   /\ UNCHANGED draft
              [] OTHER                         -> Goto(p, "send") /\ UNCHANGED draft
    /\ UNCHANGED stale /\ Tables /\ History

Unused == {i \in Verifications : verifs[i].status = "unborn"
                                 /\ \A q \in Procs : req[q].id # i}

\* The provider sends the code; it may ask for a shorter life than Ttl.
ProviderStart(p) ==
    /\ At(p, "send")
    /\ \E i \in Unused, life \in 1..Ttl :
          req' = [req EXCEPT ![p] =
            [Idle EXCEPT
              !.kind = "start", !.pc = "findPending", !.user = req[p].user, !.id = i,
              !.seen = [status |-> "pending", user |-> req[p].user,
                        value |-> req[p].value, attempts |-> 0,
                        created |-> req[p].now, expires |-> req[p].now + life]]]
    /\ UNCHANGED <<draft, stale>> /\ Tables /\ History

CreateContactVerification(p) ==
    /\ At(p, "insert") /\ MayWrite(p)
    /\ Write(p, req[p].id, req[p].seen)
    /\ Goto(p, "commit")
    /\ UNCHANGED stale /\ Tables /\ History

-----------------------------------------------------------------------------
(* Writes outside a transaction.                                           *)

\* UpdateContactVerification writes the status and the attempts that were read,
\* whatever the row holds by now; Start and Confirm ignore its failure.
ExpireSeen(p) ==
    /\ At(p, "expire")
    /\ \/ /\ MayWrite(p) /\ WaitsFor(p) = {}
          /\ verifs' = [verifs EXCEPT ![req[p].old].status = "expired",
                                      ![req[p].old].attempts = req[p].seen.attempts]
          /\ stale' = Outdated(p)
       \/ UNCHANGED <<verifs, stale>>
    /\ IF req[p].kind = "confirm" THEN Return(p)
       ELSE /\ req' = [req EXCEPT ![p].pc = "send", ![p].old = None, ![p].seen = Unborn]
            /\ UNCHANGED draft
    /\ UNCHANGED <<clock, contacts>> /\ History

\* One more wrong code, counted in the row itself.
\* Mutant: the count that was read before the provider was asked.
AfterWrongRead(p, row) ==
    LET tried == req[p].seen.attempts + 1 IN
    [row EXCEPT !.attempts = tried,
                !.status = IF tried >= MaxAttempts THEN "failed" ELSE @]
\* Mutant: off by one.
AfterWrongLate(p, row) ==
    LET tried == row.attempts + 1 IN
    [row EXCEPT !.attempts = tried,
                !.status = IF tried > MaxAttempts THEN "failed" ELSE @]
AfterWrong(p, row) ==
    LET tried == row.attempts + 1 IN
    [row EXCEPT !.attempts = tried,
                !.status = IF tried >= MaxAttempts THEN "failed" ELSE @]

\* Only a row that is still open counts.
RecordContactVerificationFailure(p) ==
    LET i == req[p].old
        open == verifs[i].status = "pending" /\ verifs[i].expires > req[p].now
    IN
    /\ At(p, "fail") /\ MayWrite(p) /\ WaitsFor(p) = {}
    /\ verifs' = IF open THEN [verifs EXCEPT ![i] = AfterWrong(p, @)] ELSE verifs
    /\ stale' = IF open THEN Outdated(p) ELSE stale
    /\ wrong' = [wrong EXCEPT ![i] = @ + 1]
    /\ Return(p)
    /\ UNCHANGED <<clock, contacts, proved>>

-----------------------------------------------------------------------------
(* ConfirmVerification.                                                    *)

Confirm(p) ==
    \E u \in Users, i \in Verifications :
        /\ verifs[i].status # "unborn"
        /\ Open(p, [Idle EXCEPT !.kind = "confirm", !.pc = "load", !.user = u,
                                !.id = i, !.old = i])

\* Reads the row; the clock is read after it.
GetContactVerification(p) ==
    /\ At(p, "load")
    /\ IF verifs[req[p].id].user = req[p].user
       THEN /\ req' = [req EXCEPT ![p].pc = "check", ![p].seen = verifs[req[p].id]]
            /\ UNCHANGED draft
       ELSE Return(p)
    /\ UNCHANGED stale /\ Tables /\ History

CheckOpen(p) ==
    /\ At(p, "check")
    /\ IF req[p].seen.status # "pending" THEN Return(p)
       ELSE /\ req' = [req EXCEPT ![p].now = clock,
                         ![p].pc = IF req[p].seen.expires > clock THEN "verify"
                                   ELSE "expire"]
            /\ UNCHANGED draft
    /\ UNCHANGED stale /\ Tables /\ History

\* The provider compares the code; nothing is locked meanwhile.
\* Mutant: goes on when the provider is unavailable.
ProviderVerifyWithoutAnswer(p) ==
    /\ At(p, "verify")
    /\ Goto(p, "reread")
    /\ UNCHANGED <<draft, stale, wrong, proved>> /\ Tables
ProviderVerify(p) ==
    /\ At(p, "verify")
    /\ \/ /\ proved' = proved \cup {req[p].id}
          /\ Goto(p, "reread")
       \/ Goto(p, "fail") /\ UNCHANGED proved
    /\ UNCHANGED <<draft, stale, wrong>> /\ Tables

\* The transaction reads the row again before it binds the contact.  A row that
\* expired meanwhile is marked, and the error that follows undoes the mark.
\* Mutant: does not look at the status again.
RereadExpiry(p) ==
    LET row == Sees(p, req[p].id) IN
    /\ At(p, "reread")
    /\ IF row.expires > clock
       THEN /\ req' = [req EXCEPT ![p].pc = "findContact", ![p].seen = row,
                                  ![p].now = 0]
            /\ UNCHANGED draft
       ELSE Return(p)
    /\ UNCHANGED stale /\ Tables /\ History
Reread(p) ==
    LET row == Sees(p, req[p].id) IN
    /\ At(p, "reread")
    /\ IF row.user = req[p].user /\ row.status = "pending" /\ row.expires > clock
       THEN /\ req' = [req EXCEPT ![p].pc = "findContact", ![p].seen = row,
                              ![p].now = 0]
            /\ UNCHANGED draft
       ELSE Return(p)
    /\ UNCHANGED stale /\ Tables /\ History

\* A DELETE finds the rows it will delete when it starts, and meets them when
\* their locks are free.
FindContact(p) ==
    /\ At(p, "findContact")
    /\ req' = [req EXCEPT ![p].contact = SeesContact(p, req[p].user),
                          ![p].pc = "delete"]
    /\ UNCHANGED <<draft, stale>> /\ Tables /\ History

\* Unbind needs a row to delete; Confirm replaces the row, if there is one.
\* Mutant: the DELETE is not part of the transaction.
DeleteContactAtOnce(p) ==
    /\ At(p, "delete") /\ MayWrite(p)
    /\ req[p].contact # None => WaitsFor(p) = {}
    /\ contacts' = [contacts EXCEPT ![req[p].user] = None]
    /\ req' = [req EXCEPT ![p].contact = None,
                 ![p].pc = IF req[p].kind = "unbind" THEN "findPending" ELSE "bind"]
    /\ UNCHANGED <<clock, verifs, draft, stale>> /\ History
DeleteContact(p) ==
    LET u == req[p].user
        meets == req[p].contact # None /\ SeesContact(p, u) = req[p].contact
    IN
    /\ At(p, "delete") /\ MayWrite(p)
    /\ req[p].contact # None => WaitsFor(p) = {}
    /\ IF req[p].kind = "unbind" /\ ~meets THEN Return(p)
       ELSE /\ req' = [req EXCEPT ![p].contact = None,
                         ![p].pc = IF req[p].kind = "unbind" THEN "findPending"
                                   ELSE "bind"]
            /\ draft' = IF meets THEN [draft EXCEPT ![p].contacts[u] = "gone"]
                        ELSE draft
    /\ UNCHANGED stale /\ Tables /\ History

InsertContact(p) ==
    /\ At(p, "bind") /\ MayWrite(p) /\ WaitsFor(p) = {}
    /\ IF Clashes(p, req[p].user, req[p].seen.value) THEN Return(p)
       ELSE /\ draft' = [draft EXCEPT ![p].contacts[req[p].user] = req[p].id]
            /\ Goto(p, "consume")
    /\ UNCHANGED stale /\ Tables /\ History

\* UpdateContactVerification again: by ID, whatever the row holds by now.
Consume(p) ==
    /\ At(p, "consume") /\ MayWrite(p) /\ WaitsFor(p) = {}
    /\ Write(p, req[p].id, [Sees(p, req[p].id) EXCEPT
                              !.status = "consumed",
                              !.attempts = req[p].seen.attempts])
    /\ Goto(p, "findPending")
    /\ UNCHANGED stale /\ Tables /\ History

-----------------------------------------------------------------------------
(* CancelPendingContactVerifications, the last statement of each request    *)
(* but Start, where the INSERT follows.                                     *)

SweepRows(p, rows) ==
    LET then == IF req[p].kind = "start" THEN "insert" ELSE "commit" IN
    req' = [req EXCEPT ![p].rows = rows,
                       ![p].pc = IF rows = {} THEN then ELSE "sweep"]

\* Mutant: leaves out the rows that look expired.
OtherUnexpired(p) ==
    {i \in Verifications \ {req[p].id} : /\ Sees(p, i).status = "pending"
                                         /\ Sees(p, i).user = req[p].user
                                         /\ Sees(p, i).expires > clock}
OtherPending(p) ==
    {i \in Verifications \ {req[p].id} : /\ Sees(p, i).status = "pending"
                                         /\ Sees(p, i).user = req[p].user}

FindPending(p) ==
    /\ At(p, "findPending")
    /\ SweepRows(p, OtherPending(p))
    /\ UNCHANGED <<draft, stale>> /\ Tables /\ History

CancelPending(p) ==
    /\ At(p, "sweep") /\ MayWrite(p)
    /\ \E i \in req[p].rows :
          /\ Holders(p, i) = {}
          /\ SweepRows(p, req[p].rows \ {i})
          /\ IF Sees(p, i).status = "pending"
             THEN Write(p, i, [Sees(p, i) EXCEPT !.status = "cancelled"])
             ELSE UNCHANGED draft
    /\ UNCHANGED stale /\ Tables /\ History

-----------------------------------------------------------------------------
(* Unbind.                                                                 *)

Unbind(p) ==
    \E u \in Users :
        Open(p, [Idle EXCEPT !.kind = "unbind", !.pc = "findContact", !.user = u])

-----------------------------------------------------------------------------
(* Failures and time.                                                      *)

\* The user is not active, the provider or the database fails, the request is
\* cancelled, SQLite reports SQLITE_BUSY to a transaction that is outdated or
\* meets another writer, PostgreSQL breaks a deadlock: what the transaction wrote
\* is undone.
Fail(p) ==
    /\ req[p].pc # "idle"
    /\ Return(p)
    /\ stale' = stale \ {p}
    /\ Tables /\ History

Tick ==
    /\ clock < MaxTime
    /\ clock' = clock + 1
    /\ UNCHANGED <<verifs, contacts, req, draft, stale>> /\ History

Step(p) ==
    \/ GetUserByContact(p) \/ GetPendingContactVerification(p) \/ ProviderStart(p)
    \/ CreateContactVerification(p) \/ ExpireSeen(p)
    \/ RecordContactVerificationFailure(p)
    \/ GetContactVerification(p) \/ CheckOpen(p) \/ ProviderVerify(p) \/ Reread(p)
    \/ FindContact(p) \/ DeleteContact(p) \/ InsertContact(p) \/ Consume(p)
    \/ FindPending(p) \/ CancelPending(p)

Next == /\ \/ \E p \in Procs : Start(p) \/ Confirm(p) \/ Unbind(p)
           \/ \E p \in Procs : Step(p) \/ Commit(p) \/ Fail(p)
           \/ Tick
        /\ UNCHANGED isolation

Spec == Init /\ [][Next]_vars

-----------------------------------------------------------------------------
(* Properties.                                                             *)

Requests ==
    [kind : Kinds, pc : Steps, user : Users \cup {None}, value : Values \cup {None},
     id : Verifications \cup {None}, old : Verifications \cup {None},
     seen : VerifRows, contact : Verifications \cup {None}, now : 0..MaxTime,
     rows : SUBSET Verifications]

\* Every variable ranges over what the schema and the code can put there.
TypeOK ==
    /\ isolation \in Isolations
    /\ clock \in 0..MaxTime
    /\ verifs \in [Verifications -> VerifRows]
    /\ contacts \in [Users -> Verifications \cup {None}]
    /\ req \in [Procs -> Requests]
    /\ draft \in [Procs -> [verifs : [Verifications -> VerifRows \cup {None}],
                            contacts : [Users -> Verifications \cup {None, "gone"}]]]
    /\ stale \subseteq Procs
    /\ wrong \in [Verifications -> Nat]
    /\ proved \subseteq Verifications

\* A contact is there because the provider accepted a code for this user and
\* this value, whatever else was started, cancelled or expired meanwhile.
ContactWasVerified ==
    \A u \in Users : contacts[u] # None =>
        contacts[u] \in proved /\ verifs[contacts[u]].user = u

\* Guessing in parallel buys at most one answer more for each other request.
GuessesAreLimited ==
    \A i \in Verifications : wrong[i] <= MaxAttempts + Cardinality(Procs) - 1

\* Starting a verification replaces the one that was pending.  PostgreSQL lets
\* two requests cancel the same one and insert one each, so this is of SQLite.
OnePending ==
    isolation = "Serializable" =>
        \A i, j \in Verifications :
            /\ verifs[i].status = "pending" /\ verifs[j].status = "pending"
            /\ verifs[i].user = verifs[j].user
            => i = j

\* A contact is lost only by unbinding it: a confirmation that replaces it and
\* fails half way leaves the old one in place.
LosesContactByUnbindOnly ==
    [][\A u \in Users : contacts[u] # None /\ contacts'[u] = None =>
         \E p \in Procs : /\ req[p].kind = "unbind" /\ req[p].pc = "commit"
                          /\ req[p].user = u]_vars

\* The commit that binds a contact consumes a verification that is pending: one
\* that was cancelled, used up or failed since it was read binds nothing.
BindsPending ==
    \A u \in Users : contacts'[u] \notin {None, contacts[u]} =>
        /\ verifs[contacts'[u]].status = "pending"
        /\ verifs'[contacts'[u]].status = "consumed"

\* "identity stores pending requests, enforces ownership and expiry, and commits
\* the verified contact atomically" (docs/architecture.md:21-23).
BindsPendingOnly == [][BindsPending]_vars

\* The same where the database lets one transaction write at a time: what the
\* transaction read it finds when it commits.
SerializedBindsPendingOnly ==
    [][isolation = "Serializable" => BindsPending]_vars
=============================================================================
