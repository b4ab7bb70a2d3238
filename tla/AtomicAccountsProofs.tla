------------------------ MODULE AtomicAccountsProofs ------------------------
(***************************************************************************)
(* The promises of AtomicAccounts hold for any number of users, sessions   *)
(* and passwords.  None of the three is inductive alone: that a login      *)
(* leaves no live session on a disabled account needs the session to name  *)
(* an account, and that a new account has no old session needs NoOrphans.  *)
(***************************************************************************)
EXTENDS AtomicAccounts, TLAPS

\* A session that is live or revoked names the account it belongs to; one
\* that was never used or is deleted names none.
SessionsNameUsers ==
    \A s \in Sessions :
        IF sessions[s].state \in {"live", "revoked"}
        THEN sessions[s].user \in Users
        ELSE sessions[s].user = None

\* The inductive invariant.
IInv == /\ TypeOK
        /\ SessionsNameUsers
        /\ NoOrphans
        /\ DisabledUserHasNoLiveSession
        /\ SessionsMatchPassword

USE DEF UserStates, CredRows, SessionRows, NoCred, UnusedSession,
        DeletedSession, Exists, InitialUsers, InitialCreds, Current

LEMMA NoneFacts == None \notin Users /\ None \notin Passwords
  BY NoneIsNoValue

LEMMA InitIInv == Init => IInv
  <1> SUFFICES ASSUME Init PROVE IInv
    OBVIOUS
  <1>1. TypeOK
    BY DEF Init, TypeOK
  <1>2. SessionsNameUsers /\ DisabledUserHasNoLiveSession /\ SessionsMatchPassword
    BY DEF Init, SessionsNameUsers, DisabledUserHasNoLiveSession, SessionsMatchPassword
  <1>3. NoOrphans
    BY NoneFacts DEF Init, NoOrphans
  <1> QED
    BY <1>1, <1>2, <1>3 DEF IInv

\* One step of a request keeps the invariant.
LEMMA StepIInv == IInv /\ [Next]_vars => IInv'
  <1> SUFFICES ASSUME IInv, [Next]_vars PROVE IInv'
    OBVIOUS
  <1> USE NoneFacts DEF IInv, TypeOK, SessionsNameUsers, NoOrphans,
          DisabledUserHasNoLiveSession, SessionsMatchPassword
  <1>1. ASSUME NEW u \in Users, NEW w \in Passwords, NEW s \in Sessions,
               Login(u, w, s)
        PROVE  IInv'
    BY <1>1 DEF Login, Verify, Issue
  <1>2. ASSUME NEW u \in Users, NEW s \in Sessions, IssueSession(u, s)
        PROVE  IInv'
    BY <1>2 DEF IssueSession, Issue
  <1>3. ASSUME NEW u \in Users, NEW w \in Passwords, Authenticate(u, w)
        PROVE  IInv'
    BY <1>3 DEF Authenticate, Verify
  <1>4. ASSUME NEW u \in Users, NEW state \in {"active", "disabled"},
               CreateAccount(u, state)
        PROVE  IInv'
    BY <1>4 DEF CreateAccount
  <1>5. ASSUME NEW u \in Users, NEW state \in {"active", "disabled"},
               NEW w \in Passwords, Register(u, state, w)
        PROVE  IInv'
    BY <1>5 DEF Register
  <1>6. ASSUME NEW u \in Users, NEW w \in Passwords, NEW s \in Sessions,
               RegisterAndLogin(u, w, s)
        PROVE  IInv'
    BY <1>6 DEF RegisterAndLogin, Issue
  <1>7. ASSUME NEW u \in Users, NEW w \in Passwords, NEW next \in Passwords,
               ChangePassword(u, w, next)
        PROVE  IInv'
    BY <1>7 DEF ChangePassword, Revoked
  <1>8. ASSUME NEW u \in Users, NEW next \in Passwords, ResetPassword(u, next)
        PROVE  IInv'
    BY <1>8 DEF ResetPassword, Revoked
  <1>9. ASSUME NEW ids \in SUBSET Users, NEW state \in {"active", "disabled"},
               SetState(ids, state)
        PROVE  IInv'
    BY <1>9 DEF SetState, Revoked
  <1>10. ASSUME NEW ids \in SUBSET Users, RevokeForUsers(ids)
         PROVE  IInv'
    BY <1>10 DEF RevokeForUsers, Revoked
  <1>11. ASSUME NEW ids \in SUBSET Users, DeleteUsers(ids)
         PROVE  IInv'
    BY <1>11 DEF DeleteUsers, Deleted
  <1>12. CASE UNCHANGED vars
    BY <1>12 DEF vars
  <1> QED
    BY <1>1, <1>2, <1>3, <1>4, <1>5, <1>6, <1>7, <1>8, <1>9, <1>10, <1>11,
       <1>12 DEF Next

LEMMA Invariance == Spec => []IInv
  BY InitIInv, StepIInv, PTL DEF Spec

\* Every table keeps to its schema.
THEOREM AtomicTypeCorrect == Spec => []TypeOK
  BY Invariance, PTL DEF IInv

\* No request leaves a live session on an account it disabled, and none
\* starts one there.
THEOREM AtomicDisabledHasNoSession == Spec => []DisabledUserHasNoLiveSession
  BY Invariance, PTL DEF IInv

\* No session outlives the password it was obtained with.
THEOREM AtomicSessionsMatchPassword == Spec => []SessionsMatchPassword
  BY Invariance, PTL DEF IInv

\* Deleted accounts keep neither sessions nor passwords.
THEOREM AtomicNoOrphans == Spec => []NoOrphans
  BY Invariance, PTL DEF IInv
=============================================================================
