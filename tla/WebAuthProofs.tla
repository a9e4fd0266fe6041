--------------------------- MODULE WebAuthProofs ---------------------------
(***************************************************************************)
(* Proofs about WebAuth, for any number of concurrent requests, tokens and *)
(* passwords, and any session lifetime.                                    *)
(***************************************************************************)
EXTENDS WebAuth, TLAPS

LEMMA InitInvariant == AuthInit => AuthIInv /\ Saved /\ OnlySpoiltComesBack
  <1> SUFFICES ASSUME AuthInit PROVE AuthIInv /\ Saved /\ OnlySpoiltComesBack
    OBVIOUS
  <1>1. AuthTypeOK
    <2>1. DOMAIN sessions = {} /\ fresh = Tokens /\ ended = {} /\ retired = {}
      BY DEF AuthInit
    <2>2. time \in 0 .. MaxTime /\ password \in Passwords /\ file \in Passwords \cup {Nothing}
      BY AuthAssumption DEF AuthInit
    <2>3. doing \in [Requests -> {"idle", "mint", "inside", "saving"}]
      BY DEF AuthInit
    <2>4. cookie \in [Requests -> Tokens \cup {Nothing}] /\ old \in [Requests -> Passwords \cup {Nothing}]
      BY DEF AuthInit
    <2> QED  BY <2>1, <2>2, <2>3, <2>4 DEF AuthInit, AuthTypeOK
  <1> QED  BY <1>1 DEF AuthInit, AuthIInv, EndedStaysEnded, RequestsKnown, Saved, OnlySpoiltComesBack

(* Every step, with torn saves and failed writes too, keeps ended tokens invalid. *)
LEMMA StepInvariant == AuthIInv /\ [AuthNext]_authVars => AuthIInv'
  <1> SUFFICES ASSUME AuthIInv, [AuthNext]_authVars PROVE AuthIInv'
    OBVIOUS
  <1> USE AuthAssumption
  <1>1. ASSUME NEW r \in Requests, NEW p \in Passwords, Authenticate(r, p)
        PROVE  AuthIInv'
    BY <1>1 DEF Authenticate, Goto, AuthIInv, EndedStaysEnded, AuthTypeOK, ValidateToken, RequestsKnown
  <1>2. ASSUME NEW r \in Requests, NEW p \in Passwords, ChangePassword(r, p)
        PROVE  AuthIInv'
    BY <1>2 DEF ChangePassword, Goto, AuthIInv, EndedStaysEnded, AuthTypeOK, ValidateToken, RequestsKnown
  <1>3. ASSUME NEW r \in Requests, NEW t \in Tokens, OpenSession(r, t)
        PROVE  AuthIInv'
    <2>1. AuthTypeOK'
      BY <1>3 DEF OpenSession, Goto, AuthIInv, EndedStaysEnded, AuthTypeOK
    <2>2. ASSUME NEW u \in ended' PROVE ~ValidateToken(u)'
      BY <1>3 DEF OpenSession, AuthIInv, EndedStaysEnded, AuthTypeOK, ValidateToken
    <2>3. RequestsKnown'
      BY <1>3 DEF OpenSession, Goto, AuthIInv, EndedStaysEnded, AuthTypeOK, RequestsKnown
    <2> QED  BY <2>1, <2>2, <2>3 DEF AuthIInv, EndedStaysEnded
  <1>4. ASSUME NEW r \in Requests, NEW t \in Tokens, AuthMiddleware(r, t)
        PROVE  AuthIInv'
    BY <1>4 DEF AuthMiddleware, Goto, AuthIInv, EndedStaysEnded, AuthTypeOK, ValidateToken, RequestsKnown
  <1>5. ASSUME NEW r \in Requests, SaveUsers(r) \/ Respond(r)
        PROVE  AuthIInv'
    BY <1>5 DEF SaveUsers, WriteFile, Respond, Goto, AuthIInv, EndedStaysEnded, AuthTypeOK, ValidateToken,
                RequestsKnown
  <1>6. ASSUME NEW r \in Requests, Logout(r)
        PROVE  AuthIInv'
    <2>1. AuthTypeOK'
      BY <1>6 DEF Logout, Without, Goto, AuthIInv, EndedStaysEnded, AuthTypeOK, RequestsKnown
    <2>2. ASSUME NEW u \in ended' PROVE ~ValidateToken(u)'
      BY <1>6 DEF Logout, Without, AuthIInv, EndedStaysEnded, ValidateToken
    <2>3. RequestsKnown'
      BY <1>6 DEF Logout, Goto, AuthIInv, EndedStaysEnded, AuthTypeOK, RequestsKnown
    <2> QED  BY <2>1, <2>2, <2>3 DEF AuthIInv, EndedStaysEnded
  <1>7. CASE CleanupSessions
    BY <1>7 DEF CleanupSessions, Without, AuthIInv, EndedStaysEnded, AuthTypeOK, ValidateToken,
                RequestsKnown
  <1>8. CASE Restart
    BY <1>8 DEF Restart, Without, AuthIInv, EndedStaysEnded, AuthTypeOK, ValidateToken,
                RequestsKnown
  <1>9. CASE Tick
    BY <1>9 DEF Tick, AuthIInv, EndedStaysEnded, AuthTypeOK, ValidateToken, RequestsKnown
  <1>10. CASE UNCHANGED authVars
    BY <1>10 DEF authVars, AuthIInv, EndedStaysEnded, AuthTypeOK, ValidateToken, RequestsKnown
  <1> QED
    BY <1>1, <1>2, <1>3, <1>4, <1>5, <1>6, <1>7, <1>8, <1>9, <1>10 DEF AuthNext

(* A token that has expired, was logged out or belonged to a process that stopped never *)
(* opens the dashboard again (auth.go lines 122-197).                                   *)
THEOREM EndedForGood == AuthSpec => []EndedStaysEnded
  <1>1. AuthIInv => EndedStaysEnded
    BY DEF AuthIInv
  <1> QED  BY <1>1, InitInvariant, StepInvariant, PTL DEF AuthSpec

(* Unless the last save was spoilt, the file has the password of the memory whenever the *)
(* lock is free, so that a restart brings back no replaced password.                     *)
LEMMA StepSaved ==
    ASSUME AuthIInv, Saved, OnlySpoiltComesBack, [AuthNext]_authVars
    PROVE  Saved' /\ OnlySpoiltComesBack'
  <1> USE AuthAssumption DEF AuthIInv, EndedStaysEnded, AuthTypeOK, Saved, OnlySpoiltComesBack, Unlocked
  <1>1. ASSUME NEW r \in Requests,
               \/ \E p \in Passwords : Authenticate(r, p)
               \/ \E t \in Tokens : OpenSession(r, t) \/ AuthMiddleware(r, t)
               \/ Respond(r) \/ Logout(r)
        PROVE  Saved' /\ OnlySpoiltComesBack'
    BY <1>1 DEF Authenticate, OpenSession, AuthMiddleware, Respond, Logout, Goto
  <1>2. ASSUME NEW r \in Requests, NEW p \in Passwords, ChangePassword(r, p)
        PROVE  Saved' /\ OnlySpoiltComesBack'
    BY <1>2 DEF ChangePassword, Goto
  <1>3. ASSUME NEW r \in Requests, SaveUsers(r)
        PROVE  Saved' /\ OnlySpoiltComesBack'
    BY <1>3 DEF SaveUsers, WriteFile
  <1>4. CASE Restart
    <2>1. CASE spoilt \/ ~Unlocked
      BY <1>4, <2>1 DEF Restart
    <2>2. CASE ~spoilt /\ Unlocked
      <3>1. file = password /\ file # Nothing
        BY <2>2
      <3> QED  BY <1>4, <2>2, <3>1 DEF Restart
    <2> QED  BY <2>1, <2>2
  <1>5. CASE CleanupSessions \/ Tick \/ UNCHANGED authVars
    BY <1>5 DEF CleanupSessions, Tick, authVars
  <1> QED  BY <1>1, <1>2, <1>3, <1>4, <1>5 DEF AuthNext

(* With torn saves and failed writes at any moment, a replaced password is accepted again *)
(* only when the last save of the users file was such a one: a save that goes through      *)
(* makes good all earlier faults (auth.go 45-99 and 133-150, auth_test.go 88).            *)
THEOREM OnlyFaultsBringBack == AuthSpec => []OnlySpoiltComesBack
  <1>1. AuthInit => AuthIInv /\ Saved /\ OnlySpoiltComesBack
    BY InitInvariant
  <1>2. AuthIInv /\ Saved /\ OnlySpoiltComesBack /\ [AuthNext]_authVars
            => (AuthIInv /\ Saved /\ OnlySpoiltComesBack)'
    BY StepInvariant, StepSaved
  <1> QED  BY <1>1, <1>2, PTL DEF AuthSpec
=============================================================================
