------------------------------ MODULE WebAuth ------------------------------
(***************************************************************************)
(* The dashboard's AuthManager (internal/webdash/auth.go) and the handlers *)
(* that call it, under concurrent HTTP requests, with its users file and   *)
(* restarts of the process.                                                *)
(*                                                                         *)
(* The maps are guarded by the RWMutex am.mu; a locked stretch is one      *)
(* action, except that ChangePassword keeps the lock while os.WriteFile    *)
(* first truncates and then fills the users file.  There is one account,   *)
(* admin: the code never creates another.                                  *)
(***************************************************************************)
EXTENDS Integers, FiniteSets

CONSTANTS
    Requests,    \* goroutines serving HTTP requests
    Passwords,   \* passwords (hashing is one-to-one)
    Default,     \* "admin", the password of the default account
    Tokens,      \* random session tokens, never drawn twice
    SessionTime, \* lifetime of a session (24 hours)
    Torn,        \* may the process die between truncating and filling the file?
    WriteFails,  \* may os.WriteFile fail, before or after it has truncated the file?
    MaxTime      \* bound: last moment explored

Nothing == "none"

ASSUME AuthAssumption ==
    /\ Default \in Passwords /\ Nothing \notin Passwords
    /\ SessionTime \in Nat /\ MaxTime \in Nat
    /\ Torn \in BOOLEAN /\ WriteFails \in BOOLEAN

VARIABLES
    time,
    password,  \* am.users["admin"].Password
    file,      \* the users file: a password, or "none" when missing or truncated
    sessions,  \* am.sessions: token |-> ExpiresAt
    doing,        \* where each request is
    cookie,    \* the token of a request that passed AuthMiddleware
    old,       \* the password a request is replacing
    fresh,     \* tokens not drawn yet
    ended,     \* tokens that were logged out, expired or lost in a restart (history)
    retired,   \* passwords replaced by an answered change, and not chosen again (history)
    spoilt     \* the last save of the users file failed, or was torn by a crash (history)

authVars == <<time, password, file, sessions, doing, cookie, old, fresh, ended, retired, spoilt>>

(* A process that found a users file, or has just created it with the default account. *)
AuthInit ==
    /\ time = 0
    /\ password \in Passwords /\ file = password
    /\ sessions = [t \in {} |-> 0]
    /\ doing = [r \in Requests |-> "idle"]
    /\ cookie = [r \in Requests |-> Nothing]
    /\ old = [r \in Requests |-> Nothing]
    /\ fresh = Tokens
    /\ ended = {} /\ retired = {} /\ spoilt = FALSE

(* Nobody holds am.mu for writing across steps. *)
Unlocked == \A r \in Requests : doing[r] # "saving"

Without(tokens) == [t \in DOMAIN sessions \ tokens |-> sessions[t]]

Goto(r, l) == doing' = [doing EXCEPT ![r] = l]

(* handleLogin, Authenticate first half: compare with the password read under the read lock. *)
Authenticate(r, p) ==
    /\ doing[r] = "idle" /\ Unlocked
    /\ p = password
    /\ Goto(r, "mint")
    /\ UNCHANGED <<time, password, file, sessions, cookie, old, fresh, ended, retired, spoilt>>

(* Second half: draw a token and store the session under the write lock. *)
OpenSession(r, t) ==
    /\ doing[r] = "mint" /\ Unlocked
    /\ t \in fresh
    /\ fresh' = fresh \ {t}
    /\ sessions' = [u \in DOMAIN sessions \cup {t} |->
                       IF u = t THEN time + SessionTime ELSE sessions[u]]
    /\ Goto(r, "idle")
    /\ UNCHANGED <<time, password, file, cookie, old, ended, retired, spoilt>>

ValidateToken(t) == t \in DOMAIN sessions /\ time <= sessions[t]

(* AuthMiddleware lets a request with a valid token through to its handler. *)
AuthMiddleware(r, t) ==
    /\ doing[r] = "idle" /\ Unlocked
    /\ ValidateToken(t)
    /\ Goto(r, "inside")
    /\ cookie' = [cookie EXCEPT ![r] = t]
    /\ UNCHANGED <<time, password, file, sessions, old, fresh, ended, retired, spoilt>>

(* A handler that leaves the manager alone, or a password change that is refused. *)
Respond(r) ==
    /\ doing[r] = "inside"
    /\ Goto(r, "idle")
    /\ cookie' = [cookie EXCEPT ![r] = Nothing]
    /\ UNCHANGED <<time, password, file, sessions, old, fresh, ended, retired, spoilt>>

(* handlePassword, right old password: memory changes, the file is truncated, if it can be *)
(* opened ...                                                                              *)
ChangePassword(r, new) ==
    /\ doing[r] = "inside" /\ Unlocked
    /\ password' = new
    /\ file' \in {Nothing} \cup (IF WriteFails THEN {file} ELSE {})
    /\ old' = [old EXCEPT ![r] = password]
    /\ retired' = retired \ {new}
    /\ Goto(r, "saving")
    /\ UNCHANGED <<time, sessions, cookie, fresh, ended, spoilt>>

(* The rest of os.WriteFile: a truncated file is filled, or nothing comes of it. *)
WriteFile(p) ==
    \/ file = Nothing /\ file' = p /\ spoilt' = FALSE
    \/ WriteFails /\ spoilt' = TRUE /\ UNCHANGED file

(* Mutant: the file gets the users as they were before the change. *)
SaveUsersBefore(r) ==
    /\ doing[r] = "saving"
    /\ WriteFile(old[r])
    /\ retired' = (retired \cup {old[r]}) \ {password}
    /\ old' = [old EXCEPT ![r] = Nothing]
    /\ cookie' = [cookie EXCEPT ![r] = Nothing]
    /\ Goto(r, "idle")
    /\ UNCHANGED <<time, password, sessions, fresh, ended>>

(* ... then the file is written, whatever error there was is dropped, the lock is released *)
(* and the request answered as a success.                                                  *)
SaveUsers(r) ==
    /\ doing[r] = "saving"
    /\ WriteFile(password)
    /\ retired' = (retired \cup {old[r]}) \ {password}
    /\ old' = [old EXCEPT ![r] = Nothing]
    /\ cookie' = [cookie EXCEPT ![r] = Nothing]
    /\ Goto(r, "idle")
    /\ UNCHANGED <<time, password, sessions, fresh, ended>>

(* Mutant: logging out only clears the browser's cookie. *)
LogoutCookie(r) ==
    /\ doing[r] = "inside" /\ Unlocked
    /\ ended' = ended \cup {cookie[r]}
    /\ cookie' = [cookie EXCEPT ![r] = Nothing]
    /\ Goto(r, "idle")
    /\ UNCHANGED <<time, password, file, sessions, old, fresh, retired, spoilt>>

(* handleLogout: delete the session of the request's cookie, if it is still there. *)
Logout(r) ==
    /\ doing[r] = "inside" /\ Unlocked
    /\ sessions' = Without({cookie[r]})
    /\ ended' = ended \cup {cookie[r]}
    /\ cookie' = [cookie EXCEPT ![r] = Nothing]
    /\ Goto(r, "idle")
    /\ UNCHANGED <<time, password, file, old, fresh, retired, spoilt>>

(* cleanupSessions, every hour. *)
CleanupSessions ==
    LET past == {t \in DOMAIN sessions : time > sessions[t]}
    IN  /\ Unlocked /\ past # {}
        /\ sessions' = Without(past)
        /\ UNCHANGED <<time, password, file, doing, cookie, old, fresh, ended, retired, spoilt>>

(* The process stops and starts again: NewAuthManager loads the file and, when that *)
(* gives no admin, creates the default one and saves it.                            *)
Restart ==
    /\ Torn \/ Unlocked
    /\ password' = IF file = Nothing THEN Default ELSE file
    /\ \/ file' = password'
       \/ WriteFails /\ UNCHANGED file
    /\ spoilt' = (spoilt \/ ~Unlocked)
    /\ sessions' = Without(DOMAIN sessions)
    /\ ended' = ended \cup DOMAIN sessions
    /\ doing' = [r \in Requests |-> "idle"]
    /\ cookie' = [r \in Requests |-> Nothing]
    /\ old' = [r \in Requests |-> Nothing]
    /\ UNCHANGED <<time, fresh, retired>>

Tick ==
    /\ time < MaxTime
    /\ time' = time + 1
    /\ ended' = ended \cup {t \in DOMAIN sessions : time + 1 > sessions[t]}
    /\ UNCHANGED <<password, file, sessions, doing, cookie, old, fresh, retired, spoilt>>

AuthNext ==
    \/ \E r \in Requests :
          \/ \E p \in Passwords : Authenticate(r, p) \/ ChangePassword(r, p)
          \/ \E t \in Tokens : OpenSession(r, t) \/ AuthMiddleware(r, t)
          \/ SaveUsers(r) \/ Respond(r) \/ Logout(r)
    \/ CleanupSessions
    \/ Restart
    \/ Tick

AuthSpec == AuthInit /\ [][AuthNext]_authVars

-----------------------------------------------------------------------------
(* Type invariant; a drawn token is never drawn again. *)
AuthTypeOK ==
    /\ time \in 0 .. MaxTime
    /\ password \in Passwords
    /\ file \in Passwords \cup {Nothing}
    /\ DOMAIN sessions \subseteq Tokens \ fresh
    /\ \A t \in DOMAIN sessions : sessions[t] \in 0 .. (MaxTime + SessionTime)
    /\ doing \in [Requests -> {"idle", "mint", "inside", "saving"}]
    /\ cookie \in [Requests -> Tokens \cup {Nothing}]
    /\ old \in [Requests -> Passwords \cup {Nothing}]
    /\ fresh \subseteq Tokens
    /\ ended \subseteq Tokens \ fresh
    /\ retired \subseteq Passwords
    /\ spoilt \in BOOLEAN

(* A token that was logged out, has expired or was lost in a restart never opens the    *)
(* dashboard again, whatever logins, clean-ups and restarts follow (auth.go 122-197).     *)
EndedStaysEnded ==
    /\ AuthTypeOK
    /\ \A t \in ended : ~ValidateToken(t)

(* A replaced password comes back only through a fault in the very last save of the users  *)
(* file: once a save has gone through, neither earlier faults nor any restart bring one    *)
(* back (auth.go 45-99, 133-150).                                                          *)
OnlySpoiltComesBack == password \in retired => spoilt

(* The request of a logged-in user carries a drawn token, and a change of password *)
(* remembers the one it replaces.                                                  *)
RequestsKnown ==
    \A r \in Requests :
        /\ doing[r] = "inside" => cookie[r] \in Tokens \ fresh
        /\ doing[r] = "saving" => old[r] \in Passwords

(* Unless a save is under way, or the last one was spoilt, the users file has the password *)
(* in memory.                                                                              *)
Saved == ~spoilt /\ Unlocked => file = password

(* The inductive invariant behind EndedStaysEnded. *)
AuthIInv == EndedStaysEnded /\ RequestsKnown
=============================================================================
