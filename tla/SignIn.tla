-------------------------------- MODULE SignIn --------------------------------
(***************************************************************************)
(* Signing in (auth.py and its handlers in main.py).  There is one         *)
(* password; its salt and its hash are two settings.  A login checks the   *)
(* throttle, reads hash and salt, and records a failure or opens a         *)
(* session; a change of the password writes salt and hash and revokes the  *)
(* sessions.  Every database call is a transaction of its own, so logins   *)
(* of the two workers and changes interleave between any two of them.      *)
(***************************************************************************)
EXTENDS Integers, FiniteSets

CONSTANTS
    Logins,      \* the login handlers that may be running: one per worker
    Changers,    \* the handlers that may be changing the password
    MaxAttempts, \* MAX_ATTEMPTS
    Window,      \* ATTEMPT_WINDOW_MINUTES and LOCKOUT_MINUTES, in ticks
    MaxChanges,  \* bound: changes of the password
    MaxFaults,   \* bound: handlers that die between two transactions
    None

ASSUME HandlersAssumption == Logins \cap Changers = {} /\ IsFiniteSet(Logins)
ASSUME ThrottleAssumption == MaxAttempts \in Nat \ {0} /\ Window \in Nat \ {0}
ASSUME SignInBudgetAssumption == MaxChanges \in Nat /\ MaxFaults \in Nat
ASSUME SignInNoneAssumption == None \notin Int

VARIABLES
    salt, hash,  \* the settings auth_salt and auth_hash, None until set
    sessions,    \* the live sessions, as the passwords they were opened with
    failed,      \* login_failures of one address: how many of each age
    pc,          \* where a handler is
    guess,       \* the password a login was given
    seen,        \* the hash as a login read it
    drawn,       \* the password a change sets, with a salt of its own
    raced,       \* auxiliary: a change and the login were under way together
    changes,     \* auxiliary: the changes begun, which also number passwords
    lapped,      \* auxiliary: two changes were under way together
    faults

settings == <<salt, hash>>
locals   == <<guess, seen, drawn, raced>>
vars     == <<settings, sessions, failed, pc, locals, changes, lapped, faults>>

-----------------------------------------------------------------------------
Passwords == 0 .. MaxChanges
Hash      == [password : Passwords, salt : Passwords]
Session   == [password : Passwords, raced : BOOLEAN]
Handlers  == Logins \cup Changers
Nobody    == [l \in Logins |-> None]

\* The rows of ages 0 to n.
Total(rows, n) ==
    LET upto[age \in 0 .. n] ==
            IF age = 0 THEN rows[0] ELSE rows[age] + upto[age - 1]
    IN  upto[n]

Count == Total(failed, Window)

TypeOK ==
    /\ salt \in Passwords \cup {None}
    /\ hash \in Hash \cup {None}
    /\ hash # None => salt # None
    /\ sessions \subseteq Session
    /\ failed \in [0 .. Window -> Nat]
    /\ pc \in [Handlers -> {"idle", "counted", "allowed", "comparing", "wrong",
                            "right", "opening", "salting", "hashing",
                            "revoking"}]
    /\ guess \in [Logins -> Passwords \cup {None}]
    /\ seen \in [Logins -> Hash \cup {None}]
    /\ drawn \in [Changers -> Passwords \cup {None}]
    /\ raced \in [Logins -> BOOLEAN]
    /\ changes \in 0 .. MaxChanges
    /\ lapped \in BOOLEAN
    /\ faults \in 0 .. MaxFaults

Busy(h) == pc[h] # "idle"
Goto(h, where) == pc' = [pc EXCEPT ![h] = where]

\* A login starts out, and ends up, knowing nothing.
Forget(l) ==
    /\ guess' = [guess EXCEPT ![l] = None]
    /\ seen' = [seen EXCEPT ![l] = None]
    /\ raced' = [raced EXCEPT ![l] = FALSE]

\* A password may have been set before.
Init ==
    /\ \/ salt = None /\ hash = None
       \/ salt = 0 /\ hash = [password |-> 0, salt |-> 0]
    /\ sessions = {}
    /\ failed = [age \in 0 .. Window |-> 0]
    /\ pc = [h \in Handlers |-> "idle"]
    /\ guess = Nobody /\ seen = Nobody
    /\ drawn = [c \in Changers |-> None]
    /\ raced = [l \in Logins |-> FALSE]
    /\ changes = 0 /\ lapped = FALSE /\ faults = 0

-----------------------------------------------------------------------------
(* POST /login. *)

\* Mutants: one attempt too many; every attempt counts, refused ones too.
AllowsOneMore == Count <= MaxAttempts
Punished(l) == [failed EXCEPT ![0] = @ + 1]

\* lockout_remaining counts the recent failures ...
Allows == Count < MaxAttempts

BeginLogin(l, p) ==
    /\ pc[l] = "idle"
    /\ guess' = [guess EXCEPT ![l] = p]
    /\ raced' = [raced EXCEPT ![l] = \E c \in Changers : Busy(c)]
    /\ Goto(l, IF Allows THEN "allowed" ELSE "counted")
    /\ UNCHANGED <<settings, sessions, failed, seen, drawn, changes, lapped, faults>>

\* A refused attempt is not recorded.
Refused(l) == failed

\* ... and when there are too many, reads the last one: the pause runs from it.
ReadLast(l) ==
    /\ pc[l] = "counted"
    /\ \/ /\ \E age \in 0 .. Window - 1 : failed[age] # 0
          /\ failed' = Refused(l)
          /\ Goto(l, "idle")
          /\ Forget(l)
       \/ /\ \A age \in 0 .. Window - 1 : failed[age] = 0
          /\ Goto(l, "allowed")
          /\ UNCHANGED <<failed, guess, seen, raced>>
    /\ UNCHANGED <<settings, sessions, drawn, changes, lapped, faults>>

\* check_password reads the hash ...
ReadHash(l) ==
    /\ pc[l] = "allowed"
    /\ seen' = [seen EXCEPT ![l] = hash]
    /\ Goto(l, "comparing")
    /\ UNCHANGED <<settings, sessions, failed, guess, drawn, raced, changes,
                   lapped, faults>>

\* ... and then the salt, and hashes what it was given with it.
Matches(l) ==
    salt # None /\ seen[l] = [password |-> guess[l], salt |-> salt]

ReadSalt(l) ==
    /\ pc[l] = "comparing"
    /\ Goto(l, IF Matches(l) THEN "right" ELSE "wrong")
    /\ UNCHANGED <<settings, sessions, failed, locals, changes, lapped, faults>>

\* record_failure
RecordFailure(l) ==
    /\ pc[l] = "wrong"
    /\ failed' = [failed EXCEPT ![0] = @ + 1]
    /\ Goto(l, "idle")
    /\ Forget(l)
    /\ UNCHANGED <<settings, sessions, drawn, changes, lapped, faults>>

\* clear_failures
ClearFailures(l) ==
    /\ pc[l] = "right"
    /\ failed' = [age \in 0 .. Window |-> 0]
    /\ Goto(l, "opening")
    /\ UNCHANGED <<settings, sessions, locals, changes, lapped, faults>>

\* create_session
OpenSession(l) ==
    /\ pc[l] = "opening"
    /\ sessions' = sessions \cup {[password |-> guess[l], raced |-> raced[l]]}
    /\ Goto(l, "idle")
    /\ Forget(l)
    /\ UNCHANGED <<settings, failed, drawn, changes, lapped, faults>>

-----------------------------------------------------------------------------
(* PUT /api/auth/password. *)

\* require_sign_in: the gate is open until a password is set.
LetIn == salt = None \/ hash = None \/ sessions # {}

\* Mutants: the salt of a change is left behind; the sessions are.
Unsalted(c) == salt
Unrevoked == sessions

BeginChange(c) ==
    /\ pc[c] = "idle" /\ LetIn
    /\ changes < MaxChanges
    /\ changes' = changes + 1
    /\ drawn' = [drawn EXCEPT ![c] = changes + 1]
    /\ raced' = [l \in Logins |-> raced[l] \/ Busy(l)]
    /\ lapped' = (lapped \/ \E o \in Changers : Busy(o))
    /\ Goto(c, "salting")
    /\ UNCHANGED <<settings, sessions, failed, guess, seen, faults>>

Salted(c) == drawn[c]

\* set_password writes the salt ...
WriteSalt(c) ==
    /\ pc[c] = "salting"
    /\ salt' = Salted(c)
    /\ Goto(c, "hashing")
    /\ UNCHANGED <<hash, sessions, failed, locals, changes, lapped, faults>>

Hashed(c) == [password |-> drawn[c], salt |-> drawn[c]]

\* ... then the hash ...
WriteHash(c) ==
    /\ pc[c] = "hashing"
    /\ hash' = Hashed(c)
    /\ Goto(c, "revoking")
    /\ UNCHANGED <<salt, sessions, failed, locals, changes, lapped, faults>>

Revoked == {}

\* ... and revokes every session.
Revoke(c) ==
    /\ pc[c] = "revoking"
    /\ sessions' = Revoked
    /\ drawn' = [drawn EXCEPT ![c] = None]
    /\ Goto(c, "idle")
    /\ UNCHANGED <<settings, failed, guess, seen, raced, changes, lapped, faults>>

-----------------------------------------------------------------------------
(* The environment. *)

\* POST /api/auth/logout, or the session expires.
EndSession(s) ==
    /\ sessions' = sessions \ {s}
    /\ UNCHANGED <<settings, failed, pc, locals, changes, lapped, faults>>

\* A handler dies between two transactions.
Fail(h) ==
    /\ Busy(h)
    /\ faults < MaxFaults
    /\ faults' = faults + 1
    /\ Goto(h, "idle")
    /\ \/ h \in Logins /\ Forget(h) /\ UNCHANGED drawn
       \/ /\ h \in Changers
          /\ drawn' = [drawn EXCEPT ![h] = None]
          /\ UNCHANGED <<guess, seen, raced>>
    /\ UNCHANGED <<settings, sessions, failed, changes, lapped>>

\* Time passes; failures leave the window.
Tick ==
    /\ failed' = [age \in 0 .. Window |-> IF age = 0 THEN 0 ELSE failed[age - 1]]
    /\ UNCHANGED <<settings, sessions, pc, locals, changes, lapped, faults>>

Login(l) ==
    \/ ReadLast(l) \/ ReadHash(l) \/ ReadSalt(l)
    \/ RecordFailure(l) \/ ClearFailures(l) \/ OpenSession(l)

Change(c) == WriteSalt(c) \/ WriteHash(c) \/ Revoke(c)

Next ==
    \/ \E l \in Logins : Login(l) \/ \E p \in Passwords : BeginLogin(l, p)
    \/ \E c \in Changers : BeginChange(c) \/ Change(c)
    \/ \E s \in sessions : EndSession(s)
    \/ \E h \in Handlers : Fail(h)
    \/ Tick

Spec == Init /\ [][Next]_vars

-----------------------------------------------------------------------------
(* Properties. *)

Changing == \E c \in Changers : Busy(c)

\* set_password: the password just set is the one that works, whatever logins
\* come in between.  Two changes at once can leave the salt of one with the hash
\* of the other, and a change that dies the new salt with the old hash: then no
\* password works until a signed-in browser sets another.
PasswordWorks ==
    hash # None /\ ~Changing /\ ~lapped /\ faults = 0
        => salt = hash.salt /\ hash.password = changes

\* A password change signs everybody out: once it is done, whoever is signed in
\* knows the new password, or signed in while it was being changed.
OldSessionsEnd ==
    ~Changing /\ faults = 0
        => \A s \in sessions : s.password = hash.password \/ s.raced

\* A change takes hold: the new password works and the old one opens nothing.
ChangeTakesHold == PasswordWorks /\ OldSessionsEnd

\* The throttle: however logins overlap, each worker gets at most one attempt
\* past the limit into one window.
AttemptsAreCounted ==
    failed[Window] = 0 => Count < MaxAttempts + Cardinality(Logins)

\* A pause ends by itself: once the attempts let in before it are over, nothing
\* that is tried meanwhile prolongs it.
Paused == Count >= MaxAttempts /\ \E age \in 0 .. Window - 1 : failed[age] # 0

PauseIsNotProlonged ==
    [][Paused /\ (\A l \in Logins : pc[l] \notin {"allowed", "comparing", "wrong"})
        => failed'[0] <= failed[0]]_vars
=============================================================================
