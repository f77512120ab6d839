----------------------------- MODULE SignInProofs -----------------------------
(***************************************************************************)
(* Proofs about signing in, for any number of logins and of changes of the *)
(* password at the same time, and any number of passwords.                 *)
(***************************************************************************)
EXTENDS SignIn, FiniteSetTheorems, WellFoundedInduction, TLAPS

-----------------------------------------------------------------------------
(* The inductive invariant. *)

\* Types, and which steps belong to which kind of handler.
Typed ==
    /\ salt \in Passwords \cup {None}
    /\ hash \in Hash \cup {None}
    /\ hash # None => salt # None
    /\ sessions \subseteq Session
    /\ failed \in [0 .. Window -> Nat]
    /\ DOMAIN pc = Handlers
    /\ \A l \in Logins : pc[l] \in {"idle", "counted", "allowed", "comparing",
                                    "wrong", "right", "opening"}
    /\ \A c \in Changers : pc[c] \in {"idle", "salting", "hashing", "revoking"}
    /\ guess \in [Logins -> Passwords \cup {None}]
    /\ seen \in [Logins -> Hash \cup {None}]
    /\ drawn \in [Changers -> Passwords \cup {None}]
    /\ raced \in [Logins -> BOOLEAN]
    /\ changes \in 0 .. MaxChanges
    /\ lapped \in BOOLEAN
    /\ faults \in 0 .. MaxFaults
    /\ \A l \in Logins : Busy(l) => guess[l] \in Passwords
    /\ \A c \in Changers :
          /\ Busy(c) => drawn[c] \in Passwords
          /\ pc[c] \in {"hashing", "revoking"} => salt # None

\* A login no change was under way with has read the hash that is in force,
\* and is let in with its password only.
Unraced(l) ==
    Busy(l) /\ ~raced[l] =>
        /\ ~Changing
        /\ pc[l] \in {"comparing", "wrong", "right", "opening"} => seen[l] = hash
        /\ pc[l] \in {"right", "opening"} => guess[l] = hash.password

\* What the one change under way has already written.
Written(c) ==
    /\ Busy(c) => drawn[c] = changes
    /\ pc[c] \in {"hashing", "revoking"} => salt = changes
    /\ pc[c] = "revoking" => hash = [password |-> changes, salt |-> changes]

\* As long as no two changes overlap and none dies, there is one at a time, and
\* between two of them the settings belong together.
Settled ==
    ~lapped /\ faults = 0 =>
        /\ \A c, d \in Changers : Busy(c) /\ Busy(d) => c = d
        /\ \A c \in Changers : Written(c)
        /\ ~Changing /\ hash # None => salt = hash.salt /\ hash.password = changes

IInv ==
    /\ Typed
    /\ \A l \in Logins : Unraced(l)
    /\ Settled
    /\ OldSessionsEnd

-----------------------------------------------------------------------------
(* The initial states. *)

LEMMA IInvInit == Init => IInv
<1> SUFFICES ASSUME Init PROVE IInv
  OBVIOUS
<1> USE SignInBudgetAssumption, ThrottleAssumption DEF Init
<1>1. \A h \in Handlers : ~Busy(h)
  BY DEF Busy
<1>2. ~Changing /\ \A l \in Logins : ~Busy(l)
  BY <1>1 DEF Changing, Handlers
<1>3. Typed
  <2>1. salt \in Passwords \cup {None} /\ hash \in Hash \cup {None}
    BY DEF Passwords, Hash
  <2>2. hash # None => salt # None
    BY SignInNoneAssumption
  <2>3. /\ failed \in [0 .. Window -> Nat]
        /\ guess \in [Logins -> Passwords \cup {None}]
        /\ seen \in [Logins -> Hash \cup {None}]
        /\ drawn \in [Changers -> Passwords \cup {None}]
        /\ raced \in [Logins -> BOOLEAN]
    BY DEF Nobody
  <2>4. changes \in 0 .. MaxChanges /\ faults \in 0 .. MaxFaults
    OBVIOUS
  <2>8. lapped \in BOOLEAN
    OBVIOUS
  <2>7. sessions \subseteq Session
    OBVIOUS
  <2>5. /\ DOMAIN pc = Handlers
        /\ \A h \in Handlers : pc[h] = "idle"
    OBVIOUS
  <2>6. Logins \subseteq Handlers /\ Changers \subseteq Handlers
    BY DEF Handlers
  <2> HIDE DEF Init
  <2> QED
    BY <2>1, <2>2, <2>3, <2>4, <2>5, <2>6, <2>7, <2>8, <1>1 DEF Typed
<1>4. \A l \in Logins : Unraced(l)
  BY <1>2 DEF Unraced
<1>5. Settled
  <2>1. hash # None => salt = hash.salt /\ hash.password = changes
    OBVIOUS
  <2>2. \A c \in Changers : ~Busy(c) /\ pc[c] = "idle"
    BY DEF Busy, Handlers
  <2> HIDE DEF Init
  <2> QED
    BY <2>1, <2>2 DEF Settled, Written
<1>6. OldSessionsEnd
  BY DEF OldSessionsEnd
<1> QED
  BY <1>3, <1>4, <1>5, <1>6 DEF IInv

-----------------------------------------------------------------------------
(* Steps of a login. *)

LEMMA HandlersApart ==
    ASSUME NEW l \in Logins, NEW c \in Changers
    PROVE  l # c /\ l \in Handlers /\ c \in Handlers
BY HandlersAssumption DEF Handlers

\* What no step of a login touches.
LEMMA LoginFrame ==
    ASSUME Typed, NEW l \in Logins,
           Login(l) \/ \E p \in Passwords : BeginLogin(l, p)
    PROVE  /\ UNCHANGED <<salt, hash, drawn, changes, lapped, faults>>
           /\ \A c \in Changers : pc'[c] = pc[c]
           /\ \A k \in Logins \ {l} :
                 /\ pc'[k] = pc[k] /\ guess'[k] = guess[k]
                 /\ seen'[k] = seen[k] /\ raced'[k] = raced[k]
           /\ DOMAIN pc' = DOMAIN pc
<1>1. UNCHANGED <<salt, hash, drawn, changes, lapped, faults>>
  BY DEF Login, BeginLogin, ReadLast, ReadHash, ReadSalt, RecordFailure,
         ClearFailures, OpenSession, settings, locals
<1>2. \E where : pc' = [pc EXCEPT ![l] = where]
  <2>1. \E where : Goto(l, where)
    BY DEF Login, BeginLogin, ReadLast, ReadHash, ReadSalt, RecordFailure,
           ClearFailures, OpenSession
  <2> QED
    BY <2>1 DEF Goto
<1>3. \A k \in Logins \ {l} :
         /\ guess'[k] = guess[k] /\ seen'[k] = seen[k] /\ raced'[k] = raced[k]
  BY DEF Login, BeginLogin, ReadLast, ReadHash, ReadSalt, RecordFailure,
         ClearFailures, OpenSession, Forget, locals, Typed
<1>4. \A c \in Changers : pc'[c] = pc[c]
  BY <1>2, HandlersApart DEF Typed
<1>5. /\ DOMAIN pc' = DOMAIN pc
      /\ \A k \in Logins \ {l} : pc'[k] = pc[k]
  BY <1>2 DEF Typed
<1> QED
  BY <1>1, <1>3, <1>4, <1>5

\* The local variables of the login that steps keep their types.
LEMMA LoginLocals ==
    ASSUME Typed, NEW l \in Logins,
           Login(l) \/ \E p \in Passwords : BeginLogin(l, p)
    PROVE  /\ guess' \in [Logins -> Passwords \cup {None}]
           /\ seen' \in [Logins -> Hash \cup {None}]
           /\ raced' \in [Logins -> BOOLEAN]
           /\ failed' \in [0 .. Window -> Nat]
           /\ sessions' \subseteq Session
           /\ pc'[l] \in {"idle", "counted", "allowed", "comparing", "wrong",
                          "right", "opening"}
           /\ pc'[l] # "idle" => guess'[l] \in Passwords
<1>1. /\ guess \in [Logins -> Passwords \cup {None}]
      /\ seen \in [Logins -> Hash \cup {None}]
      /\ raced \in [Logins -> BOOLEAN]
      /\ hash \in Hash \cup {None}
      /\ failed \in [0 .. Window -> Nat]
      /\ sessions \subseteq Session
      /\ l \in DOMAIN pc
      /\ pc[l] # "idle" => guess[l] \in Passwords
  BY DEF Typed, Busy, Handlers
<1>2. CASE \E p \in Passwords : BeginLogin(l, p)
  <2>1. PICK p \in Passwords : BeginLogin(l, p)
    BY <1>2
  <2>2. UNCHANGED <<seen, failed, sessions>>
    BY <2>1 DEF BeginLogin
  <2>3. /\ guess' = [guess EXCEPT ![l] = p]
        /\ raced' = [raced EXCEPT ![l] = Changing]
    BY <2>1 DEF BeginLogin, Changing
  <2>4. Changing \in BOOLEAN
    BY DEF Changing
  <2>5. pc'[l] = "allowed" \/ pc'[l] = "counted"
    BY <1>1, <2>1 DEF BeginLogin, Goto
  <2>6. raced' \in [Logins -> BOOLEAN]
    BY <1>1, <2>3, <2>4
  <2> QED
    BY <1>1, <2>2, <2>3, <2>5, <2>6
<1>3. CASE ReadLast(l) \/ RecordFailure(l) \/ ClearFailures(l)
  <2>1. failed' \in [0 .. Window -> Nat]
    BY <1>1, <1>3 DEF ReadLast, RecordFailure, ClearFailures, Refused
  <2>2. /\ UNCHANGED sessions /\ pc[l] # "idle"
        /\ \/ UNCHANGED <<guess, seen, raced>>
           \/ Forget(l) /\ pc'[l] = "idle"
        /\ pc'[l] \in {"idle", "allowed", "opening"}
    BY <1>1, <1>3 DEF ReadLast, RecordFailure, ClearFailures, Goto, locals
  <2> QED
    BY <1>1, <2>1, <2>2 DEF Forget
<1>4. CASE ReadHash(l)
  <2>1. /\ seen' = [seen EXCEPT ![l] = hash] /\ pc'[l] = "comparing"
        /\ pc[l] # "idle" /\ UNCHANGED <<guess, raced, failed, sessions>>
    BY <1>1, <1>4 DEF ReadHash, Goto
  <2> QED
    BY <1>1, <2>1
<1>5. CASE ReadSalt(l)
  <2>1. /\ pc'[l] = "right" \/ pc'[l] = "wrong"
        /\ pc[l] # "idle" /\ UNCHANGED <<guess, seen, raced, failed, sessions>>
    BY <1>1, <1>5 DEF ReadSalt, Goto, locals
  <2> QED
    BY <1>1, <2>1
<1>6. CASE OpenSession(l)
  <2>1. /\ sessions' = sessions \cup {[password |-> guess[l], raced |-> raced[l]]}
        /\ pc[l] # "idle" /\ Forget(l) /\ UNCHANGED failed /\ pc'[l] = "idle"
    BY <1>1, <1>6 DEF OpenSession, Goto
  <2>2. [password |-> guess[l], raced |-> raced[l]] \in Session
    BY <1>1, <2>1 DEF Session
  <2>3. sessions' \subseteq Session
    BY <1>1, <2>1, <2>2
  <2> QED
    BY <1>1, <2>1, <2>3 DEF Forget
<1> QED
  BY <1>2, <1>3, <1>4, <1>5, <1>6 DEF Login

\* What an undisturbed login knows stays true.
LEMMA LoginUnraced ==
    ASSUME Typed, NEW l \in Logins, Unraced(l),
           Login(l) \/ \E p \in Passwords : BeginLogin(l, p)
    PROVE  Unraced(l)'
<1>1. /\ l \in DOMAIN pc /\ l \in Logins
      /\ seen \in [Logins -> Hash \cup {None}]
      /\ raced \in [Logins -> BOOLEAN]
  BY DEF Typed, Handlers
<1>2. Changing' = Changing /\ hash' = hash
  BY LoginFrame DEF Changing, Busy
<1>3. CASE \E p \in Passwords : BeginLogin(l, p)
  <2>1. raced' = [raced EXCEPT ![l] = Changing]
    BY <1>3 DEF BeginLogin, Changing
  <2>2. pc'[l] = "allowed" \/ pc'[l] = "counted"
    BY <1>1, <1>3 DEF BeginLogin, Goto
  <2>3. raced'[l] = Changing
    BY <1>1, <2>1
  <2> QED
    BY <1>2, <2>2, <2>3 DEF Unraced
<1>4. CASE ReadLast(l) \/ RecordFailure(l) \/ OpenSession(l)
  <2>1. pc'[l] = "idle" \/ (pc'[l] = "allowed" /\ raced' = raced /\ pc[l] = "counted")
    BY <1>1, <1>4 DEF ReadLast, RecordFailure, OpenSession, Goto
  <2> QED
    BY <1>2, <2>1 DEF Unraced, Busy
<1>5. CASE ReadHash(l)
  <2>1. /\ pc[l] = "allowed" /\ pc'[l] = "comparing"
        /\ raced' = raced /\ seen'[l] = hash
    BY <1>1, <1>5 DEF ReadHash, Goto
  <2> QED
    BY <1>2, <2>1 DEF Unraced, Busy
<1>6. CASE ReadSalt(l)
  <2>1. /\ pc[l] = "comparing" /\ raced' = raced /\ seen' = seen /\ guess' = guess
        /\ \/ pc'[l] = "wrong"
           \/ /\ pc'[l] = "right"
              /\ seen[l] = [password |-> guess[l], salt |-> salt]
    BY <1>1, <1>6 DEF ReadSalt, Goto, Matches, locals
  <2> QED
    BY <1>2, <2>1 DEF Unraced, Busy
<1>7. CASE ClearFailures(l)
  <2>1. /\ pc[l] = "right" /\ pc'[l] = "opening" /\ raced' = raced
        /\ seen' = seen /\ guess' = guess
    BY <1>1, <1>7 DEF ClearFailures, Goto, locals
  <2> QED
    BY <1>2, <2>1 DEF Unraced, Busy
<1> QED
  BY <1>3, <1>4, <1>5, <1>6, <1>7 DEF Login

\* A session opened by an undisturbed login has the password in force.
LEMMA LoginSessions ==
    ASSUME IInv, NEW l \in Logins,
           Login(l) \/ \E p \in Passwords : BeginLogin(l, p)
    PROVE  OldSessionsEnd'
<1>1. /\ Changing' = Changing /\ hash' = hash /\ faults' = faults
  BY LoginFrame DEF Changing, Busy, IInv
<1>2. CASE OpenSession(l)
  <2>1. /\ sessions' = sessions \cup {[password |-> guess[l], raced |-> raced[l]]}
        /\ pc[l] = "opening"
    BY <1>2 DEF OpenSession
  <2>2. raced[l] \/ guess[l] = hash.password
    BY <2>1 DEF IInv, Unraced, Busy
  <2>3. OldSessionsEnd
    BY DEF IInv
  <2> QED
    BY <1>1, <2>1, <2>2, <2>3 DEF OldSessionsEnd
<1>3. CASE ~OpenSession(l)
  <2>1. sessions' = sessions
    BY <1>3 DEF Login, BeginLogin, ReadLast, ReadHash, ReadSalt, RecordFailure,
                ClearFailures
  <2> QED
    BY <1>1, <2>1 DEF IInv, OldSessionsEnd
<1> QED
  BY <1>2, <1>3

\* A login's step keeps the invariant.
LEMMA LoginStep ==
    ASSUME IInv, NEW l \in Logins,
           Login(l) \/ \E p \in Passwords : BeginLogin(l, p)
    PROVE  IInv'
<1>1. Typed /\ Unraced(l)
  BY DEF IInv
<1>2. /\ UNCHANGED <<salt, hash, drawn, changes, lapped, faults>>
      /\ \A c \in Changers : pc'[c] = pc[c]
      /\ \A k \in Logins \ {l} :
            /\ pc'[k] = pc[k] /\ guess'[k] = guess[k]
            /\ seen'[k] = seen[k] /\ raced'[k] = raced[k]
      /\ DOMAIN pc' = DOMAIN pc
  BY <1>1, LoginFrame
<1>3. Typed'
  <2>1. \A k \in Logins : /\ pc'[k] \in {"idle", "counted", "allowed",
                                         "comparing", "wrong", "right", "opening"}
                          /\ Busy(k)' => guess'[k] \in Passwords
    <3> SUFFICES ASSUME NEW k \in Logins
                 PROVE  /\ pc'[k] \in {"idle", "counted", "allowed",
                                       "comparing", "wrong", "right", "opening"}
                        /\ Busy(k)' => guess'[k] \in Passwords
      OBVIOUS
    <3>1. CASE k = l
      BY <1>1, <3>1, LoginLocals DEF Busy
    <3>2. CASE k # l
      BY <1>1, <1>2, <3>2 DEF Typed, Busy
    <3> QED
      BY <3>1, <3>2
  <2>2. \A c \in Changers : Busy(c)' = Busy(c)
    BY <1>2 DEF Busy
  <2>3. /\ guess' \in [Logins -> Passwords \cup {None}]
        /\ seen' \in [Logins -> Hash \cup {None}]
        /\ raced' \in [Logins -> BOOLEAN]
        /\ failed' \in [0 .. Window -> Nat]
        /\ sessions' \subseteq Session
    BY <1>1, LoginLocals
  <2> QED
    BY <1>1, <1>2, <2>1, <2>2, <2>3 DEF Typed
<1>4. \A k \in Logins : Unraced(k)'
  <2> SUFFICES ASSUME NEW k \in Logins PROVE Unraced(k)'
    OBVIOUS
  <2>1. CASE k = l
    BY <1>1, <2>1, LoginUnraced
  <2>2. CASE k # l
    <3>1. Changing' = Changing
      BY <1>2 DEF Changing, Busy
    <3> QED
      BY <1>2, <2>2, <3>1 DEF IInv, Unraced, Busy
  <2> QED
    BY <2>1, <2>2
<1>5. Settled'
  BY <1>2 DEF IInv, Settled, Written, Changing, Busy
<1>6. OldSessionsEnd'
  BY LoginSessions
<1> QED
  BY <1>3, <1>4, <1>5, <1>6 DEF IInv

-----------------------------------------------------------------------------
(* Steps of a change. *)

\* What a step of a change leaves alone.
LEMMA ChangeFrame ==
    ASSUME Typed, NEW c \in Changers, BeginChange(c) \/ Change(c)
    PROVE  /\ UNCHANGED <<failed, guess, seen, faults>>
           /\ \A l \in Logins : pc'[l] = pc[l]
           /\ \A d \in Changers \ {c} : pc'[d] = pc[d] /\ drawn'[d] = drawn[d]
           /\ DOMAIN pc' = DOMAIN pc
<1>1. UNCHANGED <<failed, guess, seen, faults>>
  BY DEF Change, BeginChange, WriteSalt, WriteHash, Revoke, locals
<1>2. \E where : pc' = [pc EXCEPT ![c] = where]
  <2>1. \E where : Goto(c, where)
    BY DEF Change, BeginChange, WriteSalt, WriteHash, Revoke
  <2> QED
    BY <2>1 DEF Goto
<1>3. \A d \in Changers \ {c} : drawn'[d] = drawn[d]
  BY DEF Change, BeginChange, WriteSalt, WriteHash, Revoke, locals, Typed
<1>4. \A l \in Logins : pc'[l] = pc[l]
  BY <1>2, HandlersApart DEF Typed
<1>5. /\ DOMAIN pc' = DOMAIN pc
      /\ \A d \in Changers \ {c} : pc'[d] = pc[d]
  BY <1>2 DEF Typed
<1> QED
  BY <1>1, <1>3, <1>4, <1>5

\* A change begins: whoever is signing in is no longer undisturbed.
LEMMA BeginChangeStep ==
    ASSUME IInv, NEW c \in Changers, BeginChange(c)
    PROVE  IInv'
<1>1. Typed
  BY DEF IInv
<1>2. /\ UNCHANGED <<failed, guess, seen, faults>>
      /\ \A l \in Logins : pc'[l] = pc[l]
      /\ \A d \in Changers \ {c} : pc'[d] = pc[d] /\ drawn'[d] = drawn[d]
      /\ DOMAIN pc' = DOMAIN pc
  BY <1>1, ChangeFrame
<1>3. /\ salt' = salt /\ hash' = hash /\ sessions' = sessions
      /\ changes' = changes + 1 /\ changes < MaxChanges
      /\ drawn' = [drawn EXCEPT ![c] = changes + 1]
      /\ raced' = [l \in Logins |-> raced[l] \/ Busy(l)]
      /\ lapped' = (lapped \/ \E o \in Changers : Busy(o))
      /\ pc[c] = "idle"
  BY DEF BeginChange, settings
<1>4. pc'[c] = "salting"
  BY <1>1 DEF BeginChange, Goto, Typed, Handlers
<1>5. changes \in Nat /\ changes + 1 \in Passwords /\ changes' \in 0 .. MaxChanges
  BY <1>1, <1>3, SignInBudgetAssumption DEF Typed, Passwords
<1>6. drawn' \in [Changers -> Passwords \cup {None}] /\ drawn'[c] = changes + 1
  BY <1>1, <1>3, <1>5 DEF Typed
<1>7. Typed'
  <2>1. \A d \in Changers :
           /\ pc'[d] \in {"idle", "salting", "hashing", "revoking"}
           /\ Busy(d)' => drawn'[d] \in Passwords
           /\ pc'[d] \in {"hashing", "revoking"} => salt # None
    <3> SUFFICES ASSUME NEW d \in Changers
                 PROVE  /\ pc'[d] \in {"idle", "salting", "hashing", "revoking"}
                        /\ Busy(d)' => drawn'[d] \in Passwords
                        /\ pc'[d] \in {"hashing", "revoking"} => salt # None
      OBVIOUS
    <3>1. CASE d = c
      BY <3>1, <1>4, <1>5, <1>6
    <3>2. CASE d # c
      BY <3>2, <1>1, <1>2 DEF Typed, Busy
    <3> QED
      BY <3>1, <3>2
  <2>2. raced' \in [Logins -> BOOLEAN]
    <3>1. \A l \in Logins : (raced[l] \/ Busy(l)) \in BOOLEAN
      OBVIOUS
    <3> QED
      BY <1>3, <3>1
  <2>3. lapped' \in BOOLEAN
    BY <1>3
  <2>4. \A l \in Logins : Busy(l)' = Busy(l)
    BY <1>2 DEF Busy
  <2>5. /\ salt' \in Passwords \cup {None}
        /\ hash' \in Hash \cup {None}
        /\ hash' # None => salt' # None
        /\ sessions' \subseteq Session
    BY <1>1, <1>3 DEF Typed
  <2>6. /\ failed' \in [0 .. Window -> Nat]
        /\ DOMAIN pc' = Handlers
        /\ \A l \in Logins : pc'[l] \in {"idle", "counted", "allowed",
                                         "comparing", "wrong", "right", "opening"}
        /\ guess' \in [Logins -> Passwords \cup {None}]
        /\ seen' \in [Logins -> Hash \cup {None}]
        /\ faults' \in 0 .. MaxFaults
        /\ \A l \in Logins : Busy(l)' => guess'[l] \in Passwords
    BY <1>1, <1>2, <2>4 DEF Typed
  <2> QED
    BY <1>3, <1>5, <1>6, <2>1, <2>2, <2>3, <2>5, <2>6 DEF Typed
<1>8. \A l \in Logins : Unraced(l)'
  BY <1>2, <1>3 DEF Unraced, Busy
<1>9. Settled'
  <2> SUFFICES ASSUME ~lapped', faults' = 0
               PROVE  /\ \A d, e \in Changers : Busy(d)' /\ Busy(e)' => d = e
                      /\ \A d \in Changers : Written(d)'
                      /\ Changing'
    BY DEF Settled
  <2>1. \A d \in Changers : ~Busy(d)
    BY <1>3
  <2>2. \A d \in Changers \ {c} : pc'[d] = "idle"
    BY <1>2, <2>1 DEF Busy
  <2> QED
    BY <1>3, <1>4, <1>6, <2>2 DEF Written, Busy, Changing
<1>10. OldSessionsEnd'
  BY <1>4 DEF OldSessionsEnd, Changing, Busy
<1> QED
  BY <1>7, <1>8, <1>9, <1>10 DEF IInv

\* A change goes on: whoever signs in undisturbed does not exist.
LEMMA ChangeStep ==
    ASSUME IInv, NEW c \in Changers, Change(c)
    PROVE  IInv'
<1>1. Typed /\ Busy(c) /\ Changing
  BY DEF IInv, Change, WriteSalt, WriteHash, Revoke, Busy, Changing
<1>2. /\ UNCHANGED <<failed, guess, seen, faults>>
      /\ \A l \in Logins : pc'[l] = pc[l]
      /\ \A d \in Changers \ {c} : pc'[d] = pc[d] /\ drawn'[d] = drawn[d]
      /\ DOMAIN pc' = DOMAIN pc
  BY <1>1, ChangeFrame
<1>3. c \in DOMAIN pc /\ drawn[c] \in Passwords /\ drawn[c] # None
  BY <1>1, SignInNoneAssumption DEF Typed, Handlers, Passwords
<1>4. UNCHANGED <<raced, changes, lapped>>
  BY DEF Change, WriteSalt, WriteHash, Revoke, locals
<1>5. \/ /\ pc[c] = "salting" /\ pc'[c] = "hashing"
         /\ salt' = drawn[c] /\ UNCHANGED <<hash, sessions, drawn>>
      \/ /\ pc[c] = "hashing" /\ pc'[c] = "revoking"
         /\ hash' = [password |-> drawn[c], salt |-> drawn[c]]
         /\ UNCHANGED <<salt, sessions, drawn>>
      \/ /\ pc[c] = "revoking" /\ pc'[c] = "idle"
         /\ sessions' = {} /\ drawn' = [drawn EXCEPT ![c] = None]
         /\ UNCHANGED <<salt, hash>>
  BY <1>3 DEF Change, WriteSalt, WriteHash, Revoke, Goto, Salted, Hashed, Revoked,
              locals, settings
<1>6. Typed'
  <2>1. /\ salt' \in Passwords \cup {None}
        /\ hash' \in Hash \cup {None}
        /\ sessions' \subseteq Session
        /\ drawn' \in [Changers -> Passwords \cup {None}]
    BY <1>1, <1>3, <1>5 DEF Typed, Hash
  <2>2. salt # None => salt' # None
    BY <1>3, <1>5
  <2>3. pc'[c] \in {"hashing", "revoking"} => salt' # None
    BY <1>1, <1>3, <1>5 DEF Typed
  <2>4. hash' # None => salt' # None
    BY <1>1, <1>5, <2>2, <2>3 DEF Typed
  <2>5. \A d \in Changers :
           /\ pc'[d] \in {"idle", "salting", "hashing", "revoking"}
           /\ Busy(d)' => drawn'[d] \in Passwords
           /\ pc'[d] \in {"hashing", "revoking"} => salt' # None
    <3> SUFFICES ASSUME NEW d \in Changers
                 PROVE  /\ pc'[d] \in {"idle", "salting", "hashing", "revoking"}
                        /\ Busy(d)' => drawn'[d] \in Passwords
                        /\ pc'[d] \in {"hashing", "revoking"} => salt' # None
      OBVIOUS
    <3>1. CASE d = c
      BY <3>1, <1>3, <1>5, <2>3 DEF Busy
    <3>2. CASE d # c
      BY <3>2, <1>1, <1>2, <2>2 DEF Typed, Busy
    <3> QED
      BY <3>1, <3>2
  <2>6. \A l \in Logins : Busy(l)' = Busy(l)
    BY <1>2 DEF Busy
  <2>7. /\ failed' \in [0 .. Window -> Nat]
        /\ DOMAIN pc' = Handlers
        /\ \A l \in Logins : pc'[l] \in {"idle", "counted", "allowed",
                                         "comparing", "wrong", "right", "opening"}
        /\ guess' \in [Logins -> Passwords \cup {None}]
        /\ seen' \in [Logins -> Hash \cup {None}]
        /\ raced' \in [Logins -> BOOLEAN]
        /\ changes' \in 0 .. MaxChanges /\ lapped' \in BOOLEAN
        /\ faults' \in 0 .. MaxFaults
        /\ \A l \in Logins : Busy(l)' => guess'[l] \in Passwords
    BY <1>1, <1>2, <1>4, <2>6 DEF Typed
  <2> QED
    BY <2>1, <2>4, <2>5, <2>7 DEF Typed
<1>7. \A l \in Logins : Unraced(l)'
  <2>1. \A l \in Logins : Busy(l) => raced[l]
    BY <1>1 DEF IInv, Unraced
  <2> QED
    BY <1>2, <1>4, <2>1 DEF Unraced, Busy
<1>8. Settled'
  <2> SUFFICES ASSUME ~lapped', faults' = 0
               PROVE  /\ \A d, e \in Changers : Busy(d)' /\ Busy(e)' => d = e
                      /\ \A d \in Changers : Written(d)'
                      /\ ~Changing' /\ hash' # None =>
                            salt' = hash'.salt /\ hash'.password = changes'
    BY DEF Settled
  <2>1. /\ \A d, e \in Changers : Busy(d) /\ Busy(e) => d = e
        /\ Written(c) /\ drawn[c] = changes
    BY <1>1, <1>2, <1>4 DEF IInv, Settled, Written
  <2>2. \A d \in Changers \ {c} : pc'[d] = "idle"
    BY <1>1, <1>2, <2>1 DEF Busy
  <2>3. \A d, e \in Changers : Busy(d)' /\ Busy(e)' => d = e
    BY <2>2 DEF Busy
  <2>4. Written(c)'
    BY <1>4, <1>5, <2>1 DEF Written, Busy
  <2>5. \A d \in Changers : Written(d)'
    BY <2>2, <2>4 DEF Written, Busy
  <2>6. ~Changing' /\ hash' # None =>
            salt' = hash'.salt /\ hash'.password = changes'
    BY <1>4, <1>5, <2>1 DEF Written, Changing, Busy
  <2> QED
    BY <2>3, <2>5, <2>6
<1>9. OldSessionsEnd'
  BY <1>5 DEF OldSessionsEnd, Changing, Busy
<1> QED
  BY <1>6, <1>7, <1>8, <1>9 DEF IInv

-----------------------------------------------------------------------------
(* The environment. *)

\* A handler dies: it loses what it knew, and nothing written is undone.
LEMMA FailStep ==
    ASSUME IInv, NEW h \in Handlers, Fail(h)
    PROVE  IInv'
<1>1. Typed
  BY DEF IInv
<1>2. /\ UNCHANGED <<salt, hash, sessions, failed, changes, lapped>>
      /\ faults' = faults + 1 /\ faults < MaxFaults
      /\ pc' = [pc EXCEPT ![h] = "idle"]
  BY DEF Fail, Goto, settings
<1>3. /\ h \in Logins => /\ Forget(h) /\ drawn' = drawn
      /\ h \in Changers => /\ drawn' = [drawn EXCEPT ![h] = None]
                           /\ UNCHANGED <<guess, seen, raced>>
  BY HandlersApart DEF Fail
<1>4. faults' \in 0 .. MaxFaults /\ faults' # 0
  BY <1>1, <1>2, SignInBudgetAssumption DEF Typed
<1>5. \A k \in Handlers : pc'[k] = IF k = h THEN "idle" ELSE pc[k]
  BY <1>1, <1>2 DEF Typed
<1>6. \A k \in Handlers : Busy(k)' => Busy(k) /\ k # h
  BY <1>5 DEF Busy
<1>7. /\ guess' \in [Logins -> Passwords \cup {None}]
      /\ seen' \in [Logins -> Hash \cup {None}]
      /\ raced' \in [Logins -> BOOLEAN]
      /\ drawn' \in [Changers -> Passwords \cup {None}]
  <2>1. /\ guess \in [Logins -> Passwords \cup {None}]
        /\ seen \in [Logins -> Hash \cup {None}]
        /\ raced \in [Logins -> BOOLEAN]
        /\ drawn \in [Changers -> Passwords \cup {None}]
    BY <1>1 DEF Typed
  <2>2. CASE h \in Logins
    BY <1>3, <2>1, <2>2 DEF Forget
  <2>3. CASE h \in Changers
    BY <1>3, <2>1, <2>3
  <2> QED
    BY <2>2, <2>3 DEF Handlers
<1>8. /\ \A l \in Logins \ {h} : /\ guess'[l] = guess[l] /\ seen'[l] = seen[l]
                                 /\ raced'[l] = raced[l]
      /\ \A c \in Changers \ {h} : drawn'[c] = drawn[c]
  <2>1. CASE h \in Logins
    BY <1>1, <1>3, <2>1 DEF Forget, Typed
  <2>2. CASE h \in Changers
    BY <1>1, <1>3, <2>2 DEF Typed
  <2> QED
    BY <2>1, <2>2 DEF Handlers
<1>9. Typed'
  <2>1. /\ \A l \in Logins : /\ pc'[l] \in {"idle", "counted", "allowed",
                                            "comparing", "wrong", "right",
                                            "opening"}
                             /\ Busy(l)' => guess'[l] \in Passwords
    BY <1>1, <1>5, <1>6, <1>8 DEF Typed, Handlers
  <2>2. \A c \in Changers :
           /\ pc'[c] \in {"idle", "salting", "hashing", "revoking"}
           /\ Busy(c)' => drawn'[c] \in Passwords
           /\ pc'[c] \in {"hashing", "revoking"} => salt # None
    BY <1>1, <1>5, <1>6, <1>8 DEF Typed, Handlers
  <2>3. DOMAIN pc' = Handlers
    BY <1>1, <1>2 DEF Typed
  <2> QED
    BY <1>1, <1>2, <1>4, <1>7, <2>1, <2>2, <2>3 DEF Typed
<1>10. \A l \in Logins : Unraced(l)'
  <2>1. Changing' => Changing
    BY <1>6 DEF Changing, Handlers
  <2> QED
    BY <1>2, <1>5, <1>6, <1>8, <2>1 DEF IInv, Unraced, Handlers
<1>11. Settled' /\ OldSessionsEnd'
  BY <1>4 DEF Settled, OldSessionsEnd
<1> QED
  BY <1>9, <1>10, <1>11 DEF IInv

\* A session ends, or time passes.
LEMMA WorldStep ==
    ASSUME IInv, Tick \/ (\E s \in sessions : EndSession(s)) \/ UNCHANGED vars
    PROVE  IInv'
<1>1. /\ UNCHANGED <<salt, hash, pc, guess, seen, drawn, raced, changes, lapped,
                     faults>>
      /\ sessions' \subseteq sessions
  BY DEF Tick, EndSession, vars, settings, locals
<1>2. failed' \in [0 .. Window -> Nat]
  <2>1. failed \in [0 .. Window -> Nat]
    BY DEF IInv, Typed
  <2>2. CASE Tick
    <3>1. \A age \in 0 .. Window :
             (IF age = 0 THEN 0 ELSE failed[age - 1]) \in Nat
      BY <2>1, ThrottleAssumption
    <3> QED
      BY <2>2, <3>1 DEF Tick
  <2>3. CASE ~Tick
    BY <2>1, <2>3 DEF EndSession, vars
  <2> QED
    BY <2>2, <2>3
<1>3. Typed'
  BY <1>1, <1>2 DEF IInv, Typed, Busy
<1>4. (\A l \in Logins : Unraced(l)') /\ Settled' /\ OldSessionsEnd'
  BY <1>1 DEF IInv, Unraced, Settled, Written, OldSessionsEnd, Changing, Busy
<1> QED
  BY <1>3, <1>4 DEF IInv

LEMMA IInvNext == IInv /\ [Next]_vars => IInv'
<1> SUFFICES ASSUME IInv, [Next]_vars PROVE IInv'
  OBVIOUS
<1>1. CASE \E l \in Logins : Login(l) \/ \E p \in Passwords : BeginLogin(l, p)
  BY <1>1, LoginStep
<1>2. CASE \E c \in Changers : BeginChange(c) \/ Change(c)
  BY <1>2, BeginChangeStep, ChangeStep
<1>3. CASE \E h \in Handlers : Fail(h)
  BY <1>3, FailStep
<1>4. CASE Tick \/ (\E s \in sessions : EndSession(s)) \/ UNCHANGED vars
  BY <1>4, WorldStep
<1> QED
  BY <1>1, <1>2, <1>3, <1>4 DEF Next

-----------------------------------------------------------------------------
(* Totals.  The recursion of Total is over ages; that it has a solution, only *)
(* one, and what it computes follow from the least counterexample. *)

\* A set of naturals that is not empty has a least member.
LEMMA LeastExists ==
    ASSUME NEW S \in SUBSET Nat, S # {}
    PROVE  \E m \in S : \A k \in S : m <= k
<1> DEFINE R == {ss \in Nat \X Nat : ss[1] < ss[2]}
<1>1. IsWellFoundedOn(R, Nat)
  BY NatLessThanWellFounded DEF OpToRel
<1> HIDE DEF R
<1>2. PICK x \in S : \A y \in S : ~(<<y, x>> \in R)
  BY <1>1, WFMin
<1> USE DEF R
<1>3. \A y \in S : ~(y < x)
  BY <1>2
<1> QED
  BY <1>3

\* Whether g holds the running totals of f up to n.
Adds(f, n, g) ==
    \A k \in 0 .. n : g[k] = IF k = 0 THEN f[0] ELSE f[k] + g[k - 1]

\* Running totals exist, and there is one value of each.
LEMMA AddsExists ==
    ASSUME NEW w \in Nat, NEW f \in [0 .. w -> Nat], NEW n \in 0 .. w
    PROVE  \E g \in [0 .. n -> Nat] : Adds(f, n, g)
<1> DEFINE Bad == {m \in 0 .. w : ~ \E g \in [0 .. m -> Nat] : Adds(f, m, g)}
<1>1. ASSUME Bad # {} PROVE FALSE
  <2>1. PICK m \in Bad : \A k \in Bad : m <= k
    <3>1. Bad \in SUBSET Nat
      OBVIOUS
    <3> HIDE DEF Bad
    <3> QED
      BY <1>1, <3>1, LeastExists
  <2>2. CASE m = 0
    <3> DEFINE g == [k \in 0 .. 0 |-> f[0]]
    <3>1. g \in [0 .. 0 -> Nat] /\ Adds(f, 0, g)
      BY DEF Adds
    <3> HIDE DEF g
    <3> QED
      BY <2>1, <2>2, <3>1
  <2>3. CASE m # 0
    <3>1. m - 1 \in 0 .. w /\ m - 1 \notin Bad /\ m \in 0 .. w
      <4>1. m \in 0 .. w
        OBVIOUS
      <4> HIDE DEF Bad
      <4>2. m - 1 \in 0 .. w /\ ~(m <= m - 1)
        BY <2>3, <4>1
      <4>3. m - 1 \notin Bad
        BY <2>1, <4>2
      <4> QED
        BY <4>1, <4>2, <4>3
    <3>2. PICK h \in [0 .. m - 1 -> Nat] : Adds(f, m - 1, h)
      BY <3>1
    <3> DEFINE g == [k \in 0 .. m |-> IF k = m THEN f[m] + h[m - 1] ELSE h[k]]
    <3>3. /\ h \in [0 .. m - 1 -> Nat]
          /\ \A k \in 0 .. m - 1 : h[k] = IF k = 0 THEN f[0] ELSE f[k] + h[k - 1]
      BY <3>2 DEF Adds
    <3>4. g \in [0 .. m -> Nat]
      BY <3>1, <3>3
    <3>5. ASSUME NEW k \in 0 .. m
          PROVE  g[k] = IF k = 0 THEN f[0] ELSE f[k] + g[k - 1]
      <4>1. CASE k = 0
        BY <2>3, <3>1, <3>3, <4>1
      <4>2. CASE k = m
        BY <2>3, <3>1, <4>2
      <4>3. CASE k # 0 /\ k # m
        <5>1. k \in 0 .. m - 1 /\ k - 1 \in 0 .. m /\ k - 1 # m
          BY <3>1, <4>3
        <5>2. g[k] = h[k] /\ g[k - 1] = h[k - 1]
          BY <5>1, <4>3
        <5> HIDE DEF g
        <5> QED
          BY <3>3, <4>3, <5>1, <5>2
      <4> QED
        BY <4>1, <4>2, <4>3
    <3> HIDE DEF g
    <3>6. Adds(f, m, g)
      BY <3>4, <3>5 DEF Adds
    <3> QED
      BY <2>1, <3>4, <3>6
  <2> QED
    BY <2>2, <2>3
<1> QED
  BY <1>1

LEMMA AddsUnique ==
    ASSUME NEW f, NEW n \in Nat, NEW m \in Nat, NEW g, NEW h,
           Adds(f, n, g), Adds(f, m, h), NEW k \in Nat, k <= n, k <= m
    PROVE  g[k] = h[k]
<1> DEFINE Bad == {j \in 0 .. k : g[j] # h[j]}
<1>1. ASSUME Bad # {} PROVE FALSE
  <2>1. PICK j \in Bad : \A i \in Bad : j <= i
    <3>1. Bad \in SUBSET Nat
      OBVIOUS
    <3> HIDE DEF Bad
    <3> QED
      BY <1>1, <3>1, LeastExists
  <2>2. j \in 0 .. n /\ j \in 0 .. m /\ j \in 0 .. k
    BY <2>1
  <2>3. j # 0
    BY <2>1, <2>2 DEF Adds
  <2>4. g[j - 1] = h[j - 1]
    BY <2>1, <2>2, <2>3
  <2> QED
    BY <2>1, <2>2, <2>3, <2>4 DEF Adds
<1> QED
  BY <1>1

\* Total is a running total.
LEMMA TotalAdds ==
    ASSUME NEW w \in Nat, NEW f \in [0 .. w -> Nat], NEW n \in 0 .. w
    PROVE  \E g \in [0 .. n -> Nat] : Adds(f, n, g) /\ Total(f, n) = g[n]
<1> DEFINE upto[k \in 0 .. n] == IF k = 0 THEN f[0] ELSE f[k] + upto[k - 1]
<1>1. Total(f, n) = upto[n]
  BY DEF Total
<1>2. PICK g \in [0 .. n -> Nat] : Adds(f, n, g)
  BY AddsExists
<1>3. g = [k \in 0 .. n |-> IF k = 0 THEN f[0] ELSE f[k] + g[k - 1]]
  <2> DEFINE e(k) == IF k = 0 THEN f[0] ELSE f[k] + g[k - 1]
  <2>1. g = [k \in 0 .. n |-> g[k]] /\ \A k \in 0 .. n : g[k] = e(k)
    BY <1>2 DEF Adds
  <2> HIDE DEF e
  <2>2. g = [k \in 0 .. n |-> e(k)]
    BY <2>1
  <2> QED
    BY <2>2 DEF e
<1>4. upto = [k \in 0 .. n |-> IF k = 0 THEN f[0] ELSE f[k] + upto[k - 1]]
  BY <1>3
<1> HIDE DEF upto
<1>5. Adds(f, n, upto)
  <2> DEFINE e(k) == IF k = 0 THEN f[0] ELSE f[k] + upto[k - 1]
  <2>1. upto = [k \in 0 .. n |-> e(k)]
    BY <1>4
  <2> HIDE DEF e
  <2>2. \A k \in 0 .. n : upto[k] = e(k)
    BY <2>1
  <2> QED
    BY <2>2 DEF e, Adds
<1>6. upto[n] = g[n]
  BY <1>2, <1>5, AddsUnique
<1> QED
  BY <1>1, <1>2, <1>6

\* The recursion a reader expects.
LEMMA TotalStep ==
    ASSUME NEW w \in Nat, NEW f \in [0 .. w -> Nat], NEW n \in 0 .. w
    PROVE  /\ Total(f, n) \in Nat
           /\ n = 0 => Total(f, n) = f[0]
           /\ n # 0 => Total(f, n) = f[n] + Total(f, n - 1)
<1>1. PICK g \in [0 .. n -> Nat] : Adds(f, n, g) /\ Total(f, n) = g[n]
  BY TotalAdds
<1>2. g[n] \in Nat /\ g[n] = IF n = 0 THEN f[0] ELSE f[n] + g[n - 1]
  BY <1>1 DEF Adds
<1>3. CASE n # 0
  <2>1. n - 1 \in 0 .. w
    BY <1>3
  <2>2. PICK h \in [0 .. n - 1 -> Nat] : Adds(f, n - 1, h) /\ Total(f, n - 1) = h[n - 1]
    BY <2>1, TotalAdds
  <2>3. g[n - 1] = h[n - 1]
    BY <1>1, <2>1, <2>2, AddsUnique
  <2> QED
    BY <1>1, <1>2, <1>3, <2>2, <2>3
<1> QED
  BY <1>1, <1>2, <1>3

\* One more of age 0 makes every total one larger.
LEMMA TotalGrows ==
    ASSUME NEW w \in Nat, NEW f \in [0 .. w -> Nat], NEW n \in 0 .. w
    PROVE  Total([f EXCEPT ![0] = @ + 1], n) = Total(f, n) + 1
<1> DEFINE e == [f EXCEPT ![0] = @ + 1]
           Bad == {k \in 0 .. w : Total(e, k) # Total(f, k) + 1}
<1>0. /\ e \in [0 .. w -> Nat] /\ e[0] = f[0] + 1
      /\ \A k \in 0 .. w : k # 0 => e[k] = f[k]
      /\ f[0] \in Nat
  OBVIOUS
<1> HIDE DEF e
<1>1. ASSUME Bad # {} PROVE FALSE
  <2>1. PICK k \in Bad : \A i \in Bad : k <= i
    <3>1. Bad \in SUBSET Nat
      OBVIOUS
    <3> HIDE DEF Bad
    <3> QED
      BY <1>1, <3>1, LeastExists
  <2>2. k \in 0 .. w /\ Total(e, k) # Total(f, k) + 1
    BY <2>1
  <2>3. CASE k = 0
    BY <1>0, <2>2, <2>3, TotalStep
  <2>4. CASE k # 0
    <3>1. k - 1 \in 0 .. w /\ k - 1 \notin Bad
      BY <2>1, <2>4
    <3>2. Total(e, k - 1) = Total(f, k - 1) + 1
      BY <3>1
    <3>3. /\ Total(e, k) = e[k] + Total(e, k - 1)
          /\ Total(f, k) = f[k] + Total(f, k - 1)
          /\ Total(f, k - 1) \in Nat /\ f[k] \in Nat
      BY <1>0, <2>2, <2>4, <3>1, TotalStep
    <3> QED
      BY <1>0, <2>2, <2>4, <3>2, <3>3
  <2> QED
    BY <2>3, <2>4
<1>2. Total(e, n) = Total(f, n) + 1
  BY <1>1
<1> QED
  BY <1>2 DEF e

\* Nothing adds up to nothing.
LEMMA TotalZero ==
    ASSUME NEW w \in Nat, NEW f \in [0 .. w -> Nat], NEW n \in 0 .. w,
           \A k \in 0 .. n : f[k] = 0
    PROVE  Total(f, n) = 0
<1> DEFINE Bad == {k \in 0 .. n : Total(f, k) # 0}
<1>1. ASSUME Bad # {} PROVE FALSE
  <2>1. PICK k \in Bad : \A i \in Bad : k <= i
    <3>1. Bad \in SUBSET Nat
      OBVIOUS
    <3> HIDE DEF Bad
    <3> QED
      BY <1>1, <3>1, LeastExists
  <2>2. k \in 0 .. n /\ k \in 0 .. w /\ Total(f, k) # 0
    BY <2>1
  <2>3. CASE k = 0
    BY <2>2, <2>3, TotalStep
  <2>4. CASE k # 0
    <3>1. k - 1 \in 0 .. n /\ k - 1 \notin Bad
      BY <2>1, <2>4
    <3>2. Total(f, k - 1) = 0
      BY <3>1
    <3>3. Total(f, k) = f[k] + Total(f, k - 1)
      BY <2>2, <2>4, TotalStep
    <3> QED
      BY <2>2, <3>2, <3>3
  <2> QED
    BY <2>3, <2>4
<1> QED
  BY <1>1

\* A tick moves every total to the next age.
LEMMA TotalShifts ==
    ASSUME NEW w \in Nat, NEW f \in [0 .. w -> Nat], NEW n \in 0 .. w,
           NEW e, e = [k \in 0 .. w |-> IF k = 0 THEN 0 ELSE f[k - 1]]
    PROVE  Total(e, n) = IF n = 0 THEN 0 ELSE Total(f, n - 1)
<1> DEFINE Bad == {k \in 0 .. w : Total(e, k) # IF k = 0 THEN 0 ELSE Total(f, k - 1)}
<1>0. /\ e \in [0 .. w -> Nat] /\ e[0] = 0
      /\ \A k \in 0 .. w : k # 0 => e[k] = f[k - 1]
  OBVIOUS
<1>1. ASSUME Bad # {} PROVE FALSE
  <2>1. PICK k \in Bad : \A i \in Bad : k <= i
    <3>1. Bad \in SUBSET Nat
      OBVIOUS
    <3> HIDE DEF Bad
    <3> QED
      BY <1>1, <3>1, LeastExists
  <2>2. k \in 0 .. w /\ Total(e, k) # IF k = 0 THEN 0 ELSE Total(f, k - 1)
    BY <2>1
  <2>3. CASE k = 0
    BY <1>0, <2>2, <2>3, TotalStep
  <2>4. CASE k # 0
    <3>1. k - 1 \in 0 .. w /\ k - 1 \notin Bad
      <4> HIDE DEF Bad
      <4> QED
        BY <2>1, <2>2, <2>4
    <3>2. Total(e, k - 1) = IF k - 1 = 0 THEN 0 ELSE Total(f, (k - 1) - 1)
      BY <3>1
    <3>3. /\ Total(e, k) = f[k - 1] + Total(e, k - 1)
          /\ f[k - 1] \in Nat
      <4>1. Total(e, k) = e[k] + Total(e, k - 1)
        BY <1>0, <2>2, <2>4, TotalStep
      <4>2. e[k] = f[k - 1] /\ f[k - 1] \in Nat
        BY <1>0, <2>2, <2>4, <3>1
      <4> QED
        BY <4>1, <4>2
    <3>4. /\ k - 1 = 0 => Total(f, k - 1) = f[k - 1]
          /\ k - 1 # 0 => Total(f, k - 1) = f[k - 1] + Total(f, (k - 1) - 1)
      BY <3>1, TotalStep
    <3> QED
      BY <2>2, <2>4, <3>2, <3>3, <3>4
  <2> QED
    BY <2>3, <2>4
<1> QED
  BY <1>1

-----------------------------------------------------------------------------
(* Theorems. *)

\* pc stays a function: every step assigns at most one handler's place.
PlacesAreTotal == pc = [h \in Handlers |-> pc[h]]

LEMMA PlacesStay == PlacesAreTotal /\ [Next]_vars => PlacesAreTotal'
<1> SUFFICES ASSUME PlacesAreTotal, [Next]_vars PROVE PlacesAreTotal'
  OBVIOUS
<1>1. pc' = pc \/ \E h, where : pc' = [pc EXCEPT ![h] = where]
  <2>1. pc' = pc \/ \E h, where : Goto(h, where)
    BY DEF Next, Login, BeginLogin, ReadLast, ReadHash, ReadSalt,
           RecordFailure, ClearFailures, OpenSession, BeginChange, Change,
           WriteSalt, WriteHash, Revoke, Fail, EndSession, Tick, vars
  <2> QED
    BY <2>1 DEF Goto
<1> QED
  BY <1>1 DEF PlacesAreTotal

\* Every variable keeps its type; in particular there is never a hash without
\* a salt (set_password writes the salt first).
THEOREM TypeCorrect == Spec => []TypeOK
<1>1. Typed /\ PlacesAreTotal => TypeOK
  <2> SUFFICES ASSUME Typed, PlacesAreTotal PROVE TypeOK
    OBVIOUS
  <2>1. pc \in [Handlers -> {"idle", "counted", "allowed", "comparing", "wrong",
                             "right", "opening", "salting", "hashing",
                             "revoking"}]
    <3>1. pc = [h \in Handlers |-> pc[h]]
      BY DEF PlacesAreTotal
    <3>2. \A h \in Handlers :
             pc[h] \in {"idle", "counted", "allowed", "comparing", "wrong",
                        "right", "opening", "salting", "hashing", "revoking"}
      BY DEF Typed, Handlers
    <3> QED
      BY <3>1, <3>2
  <2> QED
    BY <2>1 DEF Typed, TypeOK
<1>2. IInv /\ PlacesAreTotal => TypeOK
  BY <1>1 DEF IInv
<1>3. Init => PlacesAreTotal
  BY DEF Init, PlacesAreTotal
<1> QED
  BY IInvInit, IInvNext, PlacesStay, <1>2, <1>3, PTL DEF Spec

\* However logins interleave with a change of the password, the password just
\* set is the one that works, and once the change is done nobody is signed in
\* who does not know it, unless he signed in while it was being made
\* (set_password, check_password and create_session).
THEOREM ChangesTakeHold == Spec => []ChangeTakesHold
<1>1. IInv => ChangeTakesHold
  BY DEF IInv, Settled, ChangeTakesHold, PasswordWorks
<1> QED
  BY IInvInit, IInvNext, <1>1, PTL DEF Spec

\* A pause ends by itself: only an attempt let in before it can still be
\* recorded (lockout_remaining and record_failure).
THEOREM PausesEnd == Spec => PauseIsNotProlonged
<1> DEFINE Stays == Paused /\ (\A l \in Logins : pc[l] \notin {"allowed", "comparing", "wrong"})
                      => failed'[0] <= failed[0]
<1>1. IInv /\ [Next]_vars => [Stays]_vars
  <2> SUFFICES ASSUME IInv, Next,
                      \A l \in Logins : pc[l] \notin {"allowed", "comparing", "wrong"}
               PROVE  failed'[0] <= failed[0]
    BY DEF Paused
  <2>1. failed \in [0 .. Window -> Nat] /\ 0 \in 0 .. Window
    BY ThrottleAssumption DEF IInv, Typed
  <2>2. failed[0] \in Nat
    BY <2>1
  <2>3. CASE \E l \in Logins : Login(l) \/ \E p \in Passwords : BeginLogin(l, p)
    <3>1. failed' = failed \/ failed' = [age \in 0 .. Window |-> 0]
      <4>1. \A l \in Logins : ~RecordFailure(l)
        BY DEF RecordFailure
      <4> QED
        BY <2>3, <4>1 DEF Login, BeginLogin, ReadLast, ReadHash,
                        ReadSalt, ClearFailures, OpenSession, Refused
    <3>2. failed'[0] = failed[0] \/ failed'[0] = 0
      BY <2>1, <3>1
    <3> QED
      BY <2>2, <3>2
  <2>4. CASE \E c \in Changers : BeginChange(c) \/ Change(c)
    <3>1. failed' = failed
      BY <2>4 DEF BeginChange, Change, WriteSalt, WriteHash, Revoke
    <3> QED
      BY <2>2, <3>1
  <2>5. CASE (\E h \in Handlers : Fail(h)) \/ (\E s \in sessions : EndSession(s))
    <3>1. failed' = failed
      BY <2>5 DEF Fail, EndSession
    <3> QED
      BY <2>2, <3>1
  <2>6. CASE Tick
    BY <2>1, <2>2, <2>6 DEF Tick
  <2> QED
    BY <2>3, <2>4, <2>5, <2>6 DEF Next
<1>2. Spec => [][Stays]_vars
  <2> HIDE DEF Stays
  <2> QED
    BY IInvInit, IInvNext, <1>1, PTL DEF Spec
<1> QED
  BY <1>2 DEF PauseIsNotProlonged

-----------------------------------------------------------------------------
(* The throttle. *)

\* The logins let in that may still record a failure.
Trying == {l \in Logins : pc[l] \in {"allowed", "comparing", "wrong"}}

\* The failures that have not yet reached the end of the window.
Recent == Total(failed, Window - 1)

\* What is recorded and what may still be is bounded; a login counts from the
\* moment it is let in.
Bounded == Recent + Cardinality(Trying) < MaxAttempts + Cardinality(Logins)

LEMMA TryingFinite ==
    ASSUME NEW S \in SUBSET Logins
    PROVE  /\ IsFiniteSet(S) /\ Cardinality(S) \in Nat
           /\ Cardinality(Logins) \in Nat
           /\ Cardinality(S) <= Cardinality(Logins)
BY HandlersAssumption, FS_Subset, FS_CardinalityType

\* The totals of a table of failures.
LEMMA Totals ==
    ASSUME failed \in [0 .. Window -> Nat]
    PROVE  /\ Count = failed[Window] + Recent
           /\ Count \in Nat /\ Recent \in Nat /\ failed[Window] \in Nat
<1>1. Window \in 0 .. Window /\ Window - 1 \in 0 .. Window /\ Window # 0
      /\ Window \in Nat
  BY ThrottleAssumption
<1> QED
  BY <1>1, TotalStep DEF Count, Recent

\* A step that records nothing and lets nobody in keeps the bound.
LEMMA BoundedQuiet ==
    ASSUME Bounded, Trying' \subseteq Trying,
           Recent \in Nat, Recent' \in Nat, Recent' <= Recent
    PROVE  Bounded'
<1>1. Trying \subseteq Logins /\ Trying' \subseteq Logins
  BY DEF Trying
<1>2. /\ IsFiniteSet(Trying) /\ Cardinality(Trying) \in Nat
      /\ Cardinality(Trying') \in Nat /\ Cardinality(Logins) \in Nat
  BY <1>1, TryingFinite
<1>3. Cardinality(Trying') <= Cardinality(Trying)
  BY <1>2, FS_Subset
<1>4. MaxAttempts \in Nat
  BY ThrottleAssumption
<1> QED
  BY <1>2, <1>3, <1>4 DEF Bounded

\* A login that finds fewer failures than the limit may be let in.
LEMMA BoundedAdmission ==
    ASSUME Recent' \in Nat, Recent' < MaxAttempts
    PROVE  Bounded'
<1>1. Trying' \subseteq Logins
  BY DEF Trying
<1>2. /\ Cardinality(Trying') \in Nat /\ Cardinality(Logins) \in Nat
      /\ Cardinality(Trying') <= Cardinality(Logins)
  BY <1>1, TryingFinite
<1>3. MaxAttempts \in Nat
  BY ThrottleAssumption
<1> QED
  BY <1>2, <1>3 DEF Bounded

LEMMA BoundedLogin ==
    ASSUME IInv, Bounded, NEW l \in Logins,
           Login(l) \/ \E p \in Passwords : BeginLogin(l, p)
    PROVE  Bounded'
<1>1. /\ Typed /\ failed \in [0 .. Window -> Nat]
      /\ failed' \in [0 .. Window -> Nat]
      /\ \A k \in Logins \ {l} : pc'[k] = pc[k]
      /\ l \in DOMAIN pc
  BY LoginLocals, LoginFrame DEF IInv, Typed, Handlers
<1>2. /\ Recent \in Nat /\ Recent' \in Nat
      /\ Count \in Nat /\ Recent <= Count
  <2>1. /\ Recent \in Nat /\ Count \in Nat /\ failed[Window] \in Nat
        /\ Count = failed[Window] + Recent
    BY <1>1, Totals
  <2>2. Window \in Nat /\ Window - 1 \in 0 .. Window
    BY ThrottleAssumption
  <2>3. Total(failed', Window - 1) \in Nat
    BY <1>1, <2>2, TotalStep
  <2> QED
    BY <2>1, <2>3 DEF Recent
<1>3. failed' = failed => Recent' = Recent
  BY DEF Recent
<1>4. pc'[l] \notin {"allowed", "comparing", "wrong"} \/ l \in Trying
        => Trying' \subseteq Trying
  BY <1>1 DEF Trying
<1>5. CASE \E p \in Passwords : BeginLogin(l, p)
  <2>1. failed' = failed /\ \/ pc'[l] = "allowed" /\ Count < MaxAttempts
                            \/ pc'[l] = "counted"
    BY <1>1, <1>5 DEF BeginLogin, Goto, Allows
  <2>2. CASE pc'[l] = "counted"
    BY <1>2, <1>3, <1>4, <2>1, <2>2, BoundedQuiet
  <2>3. CASE Count < MaxAttempts
    <3>1. Recent' < MaxAttempts
      BY <1>2, <1>3, <2>1, <2>3, ThrottleAssumption
    <3> QED
      BY <1>2, <3>1, BoundedAdmission
  <2> QED
    BY <2>1, <2>2, <2>3
<1>6. CASE ReadLast(l)
  <2>1. failed' = failed
    BY <1>6 DEF ReadLast, Refused
  <2>2. CASE pc'[l] = "idle"
    BY <1>2, <1>3, <1>4, <2>1, <2>2, BoundedQuiet
  <2>3. CASE \A age \in 0 .. Window - 1 : failed[age] = 0
    <3>1. Window \in Nat /\ Window - 1 \in 0 .. Window
      BY ThrottleAssumption
    <3>2. Total(failed, Window - 1) = 0
      BY <1>1, <2>3, <3>1, TotalZero
    <3>3. Recent' = 0 /\ 0 < MaxAttempts
      BY <1>3, <2>1, <3>2, ThrottleAssumption DEF Recent
    <3> QED
      BY <1>2, <3>3, BoundedAdmission
  <2> QED
    BY <1>1, <1>6, <2>2, <2>3 DEF ReadLast, Goto
<1>7. CASE ReadHash(l) \/ ReadSalt(l) \/ OpenSession(l)
  <2>1. failed' = failed
    BY <1>7 DEF ReadHash, ReadSalt, OpenSession
  <2>2. pc[l] \in {"allowed", "comparing"} \/ pc'[l] = "idle"
    BY <1>1, <1>7 DEF ReadHash, ReadSalt, OpenSession, Goto
  <2>3. Trying' \subseteq Trying
    BY <1>4, <2>2 DEF Trying
  <2> QED
    BY <1>2, <1>3, <2>1, <2>3, BoundedQuiet
<1>8. CASE RecordFailure(l)
  <2>1. /\ failed' = [failed EXCEPT ![0] = @ + 1]
        /\ pc[l] = "wrong" /\ pc'[l] = "idle"
    BY <1>1, <1>8 DEF RecordFailure, Goto
  <2>2. Recent' = Recent + 1
    <3>1. Window \in Nat /\ Window - 1 \in 0 .. Window
      BY ThrottleAssumption
    <3> QED
      BY <1>1, <2>1, <3>1, TotalGrows DEF Recent
  <2>3. l \in Trying /\ Trying' = Trying \ {l}
    BY <1>1, <2>1 DEF Trying
  <2>4. Trying \subseteq Logins
    BY DEF Trying
  <2>5. /\ IsFiniteSet(Trying) /\ Cardinality(Trying) \in Nat
        /\ Cardinality(Logins) \in Nat
    BY <2>4, TryingFinite
  <2>6. Cardinality(Trying \ {l}) = Cardinality(Trying) - 1
    BY <2>3, <2>5, FS_RemoveElement
  <2>7. Cardinality(Trying') = Cardinality(Trying) - 1
    BY <2>3, <2>6
  <2> QED
    BY <1>2, <2>2, <2>5, <2>7, ThrottleAssumption DEF Bounded
<1>9. CASE ClearFailures(l)
  <2>1. /\ failed' = [age \in 0 .. Window |-> 0]
        /\ pc'[l] = "opening"
    BY <1>1, <1>9 DEF ClearFailures, Goto
  <2>2. Recent' = 0
    <3>1. Window \in Nat /\ Window - 1 \in 0 .. Window
      BY ThrottleAssumption
    <3>2. \A age \in 0 .. Window - 1 : failed'[age] = 0
      BY <2>1, <3>1
    <3>3. Total(failed', Window - 1) = 0
      BY <1>1, <3>1, <3>2, TotalZero
    <3> QED
      BY <3>3 DEF Recent
  <2> QED
    BY <1>2, <1>4, <2>1, <2>2, BoundedQuiet
<1> QED
  BY <1>5, <1>6, <1>7, <1>8, <1>9 DEF Login

LEMMA BoundedNext == IInv /\ Bounded /\ [Next]_vars => Bounded'
<1> SUFFICES ASSUME IInv, Bounded, [Next]_vars PROVE Bounded'
  OBVIOUS
<1>1. failed \in [0 .. Window -> Nat] /\ Typed
  BY DEF IInv, Typed
<1>2. Recent \in Nat
  BY <1>1, Totals
<1>3. CASE \E l \in Logins : Login(l) \/ \E p \in Passwords : BeginLogin(l, p)
  BY <1>3, BoundedLogin
<1>4. CASE \/ \E c \in Changers : BeginChange(c) \/ Change(c)
           \/ \E h \in Handlers : Fail(h)
           \/ \E s \in sessions : EndSession(s)
           \/ UNCHANGED vars
  <2>1. failed' = failed
    BY <1>4 DEF BeginChange, Change, WriteSalt, WriteHash, Revoke, Fail,
                EndSession, vars
  <2>2. \A l \in Logins : pc'[l] = pc[l] \/ pc'[l] = "idle"
    <3>1. CASE \E c \in Changers : BeginChange(c) \/ Change(c)
      BY <1>1, <3>1, ChangeFrame
    <3>2. CASE \E h \in Handlers : Fail(h)
      BY <1>1, <3>2 DEF Fail, Goto, Typed, Handlers
    <3>3. CASE (\E s \in sessions : EndSession(s)) \/ UNCHANGED vars
      BY <3>3 DEF EndSession, vars
    <3> QED
      BY <1>4, <3>1, <3>2, <3>3
  <2>3. Recent' = Recent /\ Trying' \subseteq Trying
    BY <2>1, <2>2 DEF Recent, Trying
  <2> QED
    BY <1>2, <2>3, BoundedQuiet
<1>5. CASE Tick
  <2>1. /\ failed' = [age \in 0 .. Window |-> IF age = 0 THEN 0 ELSE failed[age - 1]]
        /\ pc' = pc
    BY <1>5 DEF Tick
  <2>2. Window \in Nat /\ Window - 1 \in 0 .. Window
    BY ThrottleAssumption
  <2> DEFINE n == Window - 1
  <2>3. Recent' = IF n = 0 THEN 0 ELSE Total(failed, n - 1)
    <3>1. n \in 0 .. Window
      BY <2>2
    <3>2. Total(failed', n) = IF n = 0 THEN 0 ELSE Total(failed, n - 1)
      <4> HIDE DEF n
      <4> QED
        BY <1>1, <2>1, <2>2, <3>1, TotalShifts
    <3> QED
      BY <3>2 DEF Recent
  <2>4. /\ Total(failed, n) \in Nat
        /\ n # 0 => /\ Total(failed, n) = failed[n] + Total(failed, n - 1)
                    /\ failed[n] \in Nat /\ Total(failed, n - 1) \in Nat
    <3>1. n # 0 => n - 1 \in 0 .. Window
      BY <2>2
    <3>2. /\ Total(failed, n) \in Nat
          /\ n # 0 => Total(failed, n) = failed[n] + Total(failed, n - 1)
      BY <1>1, <2>2, TotalStep
    <3>3. n # 0 => Total(failed, n - 1) \in Nat
      <4> HIDE DEF n
      <4> QED
        BY <1>1, <2>2, <3>1, TotalStep
    <3>4. failed[n] \in Nat
      BY <1>1, <2>2
    <3> QED
      BY <3>2, <3>3, <3>4
  <2>5. Recent' \in Nat /\ Recent' <= Recent
    BY <2>3, <2>4 DEF Recent
  <2>6. Trying' \subseteq Trying
    BY <2>1 DEF Trying
  <2> QED
    BY <1>2, <2>5, <2>6, BoundedQuiet
<1> QED
  BY <1>3, <1>4, <1>5 DEF Next

\* The throttle counts every attempt: however logins overlap, each handler
\* gets at most one attempt past the limit into one window, because a login
\* let in counts before its failure is recorded.
THEOREM AttemptsCounted == Spec => []AttemptsAreCounted
<1>1. Init => Bounded
  <2> SUFFICES ASSUME Init PROVE Bounded
    OBVIOUS
  <2>1. failed = [age \in 0 .. Window |-> 0]
    BY DEF Init
  <2>2. Window \in Nat /\ Window - 1 \in 0 .. Window /\ 0 < MaxAttempts
        /\ MaxAttempts \in Nat
    BY ThrottleAssumption
  <2>3. failed \in [0 .. Window -> Nat] /\ \A k \in 0 .. Window - 1 : failed[k] = 0
    BY <2>1, <2>2
  <2>4. Total(failed, Window - 1) = 0
    BY <2>2, <2>3, TotalZero
  <2>5. Trying \subseteq Logins
    BY DEF Trying
  <2>6. /\ Cardinality(Trying) \in Nat /\ Cardinality(Logins) \in Nat
        /\ Cardinality(Trying) <= Cardinality(Logins)
    BY <2>5, TryingFinite
  <2> QED
    BY <2>2, <2>4, <2>6 DEF Bounded, Recent
<1>2. IInv /\ Bounded => AttemptsAreCounted
  <2> SUFFICES ASSUME IInv, Bounded, failed[Window] = 0
               PROVE  Count < MaxAttempts + Cardinality(Logins)
    BY DEF AttemptsAreCounted
  <2>1. failed \in [0 .. Window -> Nat]
    BY DEF IInv, Typed
  <2>2. Count = Recent /\ Recent \in Nat
    BY <2>1, Totals
  <2>3. Trying \subseteq Logins
    BY DEF Trying
  <2>4. Cardinality(Trying) \in Nat /\ Cardinality(Logins) \in Nat
    BY <2>3, TryingFinite
  <2> QED
    BY <2>2, <2>4, ThrottleAssumption DEF Bounded
<1> QED
  BY IInvInit, IInvNext, BoundedNext, <1>1, <1>2, PTL DEF Spec
=============================================================================
