------------------------------ MODULE Throttle ------------------------------
(* The doors that take a guess and the delay behind them: the in-memory    *)
(* throttle of auth.py, the login of both cookie modes, the enrolment      *)
(* links and the change of a password.  Times are kept as what is left of  *)
(* them, so that time may pass for ever: a block or a memory of a failure  *)
(* runs down to zero.                                                      *)
EXTENDS Integers, FiniteSets

CONSTANTS
    Modes,        \* the modes an operator may start the server in
    Addresses,    \* client addresses, as _client_ip makes them out
    Offered,      \* usernames that are offered
    Members,      \* those an account is enrolled under
    Free,         \* _FREE_ATTEMPTS: per kind of key, failures before any delay
    Cap,          \* _BACKOFF_CAP_SECONDS
    Lockout,      \* AUTH.lockout_seconds: how long a failure is remembered
    MaxAttempts,  \* AUTH.max_attempts (passphrase mode)
    MaxTracked,   \* _ATTEMPTS_MAX_TRACKED
    Strange,      \* may a stranger guess at the members' own names?
    MaxCount,     \* bound: counts beyond it are not told apart
    MaxSlips,     \* bound: wrong current passwords typed behind the gate
    MaxRestarts   \* bound: restarts of the server

Kinds == {"ip", "user", "enroll"}
Keys == ({"ip", "enroll"} \X Addresses) \cup ({"user"} \X Offered)
FreeOf(key) == Free[key[1]]
Least(a, b) == IF a < b THEN a ELSE b

ASSUME ThrottleAssumption ==
    /\ Modes \subseteq {"accounts", "passphrase"}
    /\ Members \subseteq Offered
    /\ Free \in [Kinds -> Nat]
    /\ Cap \in Nat \ {0} /\ Lockout \in Nat \ {0} /\ MaxAttempts \in Nat \ {0}
    /\ MaxTracked \in Nat \ {0} /\ Cap <= Lockout /\ Strange \in BOOLEAN
    \* beyond it neither mode tells counts apart
    /\ MaxCount \in Nat /\ MaxCount >= MaxAttempts
    /\ \A kind \in Kinds : MaxCount - Free[kind] > Cap

VARIABLES
    mode,      \* AUTH.mode
    attempts,  \* _attempts: [count, blocked, forget] per key that has failed
    blame,     \* history: failures of each key since its last success
    signedIn,  \* history: who has got in since the last restart
    slips,     \* wrong current passwords so far
    restarts   \* restarts so far
throttleVars == <<mode, attempts, blame, signedIn, slips, restarts>>

NoAttempts == [k \in {} |-> 0]

ThrottleInit ==
    /\ mode \in Modes
    /\ attempts = NoAttempts
    /\ blame = [k \in Keys |-> 0]
    /\ signedIn = {}
    /\ slips = 0 /\ restarts = 0

---------------------------------------------------------------------------
\* _locked_until(), _throttled()
Backoff == mode = "accounts"
WaitOf(key) ==
    IF key \notin DOMAIN attempts THEN 0
    ELSE IF Backoff \/ attempts[key].count >= MaxAttempts THEN attempts[key].blocked
    ELSE 0
Throttled(keys) == \E key \in keys : WaitOf(key) > 0

\* _record_one_failure(): at the limit what is already forgotten goes, and if
\* that is not enough everything goes.
Remembered(tab) == {k \in DOMAIN tab : tab[k].forget > 0}
Purged(tab) ==
    IF Cardinality(DOMAIN tab) < MaxTracked THEN tab
    ELSE IF Cardinality(Remembered(tab)) < MaxTracked THEN [k \in Remembered(tab) |-> tab[k]]
    ELSE NoAttempts

MutDelay(key, count) == Least(2 ^ count, Cap)
Delay(key, count) ==
    LET over == count - FreeOf(key) IN IF over > 0 THEN Least(2 ^ (over - 1), Cap) ELSE 0
CountOf(tab, key) ==
    IF key \notin DOMAIN tab \/ tab[key].forget = 0 THEN 1
    ELSE Least(tab[key].count + 1, MaxCount)
Failed(tab, key) ==
    LET kept == Purged(tab)
        count == CountOf(kept, key)
    IN  [k \in DOMAIN kept \cup {key} |->
            IF k # key THEN kept[k]
            ELSE [count |-> count, forget |-> Lockout,
                  blocked |-> IF Backoff THEN Delay(key, count) ELSE Lockout]]

Record(key) ==
    /\ attempts' = Failed(attempts, key)
    /\ blame' = [blame EXCEPT ![key] = Least(@ + 1, MaxCount)]
\* _record_failure(*keys): the address first, then the name
RecordBoth(ip, user) ==
    /\ attempts' = Failed(Failed(attempts, ip), user)
    /\ blame' = [blame EXCEPT ![ip] = Least(@ + 1, MaxCount),
                              ![user] = Least(@ + 1, MaxCount)]
\* _clear_failures()
Clear(keys) ==
    /\ attempts' = [k \in DOMAIN attempts \ keys |-> attempts[k]]
    /\ blame' = [k \in Keys |-> IF k \in keys THEN 0 ELSE blame[k]]

---------------------------------------------------------------------------
LoginKeys(a, n) == {<<"ip", a>>, <<"user", n>>}

\* POST /login in accounts mode.  The throttle is asked first; a name nobody
\* has, a disabled account and a wrong password fail alike.
MutMayTry(keys) == TRUE
MayTry(keys) == ~Throttled(keys)
LoginWrong(a, n) ==
    /\ mode = "accounts" /\ (n \in Members => Strange)
    /\ MayTry(LoginKeys(a, n))
    /\ RecordBoth(<<"ip", a>>, <<"user", n>>)
    /\ UNCHANGED <<mode, signedIn, slips, restarts>>
LoginRight(a, n) ==
    /\ mode = "accounts" /\ n \in Members
    /\ ~Throttled(LoginKeys(a, n))
    /\ Clear(LoginKeys(a, n))
    /\ signedIn' = signedIn \cup {n}
    /\ UNCHANGED <<mode, slips, restarts>>

\* POST /login in passphrase mode: one shared secret, the address alone counts.
PassphraseWrong(a) ==
    /\ mode = "passphrase" /\ MayTry({<<"ip", a>>})
    /\ Record(<<"ip", a>>)
    /\ UNCHANGED <<mode, signedIn, slips, restarts>>
PassphraseRight(a) ==
    /\ mode = "passphrase" /\ ~Throttled({<<"ip", a>>})
    /\ Clear({<<"ip", a>>})
    /\ UNCHANGED <<mode, signedIn, slips, restarts>>

\* GET and POST /enroll with a link that is not good: counted unless it is
\* waiting already.  A password below the floor is not counted.
EnrollBad(a) ==
    /\ mode = "accounts" /\ ~Throttled({<<"enroll", a>>})
    /\ Record(<<"enroll", a>>)
    /\ UNCHANGED <<mode, signedIn, slips, restarts>>
\* A good link is redeemed whatever anybody else has been doing.
EnrollGood(a, n) ==
    /\ mode = "accounts" /\ n \in Members
    /\ Clear({<<"enroll", a>>, <<"user", n>>})
    /\ signedIn' = signedIn \cup {n}
    /\ UNCHANGED <<mode, slips, restarts>>

\* POST /account/password with a wrong current one: behind the gate, counted
\* against the name, and never asked to wait.
WrongCurrent(n) ==
    /\ mode = "accounts" /\ n \in Members \cap signedIn /\ slips < MaxSlips
    /\ Record(<<"user", n>>)
    /\ slips' = slips + 1
    /\ UNCHANGED <<mode, signedIn, restarts>>

\* The table is in memory, so a restart forgets it.
ServerRestart(m) ==
    /\ restarts < MaxRestarts
    /\ mode' = m
    /\ attempts' = NoAttempts
    /\ blame' = [k \in Keys |-> 0]
    /\ signedIn' = {}
    /\ restarts' = restarts + 1
    /\ UNCHANGED slips

Down(n) == IF n = 0 THEN 0 ELSE n - 1
Tick ==
    /\ attempts' = [k \in DOMAIN attempts |->
           [count |-> attempts[k].count, blocked |-> Down(attempts[k].blocked),
            forget |-> Down(attempts[k].forget)]]
    /\ UNCHANGED <<mode, blame, signedIn, slips, restarts>>

ThrottleNext ==
    \/ \E a \in Addresses, n \in Offered :
          LoginWrong(a, n) \/ LoginRight(a, n) \/ EnrollGood(a, n)
    \/ \E a \in Addresses : PassphraseWrong(a) \/ PassphraseRight(a) \/ EnrollBad(a)
    \/ \E n \in Offered : WrongCurrent(n)
    \/ \E m \in Modes : ServerRestart(m)
    \/ Tick
ThrottleSpec == ThrottleInit /\ [][ThrottleNext]_throttleVars

\* Time passes, and a member who is refused comes back: not at any moment, but
\* at one of those at which the door is open, sooner or later.
Fairness ==
    /\ WF_throttleVars(Tick)
    /\ \A a \in Addresses, n \in Members : SF_throttleVars(LoginRight(a, n))
FairSpec == ThrottleSpec /\ Fairness

---------------------------------------------------------------------------
\* Nobody waits for what did not happen: a key that is refused has failed more
\* often than it may for free since somebody last succeeded with it - the
\* allowance that keeps one person's slips from slowing a shared address
\* (auth._FREE_ATTEMPTS, _record_one_failure, _clear_failures).
Deserved ==
    \A k \in Keys : WaitOf(k) > 0 =>
        blame[k] >= IF Backoff THEN FreeOf(k) + 1 ELSE MaxAttempts

\* No number of wrong guesses by strangers shuts a member out for good: one who
\* keeps coming back with the right password gets in (accounts mode "never
\* refuses outright", auth._locked_until).
RightOneGetsIn ==
    \A n \in Members : [](mode = "accounts" => <>(n \in signedIn \/ mode # "accounts"))

============================================================================
