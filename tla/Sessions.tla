------------------------------ MODULE Sessions ------------------------------
(* Who a request is from: the cookies of auth.py in its two cookie modes,  *)
(* composed with the table of accounts whose rows their keys are made of,  *)
(* and the assertions of cf_access.py in proxy mode.  The operator starts  *)
(* the server again with another mode, secret or passphrase.  A change of  *)
(* password passes the gate in one step and acts in a later one.           *)
EXTENDS AccountOps

CONSTANTS
    Confs,         \* [mode, secret, pass, admin]: what the server is started with
    NoPass,        \* no admin passphrase set; a cookie no passphrase made
    NoUid,         \* a cookie of no account
    Nobody,        \* not signed in
    RoleAdmin, RoleUser,   \* ROLE_ADMIN, ROLE_USER
    Kids,          \* signing keys Cloudflare has
    FirstKids,     \* those it signs with when we start to watch
    MaxCookies     \* bound: cookies there are

VARIABLES
    users, used, nextCred, spent,   \* AccountTable
    conf,      \* AUTH, as read at the start
    cookies,   \* the cookies minted, until their time is past
    pending,   \* a change of password between the gate and its handler
    issuer,    \* the kids Cloudflare signs with now
    cache,     \* AccessVerifier: [kids, fresh]
    gone       \* history: kids withdrawn before the cache of this start last ran out
vars == <<users, used, nextCred, spent, conf, cookies, pending, issuer, cache, gone>>
tableVars == <<users, used, nextCred, spent>>
proxyVars == <<issuer, cache, gone>>

Table == INSTANCE AccountTable

ASSUME SessionsAssumption ==
    /\ {RoleAdmin, RoleUser} \subseteq Roles /\ RoleAdmin # RoleUser
    /\ NoUid \notin Uids
    /\ \A c \in Confs : c.mode \in {"accounts", "passphrase", "proxy"}
    \* config._load_auth refuses two passphrases that are the same
    /\ \A c \in Confs : c.pass # c.admin
    /\ FirstKids \subseteq Kids /\ FirstKids # {}
    /\ MaxCookies \in Nat

---------------------------------------------------------------------------
\* _account_key(), _signing_key(), _role_keys(): the role is in the key.
MutAccountKey(secret, uid, row) == <<secret, row.role, uid>>
AccountKey(secret, uid, row) == <<secret, row.role, uid, row.hash>>
SigningKey(secret, passphrase) == <<secret, passphrase>>
MutRoleKeys(c) ==
    IF c.admin # NoPass
    THEN {[role |-> RoleAdmin, key |-> SigningKey(c.secret, c.admin)],
          [role |-> RoleUser, key |-> SigningKey(c.secret, <<c.admin, c.pass>>)]}
    ELSE {[role |-> RoleAdmin, key |-> SigningKey(c.secret, c.pass)]}
RoleKeys(c) ==
    IF c.admin # NoPass
    THEN {[role |-> RoleAdmin, key |-> SigningKey(c.secret, c.admin)],
          [role |-> RoleUser, key |-> SigningKey(c.secret, c.pass)]}
    ELSE {[role |-> RoleAdmin, key |-> SigningKey(c.secret, c.pass)]}

\* The passphrase that opens a role.
PassFor(c, role) == IF role = RoleAdmin /\ c.admin # NoPass THEN c.admin ELSE c.pass

\* A cookie carries its account and its signature; how it came about (role,
\* hash, secret and passphrase) is remembered for the properties.
AccountCookie(uid, row) ==
    [uid |-> uid, key |-> AccountKey(conf.secret, uid, row), role |-> row.role,
     hash |-> row.hash, secret |-> conf.secret, pass |-> NoPass]
PassCookie(rk, passphrase) ==
    [uid |-> NoUid, key |-> rk.key, role |-> rk.role, hash |-> None,
     secret |-> conf.secret, pass |-> passphrase]
Mint(cookie) ==
    /\ Cardinality(cookies \cup {cookie}) <= MaxCookies
    /\ cookies' = cookies \cup {cookie}

\* _valid_account(), _valid(): the principal a cookie proves
ProvesAccount(c, rows) ==
    IF c.uid \in Live(rows) /\ CanSignIn(rows[c.uid])
       /\ c.key = AccountKey(conf.secret, c.uid, rows[c.uid])
    THEN [who |-> rows[c.uid].name, role |-> rows[c.uid].role]
    ELSE Nobody
ProvesPass(c) ==
    IF c.uid = NoUid /\ \E rk \in RoleKeys(conf) : rk.key = c.key
    THEN [who |-> Nobody, role |-> (CHOOSE rk \in RoleKeys(conf) : rk.key = c.key).role]
    ELSE Nobody
Proves(c) ==
    CASE conf.mode = "accounts"   -> ProvesAccount(c, users)
      [] conf.mode = "passphrase" -> ProvesPass(c)
      [] OTHER                    -> Nobody
Valid(c) == Proves(c) # Nobody

---------------------------------------------------------------------------
Init ==
    /\ Table!Init
    /\ conf \in Confs
    /\ cookies = {} /\ pending = Nobody
    /\ issuer = FirstKids /\ cache = [kids |-> {}, fresh |-> FALSE] /\ gone = {}

\* POST /login: a password proves the hash; one hashed with old parameters is
\* hashed again first, which makes another key.
Login(uid) ==
    /\ conf.mode = "accounts" /\ uid \in Live(users) /\ CanSignIn(users[uid])
    /\ \/ Mint(AccountCookie(uid, users[uid])) /\ UNCHANGED <<tableVars, pending>>
       \/ /\ Table!UpgradeHash(uid)
          /\ Mint(AccountCookie(uid, users'[uid]))
          \* the password is the same: who knew it still does
          /\ pending' = IF pending # Nobody /\ pending.knows = users[uid].hash
                        THEN [pending EXCEPT !.knows = users'[uid].hash] ELSE pending
    /\ UNCHANGED <<conf, proxyVars>>
LoginPass ==
    /\ conf.mode = "passphrase"
    /\ \E rk \in RoleKeys(conf) : Mint(PassCookie(rk, PassFor(conf, rk.role)))
    /\ UNCHANGED <<tableVars, conf, pending, proxyVars>>

\* POST /enroll: the invite is spent and the caller signed in
Enroll(uid) ==
    /\ conf.mode = "accounts" /\ uid \in Live(users)
    /\ Table!RedeemInvite(uid)
    /\ Mint(AccountCookie(uid, users'[uid]))
    /\ UNCHANGED <<conf, pending, proxyVars>>

\* The gate lets a change of password through, from somebody who knows the
\* password as it is now; the handler runs later.
Gate(c) ==
    /\ conf.mode = "accounts" /\ pending = Nobody /\ Valid(c)
    /\ pending' = [who |-> Proves(c).who, uid |-> c.uid, knows |-> users[c.uid].hash]
    /\ UNCHANGED <<tableVars, conf, cookies, proxyVars>>
\* POST /account/password: the account of that name, if the current password
\* is right for it; the cookie is issued again under the new hash.
Verified(row, knows) == row.hash # None /\ row.hash = knows
ChangePassword(uid) ==
    /\ pending # Nobody /\ uid \in Live(users) /\ users[uid].name = pending.who
    /\ Verified(users[uid], pending.knows)
    /\ Table!SetPassword(uid)
    /\ Mint(AccountCookie(uid, users'[uid]))
    /\ pending' = Nobody
    /\ UNCHANGED <<conf, proxyVars>>
\* No such account, or not its password.
ChangeRefused ==
    /\ pending # Nobody
    /\ \A uid \in Live(users) :
          users[uid].name = pending.who => ~Verified(users[uid], pending.knows)
    /\ pending' = Nobody
    /\ UNCHANGED <<tableVars, conf, cookies, proxyVars>>

\* The administrators' routes (RoleTier models who may use them)
Administer ==
    /\ conf.mode = "accounts"
    /\ \/ \E uid \in Uids, name \in Names, role \in Roles : Table!Create(uid, name, role)
       \/ \E uid \in Live(users) :
             \/ Table!IssueInvite(uid)
             \/ Table!Delete(uid)
             \/ \E role \in Roles, disabled \in BOOLEAN : Table!Update(uid, role, disabled)
    /\ UNCHANGED <<conf, cookies, pending, proxyVars>>

Expires(c) ==
    /\ cookies' = cookies \ {c}
    /\ UNCHANGED <<tableVars, conf, pending, proxyVars>>

\* The server starts with this configuration, as the environment has it now; a
\* secret it makes up is one more conf.  The key cache starts empty.
Restart(c) ==
    /\ conf' = c
    /\ pending' = Nobody
    /\ cache' = [kids |-> {}, fresh |-> FALSE]
    /\ gone' = {}
    /\ UNCHANGED <<tableVars, cookies, issuer>>

---------------------------------------------------------------------------
\* Proxy mode.  _key_for(): a fresh cache that has the kid, or else what
\* Cloudflare answers now, which becomes the cache; no answer is a refusal.
MutAccepts(kid) == kid \in cache.kids \/ kid \in issuer
Accepts(kid) == IF cache.fresh /\ kid \in cache.kids THEN TRUE ELSE kid \in issuer
Assertion(kid) ==
    /\ conf.mode = "proxy"
    /\ cache' = IF cache.fresh /\ kid \in cache.kids THEN cache
                ELSE [kids |-> issuer, fresh |-> TRUE]
    /\ UNCHANGED <<tableVars, conf, cookies, pending, issuer, gone>>
\* Cloudflare rotates: one key more, or one withdrawn.
RotatesIn(kid) ==
    /\ conf.mode = "proxy" /\ kid \notin issuer \cup gone
    /\ issuer' = issuer \cup {kid}
    /\ UNCHANGED <<tableVars, conf, cookies, pending, cache, gone>>
Withdraws(kid) ==
    /\ conf.mode = "proxy" /\ issuer \ {kid} # {}
    /\ issuer' = issuer \ {kid}
    /\ UNCHANGED <<tableVars, conf, cookies, pending, cache, gone>>
\* Ten minutes since the keys were fetched.
CacheRunsOut ==
    /\ cache.fresh
    /\ cache' = [cache EXCEPT !.fresh = FALSE]
    /\ gone' = gone \cup (cache.kids \ issuer)
    /\ UNCHANGED <<tableVars, conf, cookies, pending, issuer>>

Next ==
    \/ \E uid \in Uids : Login(uid) \/ Enroll(uid) \/ ChangePassword(uid)
    \/ LoginPass
    \/ \E c \in cookies : Gate(c) \/ Expires(c)
    \/ ChangeRefused \/ Administer
    \/ \E c \in Confs : Restart(c)
    \/ \E kid \in Kids : Assertion(kid) \/ RotatesIn(kid) \/ Withdraws(kid)
    \/ CacheRunsOut
Spec == Init /\ [][Next]_vars

---------------------------------------------------------------------------
\* A session is never older than what it rests on: its account may sign in, has
\* the role it was begun with and a password no operation has replaced; its
\* passphrase is one of the two in force and opens the role it proves
\* (auth._account_key, _role_keys, _valid_account, _valid).
SessionsCurrent ==
    \A c \in cookies : Valid(c) =>
        /\ c.secret = conf.secret
        /\ conf.mode = "accounts" =>
              /\ c.hash \notin spent /\ c.role = Proves(c).role
              /\ users[c.uid].hash # None /\ ~users[c.uid].disabled
        /\ conf.mode = "passphrase" =>
              /\ c.pass \in {conf.pass, conf.admin}
              /\ Proves(c).role = RoleAdmin <=> (c.pass = conf.admin \/ conf.admin = NoPass)

\* Rotating one of two passphrases ends the sessions it opened and leaves those
\* of the other alone (auth._role_keys: "ends every admin session and leaves
\* user sessions alone").
Rotates(c, d) ==
    /\ c # d /\ c.mode = "passphrase" /\ d.mode = "passphrase" /\ c.secret = d.secret
    /\ c.admin # NoPass /\ d.admin # NoPass /\ (c.pass = d.pass \/ c.admin = d.admin)
RotationSpares ==
    [][ Rotates(conf, conf') => \A c \in cookies : Valid(c) =>
            IF c.pass \in {conf'.pass, conf'.admin} THEN Proves(c)' = Proves(c)
                                                    ELSE ~Valid(c)' ]_vars

\* A key Cloudflare withdrew is accepted no longer than the cache's ten
\* minutes, and a key it has added is accepted at once (cf_access._key_for).
WithdrawnRefused ==
    conf.mode = "proxy" => \A kid \in Kids :
        /\ kid \in issuer => Accepts(kid)
        /\ kid \in gone \ issuer => ~Accepts(kid)
============================================================================
